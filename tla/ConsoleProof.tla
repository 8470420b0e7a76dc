---------------------------- MODULE ConsoleProof ----------------------------
(***************************************************************************)
(* Proofs about Console, for any set of CPUs, any length of the ring and   *)
(* any number of characters.                                               *)
(***************************************************************************)
EXTENDS Console, TLAPS

Where == {"idle", "write", "flush", "check", "loop", "unlocked", "driver", "end"}

\* The places where con_lock is held, and the ones of a flush under way.
Locked == {"write", "check", "loop", "end"}
Flushing == {"loop", "unlocked", "driver"}

\* The types of Console, and of what TypeOK leaves out.
AllTypes ==
  /\ TypeOK
  /\ flush_to_drivers \in [CPUs -> BOOLEAN]
  /\ chars \in 0..MaxChars
  /\ out \in Seq(Nat)

\* con_lock and in_flush say where the CPUs are: one CPU at most is between
\* lock and unlock, and one at most in the loop of __flush_console.
Exclusive ==
  \A c \in CPUs :
    /\ con_lock = c <=> pc[c] \in Locked
    /\ pc[c] \in Flushing => /\ in_flush
                             /\ \A d \in CPUs : pc[d] \in Flushing => c = d

\* in_flush is set by a CPU in the loop, and there is a driver then.
InFlush == in_flush => con_driver /\ \E c \in CPUs : pc[c] \in Flushing

\* A CPU has noted that it must flush, or is about to.
Promised == \E c \in CPUs : con_need_flush[c] \/ pc[c] = "flush"

\* A CPU is between its write and its __flush_console.
Undecided == \E c \in CPUs : pc[c] \in {"write", "check"}

\* The driver takes at most what it was given.
Within == \A c \in CPUs : pc[c] = "driver" => len[c] <= req[c]

\* There is something in the ring after a write.
Written == \A c \in CPUs : pc[c] = "write" => con_in # con_out

\* Output waits without a flush only where it may.
Covered ==
  ~in_flush /\ ~Undecided =>
    con_in = con_out \/ ~con_driver \/ failed \/ Promised

\* The driver's write under way is the last one of this flush only if it
\* ends at con_in, or if somebody has promised to flush what came later.
LastTurn ==
  \A c \in CPUs : pc[c] \in {"unlocked", "driver"} =>
    \/ more_flush
    \/ (con_out + req[c]) % OutLen = con_in
    \/ con_in # con_out /\ (Promised \/ Undecided)

\* The inductive invariant of NothingLeft.
FlushInv == AllTypes /\ Exclusive /\ InFlush /\ Within /\ Written /\ Covered /\ LastTurn

\* A place of the ring, for an index that goes around at most once.
Around(i) == IF i < OutLen THEN i ELSE i - OutLen

\* The number of characters between con_out and con_in, and the number of
\* the last character before con_out.
Used == IF con_in >= con_out THEN con_in - con_out ELSE con_in + (OutLen - con_out)
Passed == chars - Used

\* What waits in the ring is the last characters written, in their order.
RingExact ==
  /\ Used <= chars
  /\ \A i \in 0..Used - 1 : con_buf[Around(con_out + i)] = (Passed + 1) + i

\* A driver's write is of characters that are waiting, from con_out on and
\* within the ring.
WriteExact ==
  \A c \in CPUs :
    /\ pc[c] \in {"unlocked", "driver"} => req[c] <= Used /\ con_out + req[c] <= OutLen
    /\ pc[c] = "driver" => from[c] = con_out

\* The driver has some of the characters up to the one it is at, each once
\* and in order, and the others up to con_out were passed over.  "Given" is
\* the number of the last character the driver got from the ring.
OutExact(given) ==
  /\ \A i \in 1..Len(out) : out[i] <= given
  /\ \A i \in 1..Len(out) - 1 : out[i] < out[i + 1]
  /\ ToSet(out) \cap lost = {}
  /\ lost \subseteq 1..Passed
  /\ ToSet(out) \cup lost = 1..given

Delivered ==
  /\ \A c \in CPUs : pc[c] = "driver" => OutExact(Passed + len[c])
  /\ (\A c \in CPUs : pc[c] # "driver") => OutExact(Passed)

\* The inductive invariant of OutInOrder.
OrderInv == ~overrun => RingExact /\ WriteExact /\ Delivered

\* Going around the ring, without the division.
LEMMA RingPlace ==
  ASSUME NEW i \in Nat, i < OutLen + OutLen
  PROVE  i % OutLen = Around(i) /\ Around(i) \in Slots
<1>1. i % OutLen = Around(i)
  BY ConsoleAssumption, SMT DEF Around
<1> QED
  BY <1>1, ConsoleAssumption DEF Around, Slots

\* The distance from con_out to con_in, without the division.
LEMMA RingUsed ==
  ASSUME con_in \in Slots, con_out \in Slots
  PROVE  (con_in - con_out) % OutLen = Used /\ Used \in Slots
<1>1. (con_in - con_out) % OutLen = Used
  BY ConsoleAssumption, SMT DEF Used, Slots
<1> QED
  BY <1>1, ConsoleAssumption DEF Used, Slots

\* The next place of the ring is another one.
LEMMA RingNext ==
  ASSUME NEW i \in Slots
  PROVE  /\ (i + 1) % OutLen \in Slots /\ (i + 1) % OutLen # i
         /\ (i + 1) % OutLen = IF i + 1 < OutLen THEN i + 1 ELSE 0
<1>1. i \in Nat /\ i + 1 < OutLen + OutLen /\ i < OutLen
  BY ConsoleAssumption DEF Slots
<1>2. (i + 1) % OutLen = Around(i + 1)
  BY <1>1, RingPlace
<1> QED
  BY <1>1, <1>2, ConsoleAssumption DEF Around, Slots

\* Indices into the ring are less than its length, so that a sum of two goes
\* around it at most once.
LEMMA SlotSum ==
  ASSUME NEW i \in Slots, NEW j \in Slots
  PROVE  /\ i + j \in Nat /\ i + j < OutLen + OutLen
         /\ i < j => i + 1 \in Slots
BY ConsoleAssumption DEF Slots

\* Before console_init() the ring is empty and nobody is at work.
LEMMA InitFlush == Init => FlushInv
<1> SUFFICES ASSUME Init PROVE FlushInv
  OBVIOUS
<1> USE ConsoleAssumption DEF Init
<1>1. AllTypes
  <2>1. 0 \in Slots /\ 0 \in 0..MaxChars
    BY DEF Slots
  <2>2. \A f \in {in_flush, more_flush, con_driver, failed, overrun} : f \in BOOLEAN
    OBVIOUS
  <2>3. out \in Seq(Nat)
    OBVIOUS
  <2> QED
    BY <2>1, <2>2, <2>3 DEF AllTypes, TypeOK
<1>2. Exclusive /\ InFlush /\ Within /\ Written /\ Covered /\ LastTurn
  BY DEF Exclusive, InFlush, Within, Written, Covered, LastTurn, Locked, Flushing
<1> QED
  BY <1>1, <1>2 DEF FlushInv

\* inmem_write leaves its character in the ring, and head and tail in it.
LEMMA WriteFacts ==
  ASSUME AllTypes, inmem_write
  PROVE  /\ con_buf' \in [Slots -> 0..MaxChars] /\ con_in' \in Slots /\ con_out' \in Slots
         /\ chars' \in 0..MaxChars /\ overrun' \in BOOLEAN
         /\ con_in' # con_out'
<1> USE ConsoleAssumption
<1>1. con_in \in Slots /\ con_out \in Slots /\ con_buf \in [Slots -> 0..MaxChars]
      /\ chars \in 0..MaxChars /\ overrun \in BOOLEAN /\ in_flush \in BOOLEAN
  BY DEF AllTypes, TypeOK
<1>2. chars' = chars + 1 /\ chars' \in 0..MaxChars
  BY <1>1 DEF inmem_write
<1>3. con_buf' \in [Slots -> 0..MaxChars]
  BY <1>1, <1>2 DEF inmem_write
<1>4. con_in' \in Slots
  BY <1>1, RingNext DEF inmem_write
<1>5. CASE con_in' # con_out /\ UNCHANGED <<con_out, lost, overrun>>
  BY <1>1, <1>2, <1>3, <1>4, <1>5
<1>6. CASE con_out' = (con_in' + 1) % OutLen /\ overrun' = (overrun \/ in_flush)
  <2>1. con_out' \in Slots /\ con_out' # con_in'
    BY <1>4, <1>6, RingNext
  <2>2. overrun' \in BOOLEAN
    BY <1>1, <1>6
  <2> QED
    BY <1>2, <1>3, <1>4, <2>1, <2>2
<1> QED
  BY <1>5, <1>6 DEF inmem_write

\* The rest of what AllTypes says, for a step that writes a character.
LEMMA WriteTypes ==
  ASSUME AllTypes, inmem_write,
         UNCHANGED <<flags, con_driver, con_suspend, from, req, len, out, failed>>,
         con_lock' \in CPUs \cup {NoCpu}, pc' \in [CPUs -> Where],
         con_need_flush' \in [CPUs -> BOOLEAN], flush_to_drivers' \in [CPUs -> BOOLEAN]
  PROVE  AllTypes'
<1>1. \A f \in {in_flush', more_flush', con_driver', failed', overrun'} : f \in BOOLEAN
  BY WriteFacts DEF AllTypes, TypeOK, flags
<1>2. /\ con_suspend' \in [CPUs -> BOOLEAN] /\ out' \in Seq(Nat)
      /\ from' \in [CPUs -> Slots'] /\ req' \in [CPUs -> Slots'] /\ len' \in [CPUs -> Slots']
  BY DEF AllTypes, TypeOK, Slots
<1> QED
  BY <1>1, <1>2, WriteFacts DEF AllTypes, TypeOK, Where, Slots

\* Every step keeps the types: the indices stay in the ring, a driver's write
\* is shorter than the ring.
LEMMA TypeStep == FlushInv /\ [Next]_vars => AllTypes'
<1> SUFFICES ASSUME FlushInv, [Next]_vars PROVE AllTypes'
  OBVIOUS
<1> USE ConsoleAssumption DEF FlushInv, AllTypes, TypeOK, Slots,
    ring, flags, percpu, locals, ghost
<1>1. ASSUME NEW c \in CPUs, flush_console(c) PROVE AllTypes'
  BY <1>1 DEF flush_console, Goto
<1>2. ASSUME NEW c \in CPUs, flush_none(c) PROVE AllTypes'
  BY <1>2 DEF flush_none, Goto
<1>3. ASSUME NEW c \in CPUs, flush_suspended(c) PROVE AllTypes'
  BY <1>3 DEF flush_suspended, Goto, Flushable
<1>4. ASSUME NEW c \in CPUs, flush_left(c) PROVE AllTypes'
  BY <1>4 DEF flush_left, Goto, Flushable
<1>5. ASSUME NEW c \in CPUs, flush_skip(c) PROVE AllTypes'
  BY <1>5 DEF flush_skip, Goto, Flushable
<1>6. ASSUME NEW c \in CPUs, flush_begin(c) PROVE AllTypes'
  BY <1>6 DEF flush_begin, Goto, Flushable
<1>7. ASSUME NEW c \in CPUs, flush_loop(c) PROVE AllTypes'
  BY <1>7, SMTT(40) DEF flush_loop, Goto
<1>8. ASSUME NEW c \in CPUs, driver_call(c) PROVE AllTypes'
  BY <1>8, SMTT(40) DEF driver_call, Goto
<1>9. ASSUME NEW c \in CPUs, driver_char(c) PROVE AllTypes'
  <2>1. len[c] \in Slots /\ req[c] \in Slots /\ from[c] \in Slots /\ len[c] < req[c]
    BY <1>9 DEF driver_char
  <2>2. len[c] + 1 \in Slots /\ from[c] + len[c] \in Nat
    BY <2>1, SlotSum
  <2>3. (IF from[c] + len[c] \in Slots THEN con_buf[from[c] + len[c]] ELSE 0) \in Nat
    OBVIOUS
  <2>4. out' \in Seq(Nat)
    BY <1>9, <2>3 DEF driver_char
  <2>5. len' \in [CPUs -> Slots]
    BY <1>9, <2>2 DEF driver_char
  <2> QED
    BY <1>9, <2>4, <2>5 DEF driver_char
<1>10. ASSUME NEW c \in CPUs, driver_return(c) PROVE AllTypes'
  <2>1. con_out + len[c] \in Nat /\ con_out + len[c] < OutLen + OutLen
    BY SlotSum
  <2>2. con_out' \in Slots
    BY <1>10, <2>1, RingPlace, SMTT(40) DEF driver_return
  <2>3. in_flush' \in BOOLEAN /\ failed' \in BOOLEAN
    <3>1. in_flush \in BOOLEAN /\ failed \in BOOLEAN /\ (len[c] < req[c]) \in BOOLEAN
      OBVIOUS
    <3>2. \/ in_flush' = FALSE /\ failed' = (len[c] < req[c])
          \/ UNCHANGED <<in_flush, failed>>
      BY <1>10 DEF driver_return
    <3> QED
      BY <3>1, <3>2
  <2>4. pc' \in [CPUs -> Where]
    BY <1>10 DEF driver_return, Goto, Where
  <2>5. /\ UNCHANGED <<con_buf, con_in, con_driver, more_flush, percpu, locals, trouble, chars,
                       out, lost, overrun>>
        /\ con_lock' = c
    BY <1>10 DEF driver_return
  <2> QED
    BY <2>2, <2>3, <2>4, <2>5 DEF Where
<1>11. ASSUME NEW c \in CPUs, con_unlock(c) PROVE AllTypes'
  BY <1>11 DEF con_unlock, Goto
<1>12. ASSUME NEW c \in CPUs, set_console(c) PROVE AllTypes'
  BY <1>12 DEF set_console, Goto
<1>13. ASSUME NEW c \in CPUs, suspend(c) PROVE AllTypes'
  BY <1>13 DEF suspend
<1>14. ASSUME NEW c \in CPUs, resume(c) PROVE AllTypes'
  BY <1>14 DEF resume, Goto
<1>15. ASSUME NEW c \in CPUs, console_write(c) PROVE AllTypes'
  <2>1. /\ inmem_write
        /\ UNCHANGED <<flags, con_driver, con_suspend, from, req, len, out, failed>>
        /\ con_lock' \in CPUs \cup {NoCpu}
        /\ con_need_flush' \in [CPUs -> BOOLEAN] /\ flush_to_drivers' \in [CPUs -> BOOLEAN]
    BY <1>15 DEF console_write
  <2>2. pc' \in [CPUs -> Where]
    BY <1>15 DEF console_write, Goto, Where
  <2> QED
    BY <2>1, <2>2, WriteTypes
<1>16. ASSUME NEW c \in CPUs, write_more(c) PROVE AllTypes'
  <2>1. /\ inmem_write
        /\ UNCHANGED <<flags, con_driver, con_suspend, from, req, len, out, failed>>
        /\ con_lock' \in CPUs \cup {NoCpu} /\ pc' \in [CPUs -> Where]
        /\ con_need_flush' \in [CPUs -> BOOLEAN] /\ flush_to_drivers' \in [CPUs -> BOOLEAN]
    BY <1>16 DEF write_more, Where
  <2> QED
    BY <2>1, WriteTypes
<1>17. ASSUME NEW c \in CPUs, nested_write(c) PROVE AllTypes'
  <2>1. /\ inmem_write
        /\ UNCHANGED <<flags, con_driver, con_suspend, from, req, len, out, failed>>
        /\ con_lock' \in CPUs \cup {NoCpu} /\ pc' \in [CPUs -> Where]
        /\ flush_to_drivers' \in [CPUs -> BOOLEAN]
    BY <1>17 DEF nested_write, Where
  <2>2. con_need_flush' \in [CPUs -> BOOLEAN]
    BY <1>17 DEF nested_write
  <2> QED
    BY <2>1, <2>2, WriteTypes
<1>18. CASE UNCHANGED vars
  BY <1>18 DEF vars, moving
<1> QED
  BY <1>1, <1>2, <1>3, <1>4, <1>5, <1>6, <1>7, <1>8, <1>9, <1>10, <1>11, <1>12,
     <1>13, <1>14, <1>15, <1>16, <1>17, <1>18
  DEF Next, Work

\* Every step keeps the lock and the flag exclusive.
LEMMA ExclusiveStep == FlushInv /\ [Next]_vars => Exclusive'
<1> SUFFICES ASSUME FlushInv, [Next]_vars PROVE Exclusive'
  OBVIOUS
<1> USE ConsoleAssumption DEF FlushInv, AllTypes, TypeOK, Exclusive, Locked, Flushing,
    ring, flags, percpu, locals, ghost
<1>1. ASSUME NEW c \in CPUs, flush_console(c) PROVE Exclusive'
  BY <1>1 DEF flush_console, Goto
<1>2. ASSUME NEW c \in CPUs, flush_none(c) PROVE Exclusive'
  BY <1>2 DEF flush_none, Goto
<1>3. ASSUME NEW c \in CPUs, flush_suspended(c) PROVE Exclusive'
  BY <1>3 DEF flush_suspended, Goto, Flushable
<1>4. ASSUME NEW c \in CPUs, flush_left(c) PROVE Exclusive'
  BY <1>4 DEF flush_left, Goto, Flushable
<1>5. ASSUME NEW c \in CPUs, flush_skip(c) PROVE Exclusive'
  BY <1>5 DEF flush_skip, Goto, Flushable
<1>6. ASSUME NEW c \in CPUs, flush_begin(c) PROVE Exclusive'
  BY <1>6 DEF flush_begin, Goto, Flushable
<1>7. ASSUME NEW c \in CPUs, flush_loop(c) PROVE Exclusive'
  BY <1>7 DEF flush_loop, Goto
<1>8. ASSUME NEW c \in CPUs, driver_call(c) PROVE Exclusive'
  BY <1>8 DEF driver_call, Goto
<1>9. ASSUME NEW c \in CPUs, driver_char(c) PROVE Exclusive'
  BY <1>9 DEF driver_char
<1>10. ASSUME NEW c \in CPUs, driver_return(c) PROVE Exclusive'
  BY <1>10 DEF driver_return, Goto
<1>11. ASSUME NEW c \in CPUs, con_unlock(c) PROVE Exclusive'
  BY <1>11 DEF con_unlock, Goto
<1>12. ASSUME NEW c \in CPUs, set_console(c) PROVE Exclusive'
  BY <1>12 DEF set_console, Goto
<1>13. ASSUME NEW c \in CPUs, suspend(c) PROVE Exclusive'
  BY <1>13 DEF suspend
<1>14. ASSUME NEW c \in CPUs, resume(c) PROVE Exclusive'
  BY <1>14 DEF resume, Goto
<1>15. ASSUME NEW c \in CPUs, console_write(c) PROVE Exclusive'
  BY <1>15 DEF console_write, Goto, inmem_write
<1>16. ASSUME NEW c \in CPUs, write_more(c) PROVE Exclusive'
  BY <1>16 DEF write_more, inmem_write
<1>17. ASSUME NEW c \in CPUs, nested_write(c) PROVE Exclusive'
  BY <1>17 DEF nested_write, inmem_write
<1>18. CASE UNCHANGED vars
  BY <1>18 DEF vars, moving
<1> QED
  BY <1>1, <1>2, <1>3, <1>4, <1>5, <1>6, <1>7, <1>8, <1>9, <1>10, <1>11, <1>12,
     <1>13, <1>14, <1>15, <1>16, <1>17, <1>18
  DEF Next, Work

\* in_flush is cleared by the CPU that set it.
LEMMA InFlushStep == FlushInv /\ [Next]_vars => InFlush'
<1> SUFFICES ASSUME FlushInv, [Next]_vars PROVE InFlush'
  OBVIOUS
<1> USE ConsoleAssumption DEF FlushInv, AllTypes, TypeOK, Exclusive, InFlush, Locked, Flushing,
    ring, flags, percpu, locals, ghost
<1>1. ASSUME NEW c \in CPUs, flush_console(c) PROVE InFlush'
  BY <1>1 DEF flush_console, Goto
<1>2. ASSUME NEW c \in CPUs, flush_none(c) PROVE InFlush'
  BY <1>2 DEF flush_none, Goto
<1>3. ASSUME NEW c \in CPUs, flush_suspended(c) PROVE InFlush'
  BY <1>3 DEF flush_suspended, Goto, Flushable
<1>4. ASSUME NEW c \in CPUs, flush_left(c) PROVE InFlush'
  BY <1>4 DEF flush_left, Goto, Flushable
<1>5. ASSUME NEW c \in CPUs, flush_skip(c) PROVE InFlush'
  BY <1>5 DEF flush_skip, Goto, Flushable
<1>6. ASSUME NEW c \in CPUs, flush_begin(c) PROVE InFlush'
  BY <1>6 DEF flush_begin, Goto, Flushable
<1>7. ASSUME NEW c \in CPUs, flush_loop(c) PROVE InFlush'
  BY <1>7 DEF flush_loop, Goto
<1>8. ASSUME NEW c \in CPUs, driver_call(c) PROVE InFlush'
  BY <1>8 DEF driver_call, Goto
<1>9. ASSUME NEW c \in CPUs, driver_char(c) PROVE InFlush'
  BY <1>9 DEF driver_char
<1>10. ASSUME NEW c \in CPUs, driver_return(c) PROVE InFlush'
  BY <1>10 DEF driver_return, Goto
<1>11. ASSUME NEW c \in CPUs, con_unlock(c) PROVE InFlush'
  BY <1>11 DEF con_unlock, Goto
<1>12. ASSUME NEW c \in CPUs, set_console(c) PROVE InFlush'
  BY <1>12 DEF set_console, Goto
<1>13. ASSUME NEW c \in CPUs, suspend(c) PROVE InFlush'
  BY <1>13 DEF suspend
<1>14. ASSUME NEW c \in CPUs, resume(c) PROVE InFlush'
  BY <1>14 DEF resume, Goto
<1>15. ASSUME NEW c \in CPUs, console_write(c) PROVE InFlush'
  BY <1>15 DEF console_write, Goto, inmem_write
<1>16. ASSUME NEW c \in CPUs, write_more(c) PROVE InFlush'
  BY <1>16 DEF write_more, inmem_write
<1>17. ASSUME NEW c \in CPUs, nested_write(c) PROVE InFlush'
  BY <1>17 DEF nested_write, inmem_write
<1>18. CASE UNCHANGED vars
  BY <1>18 DEF vars, moving
<1> QED
  BY <1>1, <1>2, <1>3, <1>4, <1>5, <1>6, <1>7, <1>8, <1>9, <1>10, <1>11, <1>12,
     <1>13, <1>14, <1>15, <1>16, <1>17, <1>18
  DEF Next, Work

\* The driver takes no more than it was given.
LEMMA WithinStep == FlushInv /\ [Next]_vars => Within'
<1> SUFFICES ASSUME FlushInv, [Next]_vars PROVE Within'
  OBVIOUS
<1> USE ConsoleAssumption DEF FlushInv, AllTypes, TypeOK, Within, Slots,
    ring, flags, percpu, locals, ghost
<1>1. ASSUME NEW c \in CPUs, flush_console(c) PROVE Within'
  BY <1>1 DEF flush_console, Goto
<1>2. ASSUME NEW c \in CPUs, flush_none(c) PROVE Within'
  BY <1>2 DEF flush_none, Goto
<1>3. ASSUME NEW c \in CPUs, flush_suspended(c) PROVE Within'
  BY <1>3 DEF flush_suspended, Goto, Flushable
<1>4. ASSUME NEW c \in CPUs, flush_left(c) PROVE Within'
  BY <1>4 DEF flush_left, Goto, Flushable
<1>5. ASSUME NEW c \in CPUs, flush_skip(c) PROVE Within'
  BY <1>5 DEF flush_skip, Goto, Flushable
<1>6. ASSUME NEW c \in CPUs, flush_begin(c) PROVE Within'
  BY <1>6 DEF flush_begin, Goto, Flushable
<1>7. ASSUME NEW c \in CPUs, flush_loop(c) PROVE Within'
  BY <1>7 DEF flush_loop, Goto
<1>8. ASSUME NEW c \in CPUs, driver_call(c) PROVE Within'
  BY <1>8 DEF driver_call, Goto
<1>9. ASSUME NEW c \in CPUs, driver_char(c) PROVE Within'
  <2>1. len'[c] = len[c] + 1 /\ len[c] < req[c] /\ len[c] \in Int /\ req[c] \in Int
    BY <1>9 DEF driver_char
  <2> QED
    BY <1>9, <2>1 DEF driver_char
<1>10. ASSUME NEW c \in CPUs, driver_return(c) PROVE Within'
  <2>1. pc' \in {[pc EXCEPT ![c] = "end"], [pc EXCEPT ![c] = "loop"]}
    BY <1>10 DEF driver_return, Goto
  <2>2. UNCHANGED <<len, req>>
    BY <1>10 DEF driver_return
  <2> QED
    BY <2>1, <2>2
<1>11. ASSUME NEW c \in CPUs, con_unlock(c) PROVE Within'
  BY <1>11 DEF con_unlock, Goto
<1>12. ASSUME NEW c \in CPUs, set_console(c) PROVE Within'
  BY <1>12 DEF set_console, Goto
<1>13. ASSUME NEW c \in CPUs, suspend(c) PROVE Within'
  BY <1>13 DEF suspend
<1>14. ASSUME NEW c \in CPUs, resume(c) PROVE Within'
  BY <1>14 DEF resume, Goto
<1>15. ASSUME NEW c \in CPUs, console_write(c) PROVE Within'
  BY <1>15 DEF console_write, Goto, inmem_write
<1>16. ASSUME NEW c \in CPUs, write_more(c) PROVE Within'
  BY <1>16 DEF write_more, inmem_write
<1>17. ASSUME NEW c \in CPUs, nested_write(c) PROVE Within'
  BY <1>17 DEF nested_write, inmem_write
<1>18. CASE UNCHANGED vars
  BY <1>18 DEF vars, moving
<1> QED
  BY <1>1, <1>2, <1>3, <1>4, <1>5, <1>6, <1>7, <1>8, <1>9, <1>10, <1>11, <1>12,
     <1>13, <1>14, <1>15, <1>16, <1>17, <1>18
  DEF Next, Work

\* A write leaves something in the ring, and nothing takes it out before the
\* writing CPU goes on.
LEMMA WrittenStep == FlushInv /\ [Next]_vars => Written'
<1> SUFFICES ASSUME FlushInv, [Next]_vars PROVE Written'
  OBVIOUS
<1> USE ConsoleAssumption DEF FlushInv, AllTypes, TypeOK, Exclusive, Written, Locked, Flushing,
    ring, flags, percpu, locals, ghost
<1>1. ASSUME NEW c \in CPUs, flush_console(c) PROVE Written'
  BY <1>1 DEF flush_console, Goto
<1>2. ASSUME NEW c \in CPUs, flush_none(c) PROVE Written'
  BY <1>2 DEF flush_none, Goto
<1>3. ASSUME NEW c \in CPUs, flush_suspended(c) PROVE Written'
  BY <1>3 DEF flush_suspended, Goto, Flushable
<1>4. ASSUME NEW c \in CPUs, flush_left(c) PROVE Written'
  BY <1>4 DEF flush_left, Goto, Flushable
<1>5. ASSUME NEW c \in CPUs, flush_skip(c) PROVE Written'
  BY <1>5 DEF flush_skip, Goto, Flushable
<1>6. ASSUME NEW c \in CPUs, flush_begin(c) PROVE Written'
  BY <1>6 DEF flush_begin, Goto, Flushable
<1>7. ASSUME NEW c \in CPUs, flush_loop(c) PROVE Written'
  BY <1>7 DEF flush_loop, Goto
<1>8. ASSUME NEW c \in CPUs, driver_call(c) PROVE Written'
  BY <1>8 DEF driver_call, Goto
<1>9. ASSUME NEW c \in CPUs, driver_char(c) PROVE Written'
  BY <1>9 DEF driver_char
<1>10. ASSUME NEW c \in CPUs, driver_return(c) PROVE Written'
  BY <1>10 DEF driver_return, Goto
<1>11. ASSUME NEW c \in CPUs, con_unlock(c) PROVE Written'
  BY <1>11 DEF con_unlock, Goto
<1>12. ASSUME NEW c \in CPUs, set_console(c) PROVE Written'
  BY <1>12 DEF set_console, Goto
<1>13. ASSUME NEW c \in CPUs, suspend(c) PROVE Written'
  BY <1>13 DEF suspend
<1>14. ASSUME NEW c \in CPUs, resume(c) PROVE Written'
  BY <1>14 DEF resume, Goto
<1>15. ASSUME NEW c \in CPUs, console_write(c) PROVE Written'
  BY <1>15, WriteFacts DEF console_write, write_more, Goto
<1>16. ASSUME NEW c \in CPUs, write_more(c) PROVE Written'
  BY <1>16, WriteFacts DEF console_write, write_more, Goto
<1>17. ASSUME NEW c \in CPUs, nested_write(c) PROVE Written'
  BY <1>17 DEF nested_write, inmem_write
<1>18. CASE UNCHANGED vars
  BY <1>18 DEF vars, moving
<1> QED
  BY <1>1, <1>2, <1>3, <1>4, <1>5, <1>6, <1>7, <1>8, <1>9, <1>10, <1>11, <1>12,
     <1>13, <1>14, <1>15, <1>16, <1>17, <1>18
  DEF Next, Work

\* A flush ends with the ring empty, or failed, or with a promise.
LEMMA CoveredStep == FlushInv /\ [Next]_vars => Covered'
<1> SUFFICES ASSUME FlushInv, [Next]_vars PROVE Covered'
  OBVIOUS
<1> USE ConsoleAssumption DEF FlushInv, AllTypes, TypeOK, Exclusive, Covered, InFlush, Within, LastTurn, Undecided, Promised, Locked, Flushing,
    ring, flags, percpu, locals, ghost
<1>1. ASSUME NEW c \in CPUs, flush_console(c) PROVE Covered'
  BY <1>1 DEF flush_console, Goto
<1>2. ASSUME NEW c \in CPUs, flush_none(c) PROVE Covered'
  BY <1>2 DEF flush_none, Goto
<1>3. ASSUME NEW c \in CPUs, flush_suspended(c) PROVE Covered'
  BY <1>3 DEF flush_suspended, Goto, Flushable
<1>4. ASSUME NEW c \in CPUs, flush_left(c) PROVE Covered'
  BY <1>4 DEF flush_left, Goto, Flushable
<1>5. ASSUME NEW c \in CPUs, flush_skip(c) PROVE Covered'
  BY <1>5 DEF flush_skip, Goto, Flushable
<1>6. ASSUME NEW c \in CPUs, flush_begin(c) PROVE Covered'
  BY <1>6 DEF flush_begin, Goto, Flushable
<1>7. ASSUME NEW c \in CPUs, flush_loop(c) PROVE Covered'
  BY <1>7 DEF flush_loop, Goto
<1>8. ASSUME NEW c \in CPUs, driver_call(c) PROVE Covered'
  BY <1>8 DEF driver_call, Goto
<1>9. ASSUME NEW c \in CPUs, driver_char(c) PROVE Covered'
  BY <1>9 DEF driver_char
<1>10. ASSUME NEW c \in CPUs, driver_return(c) PROVE Covered'
  <2>1. con_lock = NoCpu /\ pc[c] = "driver"
    BY <1>10 DEF driver_return
  <2>2. ~Undecided
    BY <2>1
  <2>3. /\ con_out' = (con_out + len[c]) % OutLen
        /\ UNCHANGED <<con_in, con_need_flush>>
    BY <1>10 DEF driver_return
  <2>4. CASE /\ len[c] < req[c] \/ ~more_flush
             /\ in_flush' = FALSE
             /\ failed' = (len[c] < req[c])
             /\ Goto(c, "end")
    <3>1. CASE len[c] < req[c]
      BY <2>4, <3>1
    <3>2. CASE len[c] = req[c] /\ ~more_flush
      <4>1. con_in' = con_out' \/ Promised
        BY <2>1, <2>2, <2>3, <3>2
      <4>2. Promised => Promised'
        BY <2>1, <2>3, <2>4 DEF Goto
      <4> QED
        BY <4>1, <4>2
    <3>3. len[c] < req[c] \/ (len[c] = req[c] /\ ~more_flush)
      BY <2>1, <2>4 DEF Slots
    <3> QED
      BY <3>1, <3>2, <3>3
  <2>5. CASE UNCHANGED in_flush
    BY <2>1, <2>5
  <2> QED
    BY <1>10, <2>4, <2>5 DEF driver_return
<1>11. ASSUME NEW c \in CPUs, con_unlock(c) PROVE Covered'
  BY <1>11 DEF con_unlock, Goto
<1>12. ASSUME NEW c \in CPUs, set_console(c) PROVE Covered'
  BY <1>12 DEF set_console, Goto
<1>13. ASSUME NEW c \in CPUs, suspend(c) PROVE Covered'
  BY <1>13 DEF suspend
<1>14. ASSUME NEW c \in CPUs, resume(c) PROVE Covered'
  BY <1>14 DEF resume, Goto
<1>15. ASSUME NEW c \in CPUs, console_write(c) PROVE Covered'
  BY <1>15 DEF console_write, Goto, inmem_write
<1>16. ASSUME NEW c \in CPUs, write_more(c) PROVE Covered'
  BY <1>16 DEF write_more, inmem_write
<1>17. ASSUME NEW c \in CPUs, nested_write(c) PROVE Covered'
  BY <1>17 DEF nested_write, inmem_write
<1>18. CASE UNCHANGED vars
  BY <1>18 DEF vars, moving
<1> QED
  BY <1>1, <1>2, <1>3, <1>4, <1>5, <1>6, <1>7, <1>8, <1>9, <1>10, <1>11, <1>12,
     <1>13, <1>14, <1>15, <1>16, <1>17, <1>18
  DEF Next, Work

\* Who writes during a flush tells the flushing CPU, or promises to flush.
LEMMA LastTurnStep == FlushInv /\ [Next]_vars => LastTurn'
<1> SUFFICES ASSUME FlushInv, [Next]_vars PROVE LastTurn'
  OBVIOUS
<1> USE ConsoleAssumption DEF FlushInv, AllTypes, TypeOK, Exclusive, LastTurn, InFlush, Written, Undecided, Promised, Locked, Flushing,
    ring, flags, percpu, locals, ghost
<1>1. ASSUME NEW c \in CPUs, flush_console(c) PROVE LastTurn'
  BY <1>1 DEF flush_console, Goto
<1>2. ASSUME NEW c \in CPUs, flush_none(c) PROVE LastTurn'
  BY <1>2 DEF flush_none, Goto
<1>3. ASSUME NEW c \in CPUs, flush_suspended(c) PROVE LastTurn'
  BY <1>3 DEF flush_suspended, Goto, Flushable
<1>4. ASSUME NEW c \in CPUs, flush_left(c) PROVE LastTurn'
  BY <1>4 DEF flush_left, Goto, Flushable
<1>5. ASSUME NEW c \in CPUs, flush_skip(c) PROVE LastTurn'
  BY <1>5 DEF flush_skip, Goto, Flushable
<1>6. ASSUME NEW c \in CPUs, flush_begin(c) PROVE LastTurn'
  BY <1>6 DEF flush_begin, Goto, Flushable
<1>7. ASSUME NEW c \in CPUs, flush_loop(c) PROVE LastTurn'
  <2>1. /\ pc[c] = "loop" /\ pc' = [pc EXCEPT ![c] = "unlocked"]
        /\ more_flush' = (con_out > con_in)
        /\ UNCHANGED <<con_in, con_out>>
    BY <1>7 DEF flush_loop, Goto
  <2>2. \A d \in CPUs : pc'[d] \in {"unlocked", "driver"} => d = c
    BY <2>1
  <2>3. CASE con_out > con_in
    BY <2>1, <2>3
  <2>4. CASE con_out <= con_in
    <3>1. req'[c] = con_in - con_out
      BY <1>7, <2>4 DEF flush_loop, Slots
    <3>2. con_in \in Nat /\ con_in < OutLen /\ con_out \in Nat
      BY DEF Slots
    <3>3. con_out + req'[c] = con_in
      BY <3>1, <3>2
    <3>4. con_in % OutLen = con_in
      BY <3>2, RingPlace DEF Around
    <3> QED
      BY <2>1, <2>2, <3>3, <3>4
  <2> QED
    BY <2>3, <2>4, SMTT(40) DEF Slots
<1>8. ASSUME NEW c \in CPUs, driver_call(c) PROVE LastTurn'
  BY <1>8 DEF driver_call, Goto
<1>9. ASSUME NEW c \in CPUs, driver_char(c) PROVE LastTurn'
  BY <1>9 DEF driver_char
<1>10. ASSUME NEW c \in CPUs, driver_return(c) PROVE LastTurn'
  <2>1. PICK w \in {"end", "loop"} : pc[c] = "driver" /\ pc' = [pc EXCEPT ![c] = w]
    BY <1>10 DEF driver_return, Goto
  <2>2. pc'[c] = w /\ \A d \in CPUs : d # c => pc'[d] = pc[d]
    BY <2>1
  <2>3. \A d \in CPUs : pc[d] \in {"unlocked", "driver"} => d = c
    BY <2>1
  <2>4. \A d \in CPUs : pc'[d] \notin {"unlocked", "driver"}
    BY <2>2, <2>3
  <2> QED
    BY <2>4
<1>11. ASSUME NEW c \in CPUs, con_unlock(c) PROVE LastTurn'
  <2>1. /\ pc[c] = "end" /\ pc' = [pc EXCEPT ![c] = "idle"]
        /\ \A d \in CPUs : d # c => req'[d] = req[d]
        /\ UNCHANGED <<con_in, con_out, more_flush, con_need_flush>>
    BY <1>11 DEF con_unlock, Goto
  <2>2. (Promised => Promised') /\ (Undecided => Undecided')
    BY <2>1
  <2> QED
    BY <2>1, <2>2
<1>12. ASSUME NEW c \in CPUs, set_console(c) PROVE LastTurn'
  BY <1>12 DEF set_console, Goto
<1>13. ASSUME NEW c \in CPUs, suspend(c) PROVE LastTurn'
  BY <1>13 DEF suspend
<1>14. ASSUME NEW c \in CPUs, resume(c) PROVE LastTurn'
  BY <1>14 DEF resume, Goto
<1>15. ASSUME NEW c \in CPUs, console_write(c) PROVE LastTurn'
  <2>1. con_in' # con_out' /\ pc'[c] = "write"
    BY <1>15, WriteFacts DEF console_write, write_more, Goto
  <2> QED
    BY <2>1
<1>16. ASSUME NEW c \in CPUs, write_more(c) PROVE LastTurn'
  <2>1. con_in' # con_out' /\ pc'[c] = "write"
    BY <1>16, WriteFacts DEF console_write, write_more, Goto
  <2> QED
    BY <2>1
<1>17. ASSUME NEW c \in CPUs, nested_write(c) PROVE LastTurn'
  <2>1. con_in' # con_out' /\ UNCHANGED <<pc, con_driver, in_flush>>
    BY <1>17, WriteFacts DEF nested_write
  <2>2. con_driver => con_need_flush'[c]
    BY <1>17, <2>1 DEF nested_write
  <2> QED
    BY <2>1, <2>2
<1>18. CASE UNCHANGED vars
  BY <1>18 DEF vars, moving
<1> QED
  BY <1>1, <1>2, <1>3, <1>4, <1>5, <1>6, <1>7, <1>8, <1>9, <1>10, <1>11, <1>12,
     <1>13, <1>14, <1>15, <1>16, <1>17, <1>18
  DEF Next, Work

\* Every step of a CPU keeps the invariant of NothingLeft.
LEMMA FlushStep == FlushInv /\ [Next]_vars => FlushInv'
BY TypeStep, ExclusiveStep, InFlushStep, WithinStep, WrittenStep, CoveredStep, LastTurnStep DEF FlushInv

\* The invariant holds in every state the console can reach.
THEOREM ConsoleFlushInvariant == Spec => []FlushInv
BY InitFlush, FlushStep, PTL DEF Spec

\* When nobody is flushing, output waits in the ring only before there is a
\* driver, after a failed write, or on behalf of a CPU that will flush:
\* more_flush and con_need_flush between them lose nothing.
THEOREM ConsoleNothingLeft == Spec => []NothingLeft
<1>1. FlushInv => NothingLeft
  <2> SUFFICES ASSUME FlushInv, con_lock = NoCpu, ~in_flush, con_in # con_out
               PROVE  ~con_driver \/ failed \/ Promised
    BY DEF NothingLeft, Promised
  <2>1. ~Undecided
    BY ConsoleAssumption DEF FlushInv, Exclusive, Undecided, Locked
  <2> QED
    BY <2>1 DEF FlushInv, Covered
<1> QED
  BY <1>1, ConsoleFlushInvariant, PTL

\* The head, the tail and the counts are numbers of the right size.
LEMMA UsedFacts ==
  ASSUME AllTypes
  PROVE  /\ con_in \in Slots /\ con_out \in Slots /\ Used \in Slots
         /\ con_in = Around(con_out + Used)
         /\ \A i \in 0..Used - 1 : Around(con_out + i) \in Slots \ {con_in}
         /\ chars \in 0..MaxChars /\ Passed \in Int
<1>1. con_in \in 0..OutLen - 1 /\ con_out \in 0..OutLen - 1 /\ chars \in 0..MaxChars
  BY DEF AllTypes, TypeOK, Slots
<1> QED
  BY <1>1, ConsoleAssumption DEF Used, Passed, Slots, Around

\* What waits in the ring is what was written last.
LEMMA WaitingExact ==
  ASSUME AllTypes, RingExact
  PROVE  Waiting = (Passed + 1)..chars
<1> USE UsedFacts, ConsoleAssumption
<1>1. (con_in - con_out) % OutLen = Used
  BY RingUsed
<1>2. \A i \in 0..Used - 1 : con_buf[(con_out + i) % OutLen] = (Passed + 1) + i
  <2> TAKE i \in 0..Used - 1
  <2>1. con_out + i \in Nat /\ con_out + i < OutLen + OutLen
    BY DEF Slots
  <2> QED
    BY <2>1, RingPlace DEF RingExact
<1>3. Waiting = {(Passed + 1) + i : i \in 0..Used - 1}
  BY <1>1, <1>2 DEF Waiting
<1>4. Used \in Nat /\ chars \in Nat /\ Passed = chars - Used
  BY DEF Passed, Slots
<1>5. ASSUME NEW x \in (Passed + 1)..chars
      PROVE  x - (Passed + 1) \in 0..Used - 1 /\ x = (Passed + 1) + (x - (Passed + 1))
  BY <1>4, <1>5
<1>6. \A i \in 0..Used - 1 : (Passed + 1) + i \in (Passed + 1)..chars
  BY <1>4
<1> QED
  BY <1>3, <1>5, <1>6

\* Nobody is in the loop of __flush_console while in_flush is clear.
LEMMA NobodyThere ==
  ASSUME FlushInv, ~in_flush
  PROVE  \A c \in CPUs : pc[c] \notin Flushing
BY DEF FlushInv, Exclusive

\* A step that moves no character and no CPU into or out of the driver.
LEMMA OrderKept ==
  ASSUME OrderInv, UNCHANGED <<ring, chars, out, lost, overrun>>,
         \A c \in CPUs : pc'[c] \in {"unlocked", "driver"} =>
             pc'[c] = pc[c] /\ from'[c] = from[c] /\ req'[c] = req[c] /\ len'[c] = len[c],
         \A c \in CPUs : pc[c] = "driver" => pc'[c] = "driver"
  PROVE  OrderInv'
<1> SUFFICES ASSUME ~overrun PROVE (RingExact /\ WriteExact /\ Delivered)'
  BY DEF OrderInv
<1>1. RingExact /\ WriteExact /\ Delivered
  BY DEF OrderInv
<1>2. UNCHANGED <<con_buf, con_in, con_out, Used, Passed, chars, out, lost>>
  BY DEF ring, Used, Passed
<1>3. RingExact'
  BY <1>1, <1>2 DEF RingExact, Around
<1>4. WriteExact'
  BY <1>1, <1>2 DEF WriteExact
<1>5. ASSUME NEW c \in CPUs, pc'[c] = "driver" PROVE OutExact(Passed + len[c])'
  <2>1. OutExact(Passed + len[c]) /\ len'[c] = len[c]
    BY <1>1, <1>5 DEF Delivered
  <2> QED
    BY <1>2, <2>1 DEF OutExact
<1>6. ASSUME \A c \in CPUs : pc'[c] # "driver" PROVE OutExact(Passed)'
  <2>1. OutExact(Passed)
    BY <1>1, <1>6 DEF Delivered
  <2> QED
    BY <1>2, <2>1 DEF OutExact
<1> QED
  BY <1>3, <1>4, <1>5, <1>6 DEF Delivered

\* flush_skip passes over what waits in the ring, and no flush is under way.
LEMMA OrderSkip ==
  ASSUME FlushInv, OrderInv, NEW c \in CPUs, flush_skip(c)
  PROVE  OrderInv'
<1> SUFFICES ASSUME ~overrun PROVE (RingExact /\ WriteExact /\ Delivered)'
  BY DEF OrderInv, flush_skip
<1> USE ConsoleAssumption
<1>1. /\ con_out' = con_in /\ UNCHANGED <<con_buf, con_in, chars, out>>
      /\ lost' = lost \cup Waiting /\ pc' = [pc EXCEPT ![c] = "end"] /\ ~in_flush
  BY DEF flush_skip, Goto
<1>2. AllTypes /\ RingExact /\ WriteExact /\ Delivered
  BY DEF OrderInv, FlushInv
<1>3. (\A d \in CPUs : pc[d] \notin Flushing) /\ pc \in [CPUs -> Where]
  BY <1>1, NobodyThere DEF FlushInv, AllTypes, TypeOK, Where
<1>4. \A d \in CPUs : pc'[d] \notin {"unlocked", "driver"} /\ pc[d] # "driver"
  BY <1>1, <1>3 DEF Flushing
<1>5. Used' = 0 /\ Passed' = chars /\ chars \in Nat /\ Used \in Nat /\ Used <= chars
      /\ Passed = chars - Used
  BY <1>1, <1>2, UsedFacts DEF Used, Passed, RingExact, Slots
<1>6. RingExact'
  BY <1>1, <1>5 DEF RingExact
<1>7. WriteExact'
  BY <1>4 DEF WriteExact
<1>8. OutExact(Passed)
  BY <1>2, <1>4 DEF Delivered
<1>9. Waiting = (Passed + 1)..chars
  BY <1>2, WaitingExact
<1>10. OutExact(Passed)'
  <2>1. out \in Seq(Nat)
    BY <1>2 DEF AllTypes
  <2>2. \A i \in 1..Len(out) : out[i] <= Passed
    BY <1>8 DEF OutExact
  <2>3. \A i \in 1..Len(out) : out[i] <= chars
    BY <2>1, <2>2, <1>5
  <2>4. ToSet(out) \cap ((Passed + 1)..chars) = {}
    BY <2>1, <2>2, <1>5 DEF ToSet
  <2>5. ToSet(out) \cap lost = {} /\ lost \subseteq 1..Passed /\ ToSet(out) \cup lost = 1..Passed
        /\ \A i \in 1..Len(out) - 1 : out[i] < out[i + 1]
    BY <1>8 DEF OutExact
  <2>6. 1..Passed \cup (Passed + 1)..chars = 1..chars
    BY <1>5
  <2>7. /\ ToSet(out) \cap lost' = {} /\ lost' \subseteq 1..chars
        /\ ToSet(out) \cup lost' = 1..chars
    BY <1>1, <1>9, <2>4, <2>5, <2>6
  <2> QED
    BY <1>1, <1>5, <2>3, <2>5, <2>7 DEF OutExact
<1> QED
  BY <1>4, <1>6, <1>7, <1>10 DEF Delivered

\* A turn of the loop asks for characters that wait.
LEMMA OrderLoop ==
  ASSUME FlushInv, OrderInv, NEW c \in CPUs, flush_loop(c)
  PROVE  OrderInv'
<1> SUFFICES ASSUME ~overrun PROVE (RingExact /\ WriteExact /\ Delivered)'
  BY DEF OrderInv, flush_loop, ghost
<1> USE ConsoleAssumption
<1>1. /\ UNCHANGED <<con_buf, con_in, con_out, chars, out, lost, from, len>>
      /\ pc[c] = "loop" /\ pc' = [pc EXCEPT ![c] = "unlocked"]
      /\ req' = [req EXCEPT ![c] = IF con_out > con_in THEN OutLen - con_out
                                                       ELSE con_in - con_out]
  BY DEF flush_loop, Goto, ring, ghost
<1>2. AllTypes /\ RingExact /\ WriteExact /\ Delivered
  BY DEF OrderInv, FlushInv
<1>3. /\ con_in \in Slots /\ con_out \in Slots
      /\ req \in [CPUs -> Slots] /\ pc \in [CPUs -> Where]
      /\ \A d \in CPUs : pc[d] \in {"unlocked", "driver"} => c = d
  BY <1>1, <1>2 DEF AllTypes, TypeOK, Where, FlushInv, Exclusive, Flushing
<1>4. UNCHANGED <<Used, Passed>>
  BY <1>1 DEF Used, Passed
<1>5. RingExact'
  BY <1>1, <1>2, <1>4 DEF RingExact, Around
<1>6. req'[c] <= Used /\ con_out + req'[c] <= OutLen
  BY <1>1, <1>3 DEF Used, Slots
<1>7. \A d \in CPUs : pc'[d] # "driver" /\ pc[d] # "driver"
  BY <1>1, <1>3
<1>8. WriteExact'
  BY <1>1, <1>3, <1>4, <1>6 DEF WriteExact
<1>9. OutExact(Passed)
  BY <1>2, <1>7 DEF Delivered
<1>10. OutExact(Passed)'
  BY <1>1, <1>4, <1>9 DEF OutExact
<1> QED
  BY <1>5, <1>7, <1>8, <1>10 DEF Delivered

\* The driver is called for the characters at con_out.
LEMMA OrderCall ==
  ASSUME FlushInv, OrderInv, NEW c \in CPUs, driver_call(c)
  PROVE  OrderInv'
<1> SUFFICES ASSUME ~overrun PROVE (RingExact /\ WriteExact /\ Delivered)'
  BY DEF OrderInv, driver_call, ghost
<1> USE ConsoleAssumption
<1>1. /\ UNCHANGED <<con_buf, con_in, con_out, chars, out, lost, req>>
      /\ pc[c] = "unlocked" /\ pc' = [pc EXCEPT ![c] = "driver"]
      /\ from' = [from EXCEPT ![c] = con_out] /\ len' = [len EXCEPT ![c] = 0]
  BY DEF driver_call, Goto, ring, ghost
<1>2. AllTypes /\ RingExact /\ WriteExact /\ Delivered
  BY DEF OrderInv, FlushInv
<1>3. /\ from \in [CPUs -> Slots] /\ len \in [CPUs -> Slots] /\ pc \in [CPUs -> Where]
      /\ \A d \in CPUs : pc[d] \in {"unlocked", "driver"} => c = d
  BY <1>1, <1>2 DEF AllTypes, TypeOK, Where, FlushInv, Exclusive, Flushing
<1>4. UNCHANGED <<Used, Passed>>
  BY <1>1 DEF Used, Passed
<1>5. RingExact'
  BY <1>1, <1>2, <1>4 DEF RingExact, Around
<1>6. WriteExact'
  BY <1>1, <1>2, <1>3, <1>4 DEF WriteExact
<1>7. \A d \in CPUs : pc'[d] = "driver" => d = c
  BY <1>1, <1>3
<1>8. \A d \in CPUs : pc[d] # "driver"
  BY <1>1, <1>3
<1>9. OutExact(Passed)
  BY <1>2, <1>8 DEF Delivered
<1>10. OutExact(Passed)'
  BY <1>1, <1>4, <1>9 DEF OutExact
<1>11. pc'[c] = "driver" /\ Passed' + len'[c] = Passed'
  BY <1>1, <1>2, <1>3, <1>4, UsedFacts
<1> QED
  BY <1>5, <1>6, <1>7, <1>10, <1>11 DEF Delivered

\* The driver takes the character after the one it took last.
LEMMA OrderChar ==
  ASSUME FlushInv, OrderInv, NEW c \in CPUs, driver_char(c)
  PROVE  OrderInv'
<1> SUFFICES ASSUME ~overrun PROVE (RingExact /\ WriteExact /\ Delivered)'
  BY DEF OrderInv, driver_char
<1> USE ConsoleAssumption
<1> DEFINE i == con_out + len[c]
           x == (Passed + 1) + len[c]
<1>1. /\ UNCHANGED <<con_buf, con_in, con_out, chars, lost, req, from, pc>>
      /\ pc[c] = "driver" /\ len[c] < req[c]
      /\ len' = [len EXCEPT ![c] = @ + 1]
  BY DEF driver_char, ring
<1>2. AllTypes /\ RingExact /\ WriteExact /\ Delivered
  BY DEF OrderInv, FlushInv
<1>3. /\ len \in [CPUs -> Slots] /\ req \in [CPUs -> Slots] /\ out \in Seq(Nat)
      /\ \A d \in CPUs : pc[d] = "driver" => c = d
  BY <1>1, <1>2 DEF AllTypes, TypeOK, FlushInv, Exclusive, Flushing
<1>4. from[c] = con_out /\ req[c] <= Used /\ con_out + req[c] <= OutLen
  BY <1>1, <1>2 DEF WriteExact
<1>5. /\ len[c] \in Nat /\ req[c] \in Nat /\ con_out \in Nat /\ Used \in Nat /\ chars \in Nat
      /\ Passed \in Int /\ Used <= chars /\ Passed = chars - Used
  BY <1>2, <1>3, UsedFacts DEF Slots, Passed, RingExact
<1>6. i \in Slots /\ Around(i) = i /\ len[c] \in 0..Used - 1
  BY <1>1, <1>4, <1>5 DEF Slots, Around
<1>7. con_buf[i] = x
  BY <1>2, <1>6 DEF RingExact
<1>8. out' = Append(out, x)
  BY <1>4, <1>6, <1>7 DEF driver_char
<1>9. x \in Nat /\ x = (Passed + len[c]) + 1 /\ x > Passed /\ Passed + len'[c] = x
      /\ Passed + len[c] \in Nat /\ Passed \in Nat
  <2>1. len'[c] = len[c] + 1
    BY <1>1, <1>3
  <2>2. Passed \in Nat
    BY <1>5
  <2> QED
    BY <1>5, <2>1, <2>2
<1>10. UNCHANGED <<Used, Passed>>
  BY <1>1 DEF Used, Passed
<1>11. RingExact'
  BY <1>1, <1>2, <1>10 DEF RingExact, Around
<1>12. WriteExact'
  BY <1>1, <1>2, <1>10 DEF WriteExact
<1>13. OutExact(Passed + len[c])
  BY <1>1, <1>2 DEF Delivered
<1> DEFINE g == Passed + len[c]
<1>14. g \in Nat /\ x = g + 1 /\ OutExact(g)
  BY <1>9, <1>13
<1>15. /\ \A k \in 1..Len(out) : out[k] <= g
       /\ \A k \in 1..Len(out) - 1 : out[k] < out[k + 1]
       /\ ToSet(out) \cap lost = {} /\ lost \subseteq 1..Passed
       /\ ToSet(out) \cup lost = 1..g
  BY <1>14 DEF OutExact
<1> HIDE DEF g, x, i
<1>16. /\ Len(out') = Len(out) + 1 /\ Len(out) \in Nat /\ out'[Len(out) + 1] = x
       /\ \A k \in 1..Len(out) : out'[k] = out[k] /\ out[k] \in Nat
  BY <1>3, <1>8, <1>9
<1>17. \A k \in 1..Len(out') : out'[k] <= x
  BY <1>14, <1>15, <1>16
<1>18. \A k \in 1..Len(out') - 1 : out'[k] < out'[k + 1]
  <2> TAKE k \in 1..Len(out') - 1
  <2>1. CASE k \in 1..Len(out) - 1
    BY <2>1, <1>15, <1>16
  <2>2. CASE k = Len(out)
    BY <2>2, <1>14, <1>15, <1>16
  <2> QED
    BY <2>1, <2>2, <1>16
<1>19. ToSet(out') = ToSet(out) \cup {x}
  <2>1. DOMAIN out' = 1..Len(out) + 1 /\ DOMAIN out = 1..Len(out)
    BY <1>3, <1>8, <1>9
  <2>2. 1..Len(out) + 1 = 1..Len(out) \cup {Len(out) + 1}
    BY <1>16
  <2> QED
    BY <1>16, <2>1, <2>2 DEF ToSet
<1>20. x \notin lost
  BY <1>9, <1>15
<1>21. ToSet(out') \cap lost' = {} /\ lost' \subseteq 1..Passed'
       /\ ToSet(out') \cup lost' = 1..x
  <2>1. 1..x = 1..g \cup {x}
    BY <1>14
  <2> QED
    BY <1>1, <1>10, <1>15, <1>19, <1>20, <2>1
<1>22. OutExact(Passed + len[c])'
  BY <1>9, <1>10, <1>17, <1>18, <1>21 DEF OutExact
<1> QED
  BY <1>1, <1>3, <1>11, <1>12, <1>22 DEF Delivered

\* The tail moves on by what the driver took.
LEMMA OrderReturn ==
  ASSUME FlushInv, OrderInv, NEW c \in CPUs, driver_return(c)
  PROVE  OrderInv'
<1> SUFFICES ASSUME ~overrun PROVE (RingExact /\ WriteExact /\ Delivered)'
  BY DEF OrderInv, driver_return
<1> USE ConsoleAssumption
<1>1. /\ UNCHANGED <<con_buf, con_in, chars, out, lost>>
      /\ con_out' = (con_out + len[c]) % OutLen
      /\ pc[c] = "driver"
      /\ pc' \in {[pc EXCEPT ![c] = "end"], [pc EXCEPT ![c] = "loop"]}
  BY DEF driver_return, Goto
<1>2. AllTypes /\ RingExact /\ WriteExact /\ Delivered /\ Within
  BY DEF OrderInv, FlushInv
<1>3. /\ len[c] \in Slots /\ req[c] \in Slots /\ con_in \in Slots /\ con_out \in Slots
      /\ chars \in Nat /\ pc \in [CPUs -> Where]
      /\ \A d \in CPUs : pc[d] \in {"unlocked", "driver"} => c = d
  BY <1>1, <1>2 DEF AllTypes, TypeOK, Where, FlushInv, Exclusive, Flushing
<1>4. \A d \in CPUs : pc'[d] \notin {"unlocked", "driver"}
  BY <1>1, <1>3
<1>5. req[c] <= Used /\ con_out + req[c] <= OutLen /\ len[c] <= req[c]
  BY <1>1, <1>2 DEF WriteExact, Within
<1>6. con_out' = Around(con_out + len[c])
  BY <1>1, <1>3, SlotSum, RingPlace
<1>7. /\ len[c] \in Nat /\ req[c] \in Nat /\ con_in \in Nat /\ con_out \in Nat
      /\ con_in < OutLen /\ con_out < OutLen
  BY <1>3 DEF Slots
<1>8. Used' = Used - len[c] /\ Used \in Nat
  BY <1>1, <1>5, <1>6, <1>7 DEF Used, Around
<1>9. Passed' = Passed + len[c] /\ Passed \in Nat /\ Used <= chars
  BY <1>1, <1>2, <1>3, <1>7, <1>8 DEF Passed, RingExact
<1>10. RingExact'
  <2>1. Used' <= chars'
    BY <1>1, <1>3, <1>7, <1>8, <1>9
  <2>2. ASSUME NEW i \in 0..Used' - 1
        PROVE  con_buf'[Around(con_out' + i)] = (Passed' + 1) + i
    <3>1. len[c] + i \in 0..Used - 1
      BY <1>7, <1>8
    <3>2. con_buf[Around(con_out + (len[c] + i))] = (Passed + 1) + (len[c] + i)
      BY <1>2, <3>1 DEF RingExact
    <3>3. con_out + (len[c] + i) < OutLen + OutLen
      BY <1>2, <1>7, <3>1, UsedFacts DEF Slots
    <3>4. Around(con_out' + i) = Around(con_out + (len[c] + i))
      BY <1>5, <1>6, <1>7, <3>3 DEF Around
    <3>5. (Passed + 1) + (len[c] + i) = (Passed' + 1) + i
      BY <1>7, <1>8, <1>9
    <3> QED
      BY <1>1, <3>2, <3>4, <3>5
  <2> QED
    BY <2>1, <2>2 DEF RingExact, Around
<1>11. WriteExact'
  BY <1>4 DEF WriteExact
<1>12. OutExact(Passed + len[c])
  BY <1>1, <1>2 DEF Delivered
<1>13. lost \subseteq 1..Passed'
  <2>1. lost \subseteq 1..Passed
    BY <1>12 DEF OutExact
  <2> QED
    BY <1>7, <1>9, <2>1
<1>14. OutExact(Passed)'
  BY <1>1, <1>9, <1>12, <1>13 DEF OutExact
<1> QED
  BY <1>4, <1>10, <1>11, <1>14 DEF Delivered

\* A character written joins the ones that wait; when the ring is full and no
\* flush is under way, it takes the place of the oldest one.
LEMMA OrderWrite ==
  ASSUME FlushInv, OrderInv, inmem_write, UNCHANGED <<from, req, len, out, in_flush>>,
         \A c \in CPUs : pc'[c] \in {"unlocked", "driver"} <=> pc[c] \in {"unlocked", "driver"},
         \A c \in CPUs : pc'[c] = "driver" <=> pc[c] = "driver"
  PROVE  OrderInv'
<1> SUFFICES ASSUME ~overrun' PROVE (RingExact /\ WriteExact /\ Delivered)'
  BY DEF OrderInv
<1> USE ConsoleAssumption
<1>0. overrun \in BOOLEAN /\ in_flush \in BOOLEAN /\ AllTypes
  BY DEF FlushInv, AllTypes, TypeOK
<1>1. ~overrun /\ RingExact /\ WriteExact /\ Delivered
  BY <1>0 DEF OrderInv, inmem_write
<1>2. /\ chars' = chars + 1 /\ chars \in Nat
      /\ con_in \in Nat /\ con_in < OutLen /\ con_out \in Nat /\ con_out < OutLen
      /\ con_in \in Slots /\ con_buf \in [Slots -> 0..MaxChars]
      /\ con_buf' = [con_buf EXCEPT ![con_in] = chars + 1]
  BY <1>0 DEF AllTypes, TypeOK, Slots, inmem_write
<1>3. con_in' = IF con_in + 1 < OutLen THEN con_in + 1 ELSE 0
  BY <1>2, RingNext DEF inmem_write
<1>4. /\ Used \in Nat /\ Used < OutLen /\ con_in = Around(con_out + Used)
      /\ \A i \in 0..Used - 1 : Around(con_out + i) \in Slots \ {con_in}
      /\ Used <= chars /\ Passed = chars - Used /\ Passed \in Nat
  BY <1>0, <1>1, <1>2, UsedFacts, SMTT(40) DEF Slots, Passed, RingExact
<1>5. con_buf'[con_in] = (Passed + 1) + Used
  BY <1>2, <1>4
<1>6. ASSUME NEW i \in 0..Used - 1
      PROVE  con_buf'[Around(con_out + i)] = (Passed + 1) + i
  BY <1>1, <1>2, <1>4 DEF RingExact
<1>7. CASE con_in' # con_out /\ UNCHANGED <<con_out, lost, overrun>>
  <2>1. Used' = Used + 1
    BY <1>2, <1>3, <1>7 DEF Used
  <2>2. Passed' = Passed
    BY <1>2, <1>4, <2>1 DEF Passed
  <2>3. RingExact'
    <3>1. Used' <= chars'
      BY <1>2, <1>4, <2>1
    <3>2. ASSUME NEW i \in 0..Used' - 1
          PROVE  con_buf'[Around(con_out' + i)] = (Passed' + 1) + i
      <4>1. i \in 0..Used - 1 \/ i = Used
        BY <1>4, <2>1
      <4> QED
        BY <1>4, <1>5, <1>6, <1>7, <2>2, <4>1
    <3> QED
      BY <3>1, <3>2 DEF RingExact, Around
  <2>4. WriteExact'
    <3>1. \A c \in CPUs : req[c] \in Int
      BY <1>0 DEF AllTypes, TypeOK, Slots
    <3>2. ASSUME NEW c \in CPUs, pc[c] \in {"unlocked", "driver"}
          PROVE  req'[c] <= Used' /\ con_out' + req'[c] <= OutLen
      BY <1>1, <1>4, <1>7, <2>1, <3>1, <3>2 DEF WriteExact
    <3> QED
      BY <1>1, <1>7, <3>2 DEF WriteExact
  <2>5. Delivered'
    <3>1. ASSUME NEW c \in CPUs, pc'[c] = "driver" PROVE OutExact(Passed + len[c])'
      <4>1. OutExact(Passed + len[c])
        BY <1>1, <3>1 DEF Delivered
      <4> QED
        BY <1>7, <2>2, <4>1 DEF OutExact
    <3>2. ASSUME \A c \in CPUs : pc'[c] # "driver" PROVE OutExact(Passed)'
      <4>1. OutExact(Passed)
        BY <1>1, <3>2 DEF Delivered
      <4> QED
        BY <1>7, <2>2, <4>1 DEF OutExact
    <3> QED
      BY <3>1, <3>2 DEF Delivered
  <2> QED
    BY <2>3, <2>4, <2>5
<1>8. CASE /\ con_in' = con_out
           /\ con_out' = (con_in' + 1) % OutLen
           /\ lost' = lost \cup {con_buf[con_out]}
           /\ overrun' = (overrun \/ in_flush)
  <2>1. \A c \in CPUs : pc'[c] \notin {"unlocked", "driver"} /\ pc[c] # "driver"
    <3>1. ~in_flush
      BY <1>8
    <3> QED
      BY <3>1, NobodyThere DEF Flushing
  <2>2. con_out' = IF con_out + 1 < OutLen THEN con_out + 1 ELSE 0
    <3>1. con_in' \in Slots
      BY <1>2, <1>8 DEF Slots
    <3> QED
      BY <1>8, <3>1, RingNext
  <2>3. Used = OutLen - 1 /\ Used' = OutLen - 1 /\ Around(con_out) = con_out
    BY <1>2, <1>3, <1>8, <2>2 DEF Used, Around
  <2>4. Passed' = Passed + 1
    BY <1>2, <1>4, <2>3 DEF Passed
  <2>5. RingExact'
    <3>1. Used' <= chars'
      BY <1>2, <1>4, <2>3
    <3>2. ASSUME NEW i \in 0..Used' - 1
          PROVE  con_buf'[Around(con_out' + i)] = (Passed' + 1) + i
      <4>1. (i + 1 \in 0..Used - 1 \/ i + 1 = Used) /\ i \in Nat
        BY <1>4, <2>3
      <4>2. Around(con_out' + i) = Around(con_out + (i + 1))
        BY <1>2, <2>2, <2>3, <4>1 DEF Around
      <4>3. con_buf'[Around(con_out + (i + 1))] = (Passed + 1) + (i + 1)
        BY <1>4, <1>5, <1>6, <4>1
      <4> QED
        BY <1>4, <2>4, <4>1, <4>2, <4>3
    <3> QED
      BY <3>1, <3>2 DEF RingExact, Around
  <2>6. WriteExact'
    BY <2>1 DEF WriteExact
  <2>7. OutExact(Passed)
    BY <1>1, <2>1 DEF Delivered
  <2>8. con_buf[con_out] = Passed + 1
    <3>1. 0 \in 0..Used - 1 /\ con_out + 0 = con_out
      BY <1>2, <2>3
    <3>2. con_buf[Around(con_out + 0)] = (Passed + 1) + 0
      BY <1>1, <3>1 DEF RingExact
    <3> QED
      BY <1>4, <2>3, <3>1, <3>2
  <2>9. OutExact(Passed)'
    <3>1. out \in Seq(Nat)
      BY <1>0 DEF AllTypes
    <3>2. /\ \A i \in 1..Len(out) : out[i] <= Passed
          /\ \A i \in 1..Len(out) - 1 : out[i] < out[i + 1]
          /\ ToSet(out) \cap lost = {} /\ lost \subseteq 1..Passed
          /\ ToSet(out) \cup lost = 1..Passed
      BY <2>7 DEF OutExact
    <3>3. (\A i \in 1..Len(out) : out[i] <= Passed + 1) /\ Passed + 1 \notin ToSet(out)
      BY <1>4, <3>1, <3>2, SMTT(40) DEF ToSet
    <3>4. 1..Passed + 1 = 1..Passed \cup {Passed + 1}
      BY <1>4
    <3>5. /\ ToSet(out) \cap lost' = {} /\ lost' \subseteq 1..Passed + 1
          /\ ToSet(out) \cup lost' = 1..Passed + 1
      BY <1>8, <2>8, <3>2, <3>3, <3>4
    <3> QED
      BY <2>4, <3>2, <3>3, <3>5 DEF OutExact
  <2> QED
    BY <2>1, <2>5, <2>6, <2>9 DEF Delivered
<1> QED
  BY <1>7, <1>8 DEF inmem_write

\* Before console_init() nothing is written and nothing delivered.
LEMMA InitOrder == Init => OrderInv
<1> SUFFICES ASSUME Init PROVE RingExact /\ WriteExact /\ Delivered
  BY DEF OrderInv
<1>1. Used = 0 /\ Passed = 0 /\ chars = 0
  BY DEF Init, Used, Passed
<1>2. RingExact
  BY <1>1 DEF RingExact
<1>3. WriteExact
  BY DEF Init, WriteExact
<1>4. OutExact(0)
  <2>1. Len(out) = 0 /\ ToSet(out) = {} /\ lost = {}
    BY DEF Init, ToSet
  <2> QED
    BY <1>1, <2>1 DEF OutExact
<1>5. Delivered
  BY <1>1, <1>4 DEF Init, Delivered
<1> QED
  BY <1>2, <1>3, <1>5

\* Every step keeps the order of the output, until the ring overflows during
\* a flush.
LEMMA OrderStep == FlushInv /\ OrderInv /\ [Next]_vars => OrderInv'
<1> SUFFICES ASSUME FlushInv, OrderInv, [Next]_vars PROVE OrderInv'
  OBVIOUS
<1> USE DEF ring, ghost, locals
<1>0. pc \in [CPUs -> Where]
  BY DEF FlushInv, AllTypes, TypeOK, Where
<1>1. ASSUME NEW c \in CPUs, flush_console(c) PROVE OrderInv'
  BY <1>0, <1>1, OrderKept DEF flush_console, Goto
<1>2. ASSUME NEW c \in CPUs, flush_none(c) PROVE OrderInv'
  BY <1>0, <1>2, OrderKept DEF flush_none, Goto
<1>3. ASSUME NEW c \in CPUs, flush_suspended(c) PROVE OrderInv'
  BY <1>0, <1>3, OrderKept DEF flush_suspended, Flushable, Goto
<1>4. ASSUME NEW c \in CPUs, flush_left(c) PROVE OrderInv'
  BY <1>0, <1>4, OrderKept DEF flush_left, Flushable, Goto
<1>5. ASSUME NEW c \in CPUs, flush_skip(c) PROVE OrderInv'
  BY <1>5, OrderSkip
<1>6. ASSUME NEW c \in CPUs, flush_begin(c) PROVE OrderInv'
  BY <1>0, <1>6, OrderKept DEF flush_begin, Flushable, Goto
<1>7. ASSUME NEW c \in CPUs, flush_loop(c) PROVE OrderInv'
  BY <1>7, OrderLoop
<1>8. ASSUME NEW c \in CPUs, driver_call(c) PROVE OrderInv'
  BY <1>8, OrderCall
<1>9. ASSUME NEW c \in CPUs, driver_char(c) PROVE OrderInv'
  BY <1>9, OrderChar
<1>10. ASSUME NEW c \in CPUs, driver_return(c) PROVE OrderInv'
  BY <1>10, OrderReturn
<1>11. ASSUME NEW c \in CPUs, con_unlock(c) PROVE OrderInv'
  <2>1. /\ UNCHANGED <<ring, chars, out, lost, overrun>>
        /\ pc[c] = "end" /\ pc' = [pc EXCEPT ![c] = "idle"]
    BY <1>11 DEF con_unlock, Goto
  <2>2. \A d \in CPUs : d # c => from'[d] = from[d] /\ req'[d] = req[d] /\ len'[d] = len[d]
    BY <1>11 DEF con_unlock, FlushInv, AllTypes, TypeOK
  <2> QED
    BY <1>0, <2>1, <2>2, OrderKept
<1>12. ASSUME NEW c \in CPUs, set_console(c) PROVE OrderInv'
  BY <1>0, <1>12, OrderKept DEF set_console, Goto
<1>13. ASSUME NEW c \in CPUs, suspend(c) PROVE OrderInv'
  BY <1>13, OrderKept DEF suspend
<1>14. ASSUME NEW c \in CPUs, resume(c) PROVE OrderInv'
  BY <1>0, <1>14, OrderKept DEF resume, Goto
<1>15. ASSUME NEW c \in CPUs, console_write(c) PROVE OrderInv'
  BY <1>0, <1>15, OrderWrite DEF console_write, Goto, flags
<1>16. ASSUME NEW c \in CPUs, write_more(c) PROVE OrderInv'
  BY <1>16, OrderWrite DEF write_more, flags
<1>17. ASSUME NEW c \in CPUs, nested_write(c) PROVE OrderInv'
  BY <1>17, OrderWrite DEF nested_write, flags
<1>18. CASE UNCHANGED vars
  BY <1>18, OrderKept DEF vars, moving
<1> QED
  BY <1>1, <1>2, <1>3, <1>4, <1>5, <1>6, <1>7, <1>8, <1>9, <1>10, <1>11, <1>12, <1>13,
     <1>14, <1>15, <1>16, <1>17, <1>18 DEF Next, Work

\* What a flush has given to the driver and not counted is the first that
\* waits.
LEMMA UncountedExact ==
  ASSUME FlushInv, RingExact, WriteExact, NEW c \in CPUs, pc[c] = "driver"
  PROVE  /\ Uncounted = (Passed + 1)..(Passed + len[c])
         /\ len[c] \in Nat /\ len[c] <= Used
<1> USE ConsoleAssumption
<1>1. AllTypes /\ Within /\ {d \in CPUs : pc[d] = "driver"} = {c}
  BY DEF FlushInv, Exclusive, Flushing
<1>2. /\ len[c] \in Slots /\ req[c] \in Slots /\ from[c] = con_out
      /\ con_out \in Slots /\ Used \in Slots /\ Passed \in Int
  BY <1>1, UsedFacts DEF AllTypes, TypeOK, WriteExact
<1>3. len[c] <= req[c] /\ req[c] <= Used
  BY <1>1 DEF WriteExact, Within
<1>4. len[c] \in Nat /\ Used \in Nat /\ len[c] <= Used
  BY <1>2, <1>3 DEF Slots
<1>5. \A i \in 0..len[c] - 1 : con_buf[(from[c] + i) % OutLen] = (Passed + 1) + i
  <2> TAKE i \in 0..len[c] - 1
  <2>1. con_out + i \in Nat /\ con_out + i < OutLen + OutLen /\ i \in 0..Used - 1
    BY <1>2, <1>4 DEF Slots
  <2> QED
    BY <1>2, <2>1, RingPlace DEF RingExact
<1>6. Uncounted = {con_buf[(from[c] + i) % OutLen] : i \in 0..len[c] - 1}
  BY <1>1 DEF Uncounted
<1>7. Uncounted = {(Passed + 1) + i : i \in 0..len[c] - 1}
  BY <1>5, <1>6
<1>8. ASSUME NEW x \in (Passed + 1)..(Passed + len[c])
      PROVE  x - (Passed + 1) \in 0..len[c] - 1 /\ x = (Passed + 1) + (x - (Passed + 1))
  BY <1>2, <1>4, <1>8
<1>9. \A i \in 0..len[c] - 1 : (Passed + 1) + i \in (Passed + 1)..(Passed + len[c])
  BY <1>2, <1>4
<1> QED
  BY <1>4, <1>7, <1>8, <1>9

\* Both invariants together.
THEOREM ConsoleOrderInvariant == Spec => [](FlushInv /\ OrderInv)
<1>1. Init => FlushInv /\ OrderInv
  BY InitFlush, InitOrder
<1>2. FlushInv /\ OrderInv /\ [Next]_vars => FlushInv' /\ OrderInv'
  BY FlushStep, OrderStep
<1> QED
  BY <1>1, <1>2, PTL DEF Spec

\* Unless the ring overflows during a flush, the driver gets the characters in
\* order, none twice, and every character written is with the driver, waiting
\* or passed over: the lock dropped around the driver's write does no harm.
THEOREM ConsoleOutInOrder == Spec => []OutInOrder
<1>1. FlushInv /\ OrderInv => OutInOrder
  <2> SUFFICES ASSUME FlushInv, OrderInv PROVE OutInOrder
    OBVIOUS
  <2>1. AllTypes /\ TypeOK
    BY DEF FlushInv, AllTypes
  <2> SUFFICES ASSUME ~overrun
               PROVE  /\ \A i \in 1..Len(out) - 1 : out[i] < out[i + 1]
                      /\ ToSet(out) \cap lost = {}
                      /\ ToSet(out) \cap Waiting = Uncounted
                      /\ ToSet(out) \cup lost \cup Waiting = 1..chars
    BY <2>1 DEF OutInOrder
  <2>2. RingExact /\ WriteExact /\ Delivered
    BY DEF OrderInv
  <2>3. Waiting = (Passed + 1)..chars
    BY <2>1, <2>2, WaitingExact
  <2>4. PICK g \in Nat : /\ OutExact(g) /\ Uncounted = (Passed + 1)..g
                         /\ Passed <= g /\ g <= chars
    <3>1. Passed \in Nat /\ Used \in Nat /\ Used <= chars /\ chars \in Nat
          /\ Passed = chars - Used
      BY <2>1, <2>2, UsedFacts DEF RingExact, Passed, Slots
    <3>2. CASE \E c \in CPUs : pc[c] = "driver"
      <4>1. PICK c \in CPUs : pc[c] = "driver"
        BY <3>2
      <4>2. OutExact(Passed + len[c])
        BY <2>2, <4>1 DEF Delivered
      <4>3. /\ Uncounted = (Passed + 1)..(Passed + len[c])
            /\ len[c] \in Nat /\ len[c] <= Used
        BY <2>2, <4>1, UncountedExact
      <4>4. Passed + len[c] \in Nat /\ Passed <= Passed + len[c] /\ Passed + len[c] <= chars
        BY <3>1, <4>3
      <4> QED
        BY <4>2, <4>3, <4>4
    <3>3. CASE \A c \in CPUs : pc[c] # "driver"
      <4>1. OutExact(Passed)
        BY <2>2, <3>3 DEF Delivered
      <4>2. Uncounted = {}
        BY <3>3 DEF Uncounted
      <4>3. (Passed + 1)..Passed = {}
        BY <3>1
      <4> QED
        BY <3>1, <4>1, <4>2, <4>3
    <3> QED
      BY <3>2, <3>3
  <2>5. Passed \in Nat /\ chars \in Nat
    BY <2>1, <2>2, UsedFacts DEF RingExact, Passed, Slots
  <2>6. /\ \A i \in 1..Len(out) - 1 : out[i] < out[i + 1]
        /\ ToSet(out) \cap lost = {} /\ lost \subseteq 1..Passed
        /\ ToSet(out) \cup lost = 1..g
    BY <2>4 DEF OutExact
  <2>7. ToSet(out) \cap ((Passed + 1)..chars) = (Passed + 1)..g
    <3>1. ToSet(out) \subseteq 1..g
      BY <2>6
    <3>2. (Passed + 1)..g \subseteq ToSet(out)
      <4> SUFFICES ASSUME NEW x \in (Passed + 1)..g PROVE x \in ToSet(out)
        OBVIOUS
      <4>1. x \in 1..g /\ x \notin 1..Passed
        BY <2>4, <2>5
      <4> QED
        BY <2>6, <4>1
    <3>3. 1..g \cap (Passed + 1)..chars = (Passed + 1)..g
      BY <2>4, <2>5
    <3> QED
      BY <3>1, <3>2, <3>3
  <2>8. 1..g \cup (Passed + 1)..chars = 1..chars
    BY <2>4, <2>5
  <2> QED
    BY <2>3, <2>4, <2>6, <2>7, <2>8
<1> QED
  BY <1>1, ConsoleOrderInvariant, PTL
=============================================================================
