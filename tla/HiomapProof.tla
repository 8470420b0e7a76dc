---------------------------- MODULE HiomapProof -----------------------------
(***************************************************************************)
(* Proofs about Hiomap: for any block size, size of the flash, set of      *)
(* operations and number of faults of the BMC.                             *)
(***************************************************************************)
EXTENDS Hiomap, TLAPS

Operations == {"read", "write", "erase"}
Recovery == {"events", "ack", "get_info", "get_flash_info"}
Chunked == {"access", "mark_dirty", "erase", "flush"}
Events == SUBSET (ACK_MASK \cup {"DAEMON_READY", "FLASH_LOST"})

\* The types of all the variables; a window of the BMC is within the flash.
AllTypes ==
  /\ bmc_state \in Events /\ window_state \in {"closed", "read", "write"}
  /\ current \in [cur_pos : Nat, size : Nat] /\ registered \in BOOLEAN
  /\ pc \in Commands \cup {"idle", "return", "events", "restore", "move", "access", "gone"}
  /\ op \in Operations \cup {"init", "info", "exit", "none"}
  /\ pos \in Nat /\ len \in Nat /\ size \in Nat /\ at \in Nat
  /\ status \in SUBSET ACK_MASK /\ cmd \in {"none", "sent", "good", "bad"}
  /\ reply \in Nat \X Nat /\ ok \in BOOLEAN
  /\ ready \in BOOLEAN /\ lost \in BOOLEAN /\ negotiated \in BOOLEAN /\ faults \in Nat
  /\ win \in [kind : {"closed", "read", "write"}, first : Nat, blocks : Nat,
              written : SUBSET Int, dirty : SUBSET Bytes]
  /\ win.first + win.blocks <= FlashBlocks
  /\ sel \in Seq(Events)
  /\ want \subseteq Bytes /\ done \subseteq Bytes /\ late \in BOOLEAN

\* Where each operation may be, and what it has got through so far: an
\* operation under way has not failed; a recovery has events to put back; the
\* window is closed while a new one is asked for and of the right kind after.
Flow ==
  /\ cmd = "sent" => pc \in Commands
  /\ pc = "restore" => ~ok
  /\ pc \in Recovery => op \in Operations \cup {"init", "info"}
  /\ pc = "events" => op # "init"
  /\ pc \in {"ack", "get_info", "get_flash_info"} /\ op \in Operations => status # {}
  /\ pc \in {"move", "create"} \cup Chunked => op \in Operations
  /\ pc = "access" => op \in {"read", "write"}
  /\ pc = "mark_dirty" => op = "write"
  /\ pc = "erase" => op = "erase"
  /\ pc = "flush" => op \in {"write", "erase"}
  /\ pc = "create" => window_state = "closed" /\ at = 0
  /\ pc \in Chunked => window_state = Kind
  /\ pc = "reset" => op = "exit"
  /\ op \in {"init", "info", "exit"} => window_state = "closed"
  /\ ~registered => op = "init" /\ pc \in {"ack", "gone"} /\ status = {}

\* What is left of the operation is within the flash.
Left ==
  op \in Operations /\ pc \in Recovery \cup {"move", "create"} \cup Chunked =>
    ok /\ len > 0 /\ pos + len - 1 \in Bytes

\* The chunk is within what is left and within the window the host has.
Chunk ==
  pc \in Chunked =>
    /\ 0 < size /\ size <= len /\ at <= size
    /\ current.cur_pos <= pos /\ pos + size <= current.cur_pos + current.size

\* An answer to a request for a window has the first byte asked for in it.
ReplyOK ==
  pc = "create" /\ cmd = "good" =>
    /\ blocks_to_bytes(reply[1]) <= pos /\ pos < blocks_to_bytes(reply[1]) + blocks_to_bytes(reply[2])
    /\ win.kind # "closed" => win.kind = Kind /\ win.first = reply[1] /\ win.blocks = reply[2]

\* A window that both sides have open is the same one.
SameWindow ==
  window_state # "closed" /\ win.kind # "closed" =>
    /\ win.kind = window_state
    /\ current = Window(blocks_to_bytes(win.first), blocks_to_bytes(win.blocks))

\* A reset that the host has not handled yet.
Pending ==
  \/ bmc_state \cap ACK_MASK # {}
  \/ \E i \in 1..Len(sel) : sel[i] \cap ACK_MASK # {}

\* A window that the BMC alone has closed has its reset pending.
ClosedIsPending ==
  /\ window_state # "closed" /\ win.kind = "closed" => Pending
  /\ pc = "create" /\ cmd = "good" /\ win.kind = "closed" => Pending

\* The bytes of the chunk accessed: read from the flash, unless a reset is
\* pending; written to the window, told to the BMC, and brought to the flash.
Accessed ==
  /\ pc = "access" /\ op = "read" => pos .. pos + at - 1 \subseteq done \/ Pending
  /\ pc = "access" /\ op = "write" /\ win.kind = "write" => pos .. pos + at - 1 \subseteq win.written
  /\ pc \in {"mark_dirty", "flush"} /\ win.kind = "write" => pos .. pos + size - 1 \subseteq win.written
  /\ /\ \/ pc \in {"mark_dirty", "erase"} /\ cmd = "good"
        \/ pc = "flush" /\ cmd \in {"none", "sent"}
     /\ win.kind = "write"
     => pos .. pos + size - 1 \subseteq win.dirty
  /\ pc = "erase" /\ cmd = "good" /\ win.kind = "write" => pos .. pos + size - 1 \subseteq win.written
  /\ pc = "flush" /\ cmd = "good" => pos .. pos + size - 1 \subseteq done

\* What of the operation is behind pos has got through.
Progress ==
  op \in Operations /\ ok /\ ~(op = "read" /\ late) =>
    /\ pc \in Recovery \cup {"move", "create"} \cup Chunked => want \ (pos .. pos + len - 1) \subseteq done
    /\ pc = "return" => want \subseteq done

HiomapInv ==
  /\ AllTypes /\ Flow /\ Left /\ Chunk /\ ReplyOK /\ SameWindow /\ ClosedIsPending
  /\ Accessed /\ Progress

-----------------------------------------------------------------------------
(* Blocks and bytes. *)

\* Division with remainder.
LEMMA DivMod ==
  ASSUME NEW a \in Nat, NEW b \in Nat \ {0}
  PROVE  /\ a \div b \in Nat /\ a % b \in 0 .. b - 1
         /\ a = (a \div b) * b + (a % b)
  BY SMT

\* A product of natural numbers grows with its factors.
LEMMA TimesMono ==
  ASSUME NEW a \in Nat, NEW b \in Nat, NEW n \in Nat, a <= b
  PROVE  a * n <= b * n /\ a * n \in Nat /\ b * n \in Nat
<1>1. PICK k \in Nat : b = a + k
  <2>1. b - a \in Nat /\ b = a + (b - a)
    OBVIOUS
  <2> QED
    BY <2>1
<1>2. b * n = a * n + k * n
  BY <1>1
<1>3. k * n \in Nat /\ a * n \in Nat
  OBVIOUS
<1> QED
  BY <1>2, <1>3

\* bytes_to_blocks of a byte of the flash is a block of the flash, and the byte
\* is in that block.
LEMMA BlockOfByte ==
  ASSUME NEW p \in Bytes
  PROVE  /\ bytes_to_blocks(p) \in 0 .. FlashBlocks - 1
         /\ blocks_to_bytes(bytes_to_blocks(p)) <= p
         /\ p < blocks_to_bytes(bytes_to_blocks(p) + 1)
<1> DEFINE q == p \div BlockSize
<1> USE HiomapAssumption
<1>1. FlashBlocks * BlockSize \in Nat
  BY TimesMono
<1>2. p \in Nat /\ p < FlashBlocks * BlockSize
  BY <1>1 DEF Bytes
<1>3. q \in Nat /\ q * BlockSize <= p /\ p < q * BlockSize + BlockSize
  <2>1. q \in Nat /\ p % BlockSize \in 0 .. BlockSize - 1 /\ p = q * BlockSize + (p % BlockSize)
    BY <1>2, DivMod
  <2>2. q * BlockSize \in Nat
    BY <2>1, TimesMono
  <2> HIDE DEF q
  <2> QED
    BY <2>1, <2>2
<1> HIDE DEF q
<1>4. (q + 1) * BlockSize = q * BlockSize + BlockSize
  BY <1>3
<1>5. q < FlashBlocks
  <2> SUFFICES ASSUME FlashBlocks <= q PROVE FALSE
    BY <1>3
  <2>1. FlashBlocks * BlockSize <= q * BlockSize
    BY <1>3, TimesMono
  <2> QED
    BY <1>1, <1>2, <1>3, <2>1, TimesMono
<1> QED
  BY <1>3, <1>4, <1>5 DEF bytes_to_blocks, blocks_to_bytes, q

\* The blocks a command names cover the bytes of its range: the arithmetic of
\* bytes_to_blocks and bytes_to_blocks_align_up, o bytes into the window.
LEMMA BlocksCover ==
  ASSUME NEW f \in Nat, NEW o \in Nat, NEW s \in Nat
  PROVE  LET b == f + bytes_to_blocks(o)
             n == bytes_to_blocks_align_up(o, s)
         IN  /\ bytes_to_blocks(o) \in Nat /\ n \in Nat
             /\ (blocks_to_bytes(f) + o) .. (blocks_to_bytes(f) + o + s - 1) \subseteq Range(b, n)
<1> DEFINE q == o \div BlockSize
           r == o % BlockSize
           m == s + r + BlockSize - 1
           n == m \div BlockSize
<1> USE HiomapAssumption
<1>1. q \in Nat /\ r \in 0 .. BlockSize - 1 /\ o = q * BlockSize + r
  BY DivMod
<1> HIDE DEF q, r
<1>2. m \in Nat
  BY <1>1
<1>3. n \in Nat /\ m % BlockSize \in 0 .. BlockSize - 1 /\ m = n * BlockSize + (m % BlockSize)
  BY <1>2, DivMod
<1>4. q * BlockSize \in Nat /\ n * BlockSize \in Nat /\ f * BlockSize \in Nat
  BY <1>1, <1>3, TimesMono
<1>5. s + r <= n * BlockSize
  BY <1>1, <1>3, <1>4
<1> HIDE DEF n, m
<1>6. (f + q) * BlockSize = f * BlockSize + q * BlockSize
  BY <1>1
<1>7. (f + q + n) * BlockSize = f * BlockSize + q * BlockSize + n * BlockSize
  BY <1>1, <1>3
<1>8. ASSUME NEW x \in (f * BlockSize + o) .. (f * BlockSize + o + s - 1)
      PROVE  x \in (f + q) * BlockSize .. (f + q + n) * BlockSize - 1
  BY <1>1, <1>4, <1>5, <1>6, <1>7, <1>8
<1> QED
  BY <1>1, <1>3, <1>8 DEF bytes_to_blocks, bytes_to_blocks_align_up, blocks_to_bytes, Range, q, r, m, n

-----------------------------------------------------------------------------
(* What the BMC does with a command. *)

\* A window of the flash that has the byte at pos in it.
Opens(first, n) ==
  /\ pc = "create"
  /\ first \in Nat /\ n \in Nat /\ first + n <= FlashBlocks
  /\ blocks_to_bytes(first) <= pos /\ pos < blocks_to_bytes(first) + blocks_to_bytes(n)
  /\ reply' = <<first, n>>
  /\ win' = [kind |-> Kind, first |-> first, blocks |-> n, written |-> {}, dirty |-> {}]
  /\ UNCHANGED done

\* mark_dirty and erase name a range of the flash that has the chunk in it.
Marks(range) ==
  /\ pc \in {"mark_dirty", "erase"} /\ win.kind = "write"
  /\ range \subseteq Bytes /\ pos .. pos + size - 1 \subseteq range
  /\ win' = [win EXCEPT !.dirty = @ \cup range,
                        !.written = IF pc = "erase" THEN @ \cup range ELSE @]
  /\ UNCHANGED <<done, reply>>

Flushes ==
  /\ pc = "flush" /\ win.kind = "write"
  /\ done' = done \cup (win.written \cap win.dirty)
  /\ win' = [win EXCEPT !.dirty = {}]
  /\ UNCHANGED reply

Closes == pc = "reset" /\ win' = Closed /\ UNCHANGED <<done, reply>>

\* The others, and a command that is refused or does not get there.
Passes ==
  /\ cmd' = "good" => pc \in {"ack", "get_info", "get_flash_info"}
  /\ UNCHANGED <<win, done, reply>>

Served ==
  /\ cmd = "sent" /\ cmd' \in {"good", "bad"} /\ negotiated' \in BOOLEAN /\ faults' \in Nat
  /\ UNCHANGED <<ctx, pc, op, pos, len, size, status, at, ok, ready, lost, sel, want, late>>
  /\ \/ \E first, n \in Nat : Opens(first, n)
     \/ \E range \in SUBSET Bytes : Marks(range)
     \/ Flushes \/ Closes \/ Passes

\* n blocks from block b on end where they end in bytes.
LEMMA BlocksAdd ==
  ASSUME NEW b \in Nat, NEW n \in Nat
  PROVE  /\ blocks_to_bytes(b) \in Nat /\ blocks_to_bytes(n) \in Nat
         /\ blocks_to_bytes(b + n) = blocks_to_bytes(b) + blocks_to_bytes(n)
         /\ b + n <= FlashBlocks => /\ Range(b, n) \subseteq Bytes
                                    /\ blocks_to_bytes(b + n) <= FlashBlocks * BlockSize
<1> USE HiomapAssumption
<1>1. b * BlockSize \in Nat /\ n * BlockSize \in Nat /\ (b + n) * BlockSize = b * BlockSize + n * BlockSize
  BY TimesMono
<1>2. FlashBlocks * BlockSize \in Nat
  BY TimesMono
<1>3. b + n <= FlashBlocks => (b + n) * BlockSize <= FlashBlocks * BlockSize
  BY TimesMono
<1> QED
  BY <1>1, <1>2, <1>3 DEF blocks_to_bytes, Range, Bytes

\* Every command the BMC gets has one of these effects.
LEMMA EffectServed ==
  ASSUME HiomapInv, Serves(pc), Fits, Effect, pc \in Commands
  PROVE  \/ \E first, n \in Nat : Opens(first, n)
         \/ \E range \in SUBSET Bytes : Marks(range)
         \/ Flushes \/ Closes
         \/ pc \in {"ack", "get_info", "get_flash_info"} /\ UNCHANGED <<win, done, reply>>
<1> USE HiomapAssumption DEF HiomapInv
<1>1. CASE pc = "create"
  <2>1. PICK first \in 0..bytes_to_blocks(pos), last \in bytes_to_blocks(pos)..FlashBlocks - 1 :
          /\ reply' = <<first, last - first + 1>>
          /\ win' = [Closed EXCEPT !.kind = Kind, !.first = first, !.blocks = reply'[2]]
    BY <1>1 DEF Effect
  <2>2. pos \in Bytes
    BY <1>1 DEF Left, Flow, Chunked, Operations, Bytes, AllTypes
  <2>3. /\ bytes_to_blocks(pos) \in 0 .. FlashBlocks - 1
        /\ blocks_to_bytes(bytes_to_blocks(pos)) <= pos
        /\ pos < blocks_to_bytes(bytes_to_blocks(pos) + 1)
    BY <2>2, BlockOfByte
  <2> DEFINE n == last - first + 1
  <2>4. first \in Nat /\ last \in Nat /\ n \in Nat /\ first + n = last + 1 /\ first + n <= FlashBlocks
    BY <2>3
  <2>5. blocks_to_bytes(first) <= blocks_to_bytes(bytes_to_blocks(pos))
    BY <2>3, <2>4, TimesMono DEF blocks_to_bytes
  <2>6. blocks_to_bytes(bytes_to_blocks(pos) + 1) <= blocks_to_bytes(first + n)
    BY <2>3, <2>4, TimesMono DEF blocks_to_bytes
  <2>7. /\ blocks_to_bytes(first) \in Nat /\ blocks_to_bytes(n) \in Nat
        /\ blocks_to_bytes(first + n) = blocks_to_bytes(first) + blocks_to_bytes(n)
    BY <2>4, BlocksAdd
  <2>8. blocks_to_bytes(bytes_to_blocks(pos)) \in Nat /\ blocks_to_bytes(bytes_to_blocks(pos) + 1) \in Nat
    BY <2>3, BlocksAdd
  <2>9. blocks_to_bytes(first) <= pos /\ pos < blocks_to_bytes(first) + blocks_to_bytes(n)
    <3>1. pos \in Nat
      BY DEF AllTypes
    <3> QED
      BY <2>3, <2>5, <2>6, <2>7, <2>8, <3>1
  <2>10. win' = [kind |-> Kind, first |-> first, blocks |-> n, written |-> {}, dirty |-> {}]
    BY <2>1 DEF Closed
  <2>11. done' = done
    BY <1>1 DEF Effect
  <2>12. Opens(first, n)
    BY <1>1, <2>1, <2>4, <2>9, <2>10, <2>11 DEF Opens
  <2> QED
    BY <2>4, <2>12
<1>2. CASE pc \in {"mark_dirty", "erase"}
  <2> DEFINE range == Range(win.first + First, Count)
  <2>1. win.kind = "write" /\ window_state = "write"
    BY <1>2 DEF Serves, Flow, Kind, Chunked
  <2>2. blocks_to_bytes(win.first) = current.cur_pos /\ pos - current.cur_pos \in Nat /\ size \in Nat
    BY <1>2, <2>1 DEF SameWindow, Window, Chunk, Chunked, AllTypes
  <2>3. win.first \in Nat /\ win.blocks \in Nat /\ win.first + win.blocks <= FlashBlocks
    BY DEF AllTypes
  <2>4. /\ First \in Nat /\ Count \in Nat
        /\ (blocks_to_bytes(win.first) + (pos - current.cur_pos)) ..
             (blocks_to_bytes(win.first) + (pos - current.cur_pos) + size - 1) \subseteq range
    BY <2>2, <2>3, BlocksCover DEF First, Count
  <2>5. pos .. pos + size - 1 \subseteq range
    <3>1. pos \in Nat /\ current.cur_pos \in Nat
      BY DEF AllTypes
    <3>2. blocks_to_bytes(win.first) + (pos - current.cur_pos) = pos
      BY <2>2, <3>1
    <3> HIDE DEF range
    <3> QED
      BY <2>4, <3>2
  <2>6. First + Count <= win.blocks
    BY <1>2 DEF Fits
  <2>7. range \subseteq Bytes
    <3>1. win.first + First \in Nat /\ win.first + First + Count <= FlashBlocks
      BY <2>3, <2>4, <2>6
    <3> QED
      BY <2>4, <3>1, BlocksAdd
  <2>8. win' = [win EXCEPT !.dirty = @ \cup range,
                           !.written = IF pc = "erase" THEN @ \cup range ELSE @]
    <3>1. CASE pc = "mark_dirty"
      BY <3>1 DEF Effect, Told, AllTypes
    <3>2. CASE pc = "erase"
      BY <3>2 DEF Effect, Told, AllTypes
    <3> QED
      BY <1>2, <3>1, <3>2
  <2>9. UNCHANGED <<done, reply>>
    BY <1>2 DEF Effect
  <2>10. Marks(range)
    BY <1>2, <2>1, <2>5, <2>7, <2>8, <2>9 DEF Marks
  <2> QED
    BY <2>7, <2>10
<1>3. CASE pc = "flush"
  BY <1>3 DEF Effect, Serves, Flushes
<1>4. CASE pc = "reset"
  BY <1>4 DEF Effect, Closes
<1>5. CASE pc \in {"ack", "get_info", "get_flash_info"}
  BY <1>5 DEF Effect
<1> QED
  BY <1>1, <1>2, <1>3, <1>4, <1>5 DEF Commands

\* A command that is answered, refused or lost has one of these effects or none.
LEMMA ServeServed == HiomapInv /\ (bmc_serve \/ bmc_lose) => Served
<1> SUFFICES ASSUME HiomapInv, bmc_serve \/ bmc_lose PROVE Served
  OBVIOUS
<1>1. pc \in Commands
  BY DEF bmc_serve, bmc_lose, HiomapInv, Flow
<1>2. /\ cmd = "sent" /\ cmd' \in {"good", "bad"} /\ faults' \in Nat
      /\ UNCHANGED <<ctx, pc, op, pos, len, size, status, at, ok, ready, lost, sel, want, late>>
  BY SMTT(40) DEF bmc_serve, bmc_lose, Fault, HiomapInv, AllTypes
<1>3. negotiated' \in BOOLEAN
  BY DEF bmc_serve, bmc_lose, Effect, HiomapInv, AllTypes
<1>4. CASE Serves(pc) /\ Fits /\ Effect
  BY <1>1, <1>2, <1>3, <1>4, EffectServed DEF Served, Passes
<1>5. CASE cmd' = "bad" /\ UNCHANGED <<win, done, reply>>
  BY <1>2, <1>3, <1>5 DEF Served, Passes
<1> QED
  BY <1>4, <1>5 DEF bmc_serve, bmc_lose

\* The BMC closes its window only with the event that says so.
Notified(news) ==
  /\ sel' = Append(sel, news)
  /\ \/ win' = Closed /\ news \cap ACK_MASK # {}
     \/ win' = win
  /\ ready' \in BOOLEAN /\ lost' \in BOOLEAN /\ negotiated' \in BOOLEAN /\ faults' \in Nat
  /\ UNCHANGED <<ctx, pc, locals, ghost>>

BmcActs == bmc_window_reset \/ bmc_stop \/ bmc_start \/ bmc_suspend \/ bmc_resume

LEMMA BmcNotifies == HiomapInv /\ BmcActs => \E news \in Events : Notified(news)
<1> SUFFICES ASSUME HiomapInv, BmcActs PROVE \E news \in Events : Notified(news)
  OBVIOUS
<1> USE DEF HiomapInv, AllTypes, Fault
<1>1. ASSUME NEW what \in SUBSET ACK_MASK, Say(what)
      PROVE  \E news \in Events : sel' = Append(sel, news) /\ what \subseteq news
  <2> DEFINE news == what \cup (IF ready' THEN {"DAEMON_READY"} ELSE {})
                          \cup (IF lost' THEN {"FLASH_LOST"} ELSE {})
  <2>1. news \in Events /\ what \subseteq news
    BY DEF Events
  <2>2. sel' = Append(sel, news)
    BY <1>1 DEF Say
  <2> QED
    BY <2>1, <2>2
<1>2. CASE bmc_window_reset
  <2>1. PICK news \in Events : sel' = Append(sel, news) /\ "WINDOW_RESET" \in news
    BY <1>1, <1>2 DEF bmc_window_reset, ACK_MASK
  <2> QED
    BY <1>2, <2>1 DEF bmc_window_reset, Notified, ACK_MASK
<1>3. CASE bmc_stop
  <2>1. PICK news \in Events : sel' = Append(sel, news) /\ "PROTOCOL_RESET" \in news
    BY <1>1, <1>3 DEF bmc_stop, ACK_MASK
  <2>2. ready' \in BOOLEAN /\ lost' \in BOOLEAN /\ negotiated' \in BOOLEAN
    BY <1>3 DEF bmc_stop
  <2> QED
    BY <1>3, <2>1, <2>2 DEF bmc_stop, Notified, ACK_MASK
<1>4. CASE bmc_start
  <2>1. PICK news \in Events : sel' = Append(sel, news)
    BY <1>1, <1>4 DEF bmc_start
  <2> QED
    BY <1>4, <2>1 DEF bmc_start, Notified
<1>5. CASE bmc_suspend
  <2>1. PICK news \in Events : sel' = Append(sel, news)
    BY <1>1, <1>5 DEF bmc_suspend
  <2> QED
    BY <1>5, <2>1 DEF bmc_suspend, Notified
<1>6. CASE bmc_resume
  <2>1. CASE Say({}) /\ UNCHANGED win
    <3>1. PICK news \in Events : sel' = Append(sel, news)
      BY <1>1, <2>1
    <3> QED
      BY <1>6, <2>1, <3>1 DEF bmc_resume, Notified
  <2>2. CASE Say({"WINDOW_RESET"}) /\ win' = Closed
    <3>1. PICK news \in Events : sel' = Append(sel, news) /\ "WINDOW_RESET" \in news
      BY <1>1, <2>2 DEF ACK_MASK
    <3> QED
      BY <1>6, <2>2, <3>1 DEF bmc_resume, Notified, ACK_MASK
  <2> QED
    BY <1>6, <2>1, <2>2 DEF bmc_resume
<1> QED
  BY <1>2, <1>3, <1>4, <1>5, <1>6 DEF BmcActs

\* A pending reset stays pending until ipmi_hiomap_handle_events takes it, also
\* while its event goes from the BMC to hiomap_event.
LEMMA PendingStays ==
  ASSUME HiomapInv, Pending,
         \/ UNCHANGED <<bmc_state, sel>>
         \/ hiomap_event /\ registered
         \/ bmc_state' = bmc_state /\ \E news \in Events : sel' = Append(sel, news)
  PROVE  Pending'
<1> USE DEF HiomapInv, AllTypes
<1>1. CASE UNCHANGED <<bmc_state, sel>>
  BY <1>1 DEF Pending
<1>2. CASE hiomap_event /\ registered
  <2>1. CASE bmc_state \cap ACK_MASK # {}
    BY <1>2, <2>1 DEF hiomap_event, Pending
  <2>2. ASSUME NEW i \in 1..Len(sel), sel[i] \cap ACK_MASK # {} PROVE Pending'
    <3>1. CASE i = 1
      BY <1>2, <2>2, <3>1 DEF hiomap_event, Pending
    <3>2. CASE i # 1
      <4>1. i - 1 \in 1..Len(sel') /\ sel'[i - 1] = sel[i]
        BY <1>2, <2>2, <3>2 DEF hiomap_event
      <4> QED
        BY <2>2, <4>1 DEF Pending
    <3> QED
      BY <3>1, <3>2
  <2> QED
    BY <2>1, <2>2 DEF Pending
<1>3. ASSUME NEW news \in Events, bmc_state' = bmc_state, sel' = Append(sel, news)
      PROVE Pending'
  <2>1. Len(sel') = Len(sel) + 1 /\ \A i \in 1..Len(sel) : sel'[i] = sel[i]
    BY <1>3
  <2> QED
    BY <1>3, <2>1 DEF Pending
<1> QED
  BY <1>1, <1>2, <1>3

\* The event of a reset is pending once it is sent.
LEMMA PendingStarts ==
  ASSUME HiomapInv, NEW news \in Events, news \cap ACK_MASK # {}, sel' = Append(sel, news)
  PROVE  Pending'
<1>1. Len(sel') = Len(sel) + 1 /\ sel'[Len(sel) + 1] = news /\ Len(sel) \in Nat
  BY DEF HiomapInv, AllTypes
<1> QED
  BY <1>1 DEF Pending

\* A failure gives up the command and goes one of three ways.
LEMMA FailFacts ==
  Fail => /\ pc' \in {"restore", "gone", "return"}
          /\ ok' = FALSE /\ ok' \in BOOLEAN
          /\ status = {} /\ op = "init" => pc' = "gone"
          /\ cmd' = "none" /\ reply' = <<0, 0>> /\ reply' \in Nat \X Nat
<1> SUFFICES ASSUME Fail
             PROVE  /\ pc' \in {"restore", "gone", "return"}
                    /\ ok' = FALSE /\ ok' \in BOOLEAN
                    /\ status = {} /\ op = "init" => pc' = "gone"
                    /\ cmd' = "none" /\ reply' = <<0, 0>> /\ reply' \in Nat \X Nat
  OBVIOUS
<1>1. pc' \in {"restore", "gone", "return"} /\ (status = {} /\ op = "init" => pc' = "gone")
  BY DEF Fail, Goto
<1>2. ok' = FALSE /\ cmd' = "none" /\ reply' = <<0, 0>>
  BY DEF Fail, Goto
<1>3. ok' \in BOOLEAN /\ reply' \in Nat \X Nat
  BY <1>2
<1> QED
  BY <1>1, <1>2, <1>3

\* After the events comes the operation.
LEMMA BeginFacts ==
  ASSUME HiomapInv, op \in Operations \cup {"info"}
  PROVE  /\ op = "info" => Begin = "get_flash_info"
         /\ op \in Operations => Begin = "move"
BY DEF Begin, Operations

\* Bytes are numbers.
LEMMA BytesNat == FlashBlocks * BlockSize \in Nat /\ Bytes \subseteq Nat
<1>1. FlashBlocks * BlockSize \in Nat
  BY HiomapAssumption, TimesMono
<1> QED
  BY <1>1 DEF Bytes

\* While the BMC has the window open, the byte the host accesses is the one it
\* means to.
LEMMA ByteAt ==
  ASSUME HiomapInv, pc = "access", at < size, win.kind # "closed"
  PROVE  Byte = pos + at /\ Byte \in Bytes
<1> USE HiomapAssumption DEF HiomapInv, Chunked
<1>1. /\ pos \in Nat /\ at \in Nat /\ size \in Nat /\ current.cur_pos \in Nat
      /\ win.first \in Nat /\ win.blocks \in Nat /\ win.first + win.blocks <= FlashBlocks
  BY DEF AllTypes
<1>2. /\ blocks_to_bytes(win.first) = current.cur_pos
      /\ blocks_to_bytes(win.blocks) = current.size
  BY DEF SameWindow, Window, Flow, Kind
<1>3. pos + size <= current.cur_pos + current.size
  BY DEF Chunk
<1>4. Byte = pos + at
  BY <1>1, <1>2 DEF Byte, blocks_to_bytes
<1>5. /\ blocks_to_bytes(win.first) \in Nat /\ blocks_to_bytes(win.blocks) \in Nat
      /\ blocks_to_bytes(win.first) + blocks_to_bytes(win.blocks) <= FlashBlocks * BlockSize
  BY <1>1, BlocksAdd
<1>6. FlashBlocks * BlockSize \in Nat
  BY TimesMono
<1>7. pos + at \in Nat /\ pos + at < FlashBlocks * BlockSize
  BY <1>1, <1>2, <1>3, <1>5, <1>6
<1> QED
  BY <1>4, <1>6, <1>7 DEF Bytes

\* The new window has the first byte of what is left in it, so that the next
\* chunk is not empty.
LEMMA CreatedChunk ==
  ASSUME HiomapInv, Created
  PROVE  /\ current' \in [cur_pos : Nat, size : Nat]
         /\ current'.cur_pos = blocks_to_bytes(reply[1]) /\ current'.size = blocks_to_bytes(reply[2])
         /\ size' \in Nat /\ 0 < size' /\ size' <= len
         /\ current'.cur_pos <= pos /\ pos + size' <= current'.cur_pos + current'.size
         /\ ok' = ok /\ pc' = (IF op = "erase" THEN "erase" ELSE "access")
         /\ cmd' = "none" /\ reply' = <<0, 0>> /\ window_state' = Kind
         /\ UNCHANGED <<bmc_state, registered, op, pos, len, status, at, bmc, ghost>>
<1> USE HiomapAssumption DEF HiomapInv
<1> DEFINE p == blocks_to_bytes(reply[1])
           l == blocks_to_bytes(reply[2])
<1>1. pc = "create" /\ cmd = "good"
  BY DEF Created, Answered
<1>2. pos \in Nat /\ len \in Nat /\ reply[1] \in Nat /\ reply[2] \in Nat
  BY DEF AllTypes
<1>3. p \in Nat /\ l \in Nat
  BY <1>2, BlocksAdd
<1>4. p <= pos /\ pos < p + l
  BY <1>1 DEF ReplyOK
<1>5. len > 0
  BY <1>1 DEF Left, Flow
<1>6. current' = [cur_pos |-> p, size |-> l]
  BY DEF Created, Window
<1>7. size' = IF pos + len > p + l THEN (p + l) - pos ELSE len
  <2>1. current'.cur_pos = p /\ current'.size = l
    BY <1>6
  <2>2. size' = IF pos + len > current'.cur_pos + current'.size
               THEN (current'.cur_pos + current'.size) - pos ELSE len
    BY DEF Created
  <2> HIDE DEF p, l
  <2> QED
    BY <2>1, <2>2
<1> HIDE DEF p, l
<1>8. /\ size' \in Nat /\ 0 < size' /\ size' <= len
      /\ p <= pos /\ pos + size' <= p + l
  BY <1>2, <1>3, <1>4, <1>5, <1>7
<1>9. Goto(IF op = "erase" THEN "erase" ELSE "access") /\ ok' = ok
  BY <1>8 DEF Created
<1>10. current' \in [cur_pos : Nat, size : Nat] /\ current'.cur_pos = p /\ current'.size = l
  BY <1>3, <1>6
<1> QED
  BY <1>8, <1>9, <1>10 DEF Created, Goto, p, l

-----------------------------------------------------------------------------
\* Every step keeps the types: what the host and the BMC access is in the flash.
LEMMA TypesStep == HiomapInv /\ [Next]_vars => AllTypes'
<1> SUFFICES ASSUME HiomapInv, [Next]_vars PROVE AllTypes'
  OBVIOUS
<1> USE HiomapAssumption DEF HiomapInv, AllTypes, Operations, ACK_MASK, Commands, Kind, Events,
    ctx, locals, bmc, ghost
<1>1. CASE Return
  BY <1>1 DEF Return, Goto
<1>2. CASE Probe
  BY <1>2 DEF Probe, Goto
<1>3. CASE ipmi_hiomap_exit
  BY <1>3 DEF ipmi_hiomap_exit, Goto
<1>4. CASE handle_events
  <2>1. op \in Operations \cup {"info"}
    BY <1>4 DEF handle_events, Flow, Recovery
  <2> QED
    BY <1>4, <2>1, BeginFacts DEF handle_events, Goto
<1>5. CASE restore
  BY <1>5 DEF restore, Goto
<1>6. CASE queue_msg_sync
  <2>1. CASE Fail
    BY <1>6, <2>1, FailFacts DEF queue_msg_sync
  <2>2. CASE cmd' = "sent" /\ UNCHANGED <<pc, reply, ok>>
    BY <1>6, <2>2 DEF queue_msg_sync
  <2> QED
    BY <1>6, <2>1, <2>2 DEF queue_msg_sync
<1>7. CASE Failed
  BY <1>7, FailFacts DEF Failed
<1>8. CASE Acked
  <2>1. op # "init" => op \in Operations \cup {"info"}
    BY <1>8 DEF Acked, Answered, Flow, Recovery
  <2> QED
    <3>1. registered' \in BOOLEAN
      BY <1>8 DEF Acked
    <3>2. CASE op = "init" \/ "PROTOCOL_RESET" \in status
      <4>1. pc' = "get_info" /\ cmd' = "none" /\ reply' = <<0, 0>> /\ UNCHANGED status
        BY <1>8, <3>2 DEF Acked, Goto
      <4>2. UNCHANGED <<bmc_state, window_state, current, op, pos, len, size, at, ok, bmc, ghost>>
        BY <1>8 DEF Acked
      <4> QED
        BY <3>1, <4>1, <4>2
    <3>3. CASE ~(op = "init" \/ "PROTOCOL_RESET" \in status)
      BY <1>8, <2>1, <3>1, <3>3, BeginFacts DEF Acked, Goto
    <3> QED
      BY <3>2, <3>3
<1>9. CASE GotInfo
  BY <1>9 DEF GotInfo, Answered, Goto
<1>10. CASE GotFlashInfo
  <2>1. op # "init" => op \in Operations \cup {"info"}
    BY <1>10 DEF GotFlashInfo, Answered, Flow, Recovery
  <2> QED
    BY <1>10, <2>1, BeginFacts DEF GotFlashInfo, Goto
<1>11. CASE window_move
  BY <1>11, SMTT(40) DEF window_move, Goto, WindowValid
<1>12. CASE Created
  <2>1. pc' \in {"erase", "access"} /\ window_state' \in {"read", "write"}
    BY <1>12, CreatedChunk
  <2>2. UNCHANGED <<bmc_state, registered, op, pos, len, status, at, bmc, ghost, ok>>
    BY <1>12, CreatedChunk
  <2>3. current' \in [cur_pos : Nat, size : Nat] /\ size' \in Nat /\ cmd' = "none" /\ reply' = <<0, 0>>
    BY <1>12, CreatedChunk
  <2> QED
    BY <2>1, <2>2, <2>3
<1>13. CASE Dirtied
  BY <1>13 DEF Dirtied, Answered, Goto
<1>14. CASE Flushed
  <2>1. size <= len
    BY <1>14 DEF Flushed, Answered, Chunk, Chunked
  <2> QED
    BY <1>14, <2>1 DEF Flushed, Advance, Goto
<1>15. CASE Freed
  BY <1>15 DEF Freed, Goto
<1>16. CASE lpc_window_read
  <2>1. CASE InBounds
    BY <1>16, <2>1, ByteAt DEF lpc_window_read, Accessing
  <2>2. CASE ~InBounds
    BY <1>16, <2>2, FailFacts DEF lpc_window_read
  <2> QED
    BY <2>1, <2>2
<1>17. CASE lpc_window_write
  <2>1. CASE window_state = "write" /\ InBounds
    <3>1. CASE win.kind = "write"
      <4>1. Byte \in Int
        BY <1>17, <3>1, ByteAt, BytesNat, SMTT(40) DEF lpc_window_write, Accessing
      <4>2. win' = [win EXCEPT !.written = @ \cup {Byte}]
        BY <1>17, <2>1, <3>1 DEF lpc_window_write
      <4>3. /\ win' \in [kind : {"closed", "read", "write"}, first : Nat, blocks : Nat,
                         written : SUBSET Int, dirty : SUBSET Bytes]
            /\ win'.first = win.first /\ win'.blocks = win.blocks
        BY <4>1, <4>2
      <4>4. at' \in Nat
        BY <1>17, <2>1, SMTT(40) DEF lpc_window_write
      <4>5. UNCHANGED <<ctx, pc, op, pos, len, size, status, cmd, reply, ok, ready, lost, negotiated,
                       sel, faults, ghost>>
        BY <1>17, <2>1 DEF lpc_window_write
      <4> QED
        BY <4>3, <4>4, <4>5
    <3>2. CASE win.kind # "write"
      BY <1>17, <2>1, <3>2, SMTT(40) DEF lpc_window_write
    <3> QED
      BY <3>1, <3>2
  <2>2. CASE ~(window_state = "write" /\ InBounds)
    BY <1>17, <2>2, FailFacts, SMTT(40) DEF lpc_window_write
  <2> QED
    BY <2>1, <2>2
<1>18. CASE trust
  <2>1. size <= len
    BY <1>18 DEF trust, Chunk, Chunked
  <2>2. CASE WindowValid(pos, size) /\ Advance /\ late' = (late \/ sel # << >>) /\ UNCHANGED ok
    BY <1>18, <2>1, <2>2 DEF trust, Advance, Goto
  <2>3. CASE ~WindowValid(pos, size) /\ Fail /\ UNCHANGED <<pos, len, size, at, late>>
    BY <1>18, <2>3, FailFacts DEF trust
  <2> QED
    BY <1>18, <2>2, <2>3 DEF trust
<1>19. CASE wrote
  BY <1>19 DEF wrote, Goto
<1>20. CASE Calls
  <2>1. PICK o \in {"read", "write", "erase"}, s \in Spans : Call(o, s[1], s[2])
    BY <1>20 DEF Calls
  <2>2. s[1] \in Bytes /\ s[2] \in Nat \ {0} /\ s[1] + s[2] - 1 \in Bytes
    OBVIOUS
  <2>3. s[1] \in Nat /\ s[1] .. s[1] + s[2] - 1 \subseteq Bytes
    <3>1. FlashBlocks * BlockSize \in Nat
      BY TimesMono
    <3> QED
      BY <2>2, <3>1, SMTT(40) DEF Bytes
  <2> QED
    BY <2>1, <2>2, <2>3, SMTT(40) DEF Call, Goto
<1>21. CASE hiomap_event
  BY <1>21 DEF hiomap_event
<1>22. CASE Served
  <2> DEFINE Windows == [kind : {"closed", "read", "write"}, first : Nat, blocks : Nat,
                         written : SUBSET Int, dirty : SUBSET Bytes]
  <2>1. /\ cmd' \in {"good", "bad"} /\ negotiated' \in BOOLEAN /\ faults' \in Nat
        /\ UNCHANGED <<ctx, pc, op, pos, len, size, status, at, ok, ready, lost, sel, want, late>>
    BY <1>22 DEF Served
  <2>2. ASSUME win' \in Windows, win'.first + win'.blocks <= FlashBlocks,
               reply' \in Nat \X Nat, done' \subseteq Bytes
        PROVE  AllTypes'
    BY <2>1, <2>2
  <2>3. win \in Windows /\ win.first + win.blocks <= FlashBlocks /\ done \subseteq Bytes
        /\ reply \in Nat \X Nat
    OBVIOUS
  <2>4. ASSUME NEW first \in Nat, NEW n \in Nat, Opens(first, n) PROVE AllTypes'
    <3>1. win' \in Windows /\ win'.first = first /\ win'.blocks = n /\ first + n <= FlashBlocks
      BY <2>4 DEF Opens
    <3>2. reply' \in Nat \X Nat /\ done' = done
      BY <2>4 DEF Opens
    <3> HIDE DEF Windows
    <3> QED
      BY <2>2, <2>3, <3>1, <3>2
  <2>5. ASSUME NEW range \in SUBSET Bytes, Marks(range) PROVE AllTypes'
    <3>1. range \subseteq Int
      BY DEF Bytes
    <3>2. /\ win' \in Windows /\ win'.first = win.first /\ win'.blocks = win.blocks
      BY <2>3, <2>5, <3>1 DEF Marks
    <3>3. reply' = reply /\ done' = done
      BY <2>5 DEF Marks
    <3> HIDE DEF Windows
    <3> QED
      BY <2>2, <2>3, <3>2, <3>3
  <2>6. CASE Flushes
    <3>1. win' \in Windows /\ win'.first = win.first /\ win'.blocks = win.blocks
      BY <2>3, <2>6 DEF Flushes
    <3>2. reply' = reply /\ done' \subseteq Bytes
      BY <2>3, <2>6 DEF Flushes
    <3> HIDE DEF Windows
    <3> QED
      BY <2>2, <2>3, <3>1, <3>2
  <2>7. CASE Closes
    <3>1. win' \in Windows /\ win'.first = 0 /\ win'.blocks = 0
      BY <2>7 DEF Closes, Closed
    <3>2. reply' = reply /\ done' = done
      BY <2>7 DEF Closes
    <3> HIDE DEF Windows
    <3> QED
      BY <2>2, <2>3, <3>1, <3>2, SMTT(40)
  <2>8. CASE Passes
    BY <2>2, <2>3, <2>8 DEF Passes
  <2> QED
    BY <1>22, <2>4, <2>5, <2>6, <2>7, <2>8 DEF Served
<1>23. ASSUME NEW news \in Events, Notified(news) PROVE AllTypes'
  BY <1>23, SMTT(40) DEF Notified, Closed
<1>24. CASE UNCHANGED vars
  BY <1>24 DEF vars
<1>25. CASE lpc_fw_fails
  BY <1>25, FailFacts DEF lpc_fw_fails, Accessing, Fault
<1> QED
  BY <1>1, <1>2, <1>3, <1>4, <1>5, <1>6, <1>7, <1>8, <1>9, <1>10, <1>11, <1>12,
     <1>13, <1>14, <1>15, <1>16, <1>17, <1>18, <1>19, <1>20, <1>21, <1>22, <1>23, <1>24, <1>25, ServeServed, BmcNotifies
  DEF Next, Step, BmcActs

\* Every step keeps the flow of the operations.
LEMMA FlowStep == HiomapInv /\ [Next]_vars => Flow'
<1> SUFFICES ASSUME HiomapInv, [Next]_vars PROVE Flow'
  OBVIOUS
<1> USE HiomapAssumption DEF HiomapInv, AllTypes, Operations, Recovery, Chunked, ACK_MASK, Commands, Kind, Flow,
    ctx, locals, bmc, ghost
<1>1. CASE Return
  BY <1>1 DEF Return, Goto
<1>2. CASE Probe
  BY <1>2 DEF Probe, Goto
<1>3. CASE ipmi_hiomap_exit
  BY <1>3 DEF ipmi_hiomap_exit, Goto
<1>4. CASE handle_events
  BY <1>4, BeginFacts DEF handle_events, Goto
<1>5. CASE restore
  BY <1>5 DEF restore, Goto
<1>6. CASE queue_msg_sync
  <2>1. CASE Fail
    BY <1>6, <2>1, FailFacts DEF queue_msg_sync
  <2>2. CASE cmd' = "sent" /\ UNCHANGED <<pc, reply, ok>>
    BY <1>6, <2>2 DEF queue_msg_sync
  <2> QED
    BY <1>6, <2>1, <2>2 DEF queue_msg_sync
<1>7. CASE Failed
  BY <1>7, FailFacts DEF Failed
<1>8. CASE Acked
  BY <1>8, BeginFacts DEF Acked, Answered, Goto
<1>9. CASE GotInfo
  BY <1>9 DEF GotInfo, Answered, Goto
<1>10. CASE GotFlashInfo
  BY <1>10, BeginFacts DEF GotFlashInfo, Answered, Goto
<1>11. CASE window_move
  BY <1>11 DEF window_move, Goto, WindowValid
<1>12. CASE Created
  BY <1>12 DEF Created, Answered, Fail, Goto, Window
<1>13. CASE Dirtied
  BY <1>13 DEF Dirtied, Answered, Goto
<1>14. CASE Flushed
  BY <1>14 DEF Flushed, Answered, Advance, Goto
<1>15. CASE Freed
  BY <1>15 DEF Freed, Goto
<1>16. CASE lpc_window_read
  BY <1>16 DEF lpc_window_read, Accessing, InBounds, Fail, Goto
<1>17. CASE lpc_window_write
  BY <1>17 DEF lpc_window_write, Accessing, InBounds, Fail, Goto
<1>18. CASE trust
  BY <1>18 DEF trust, WindowValid, Advance, Fail, Goto
<1>19. CASE wrote
  BY <1>19 DEF wrote, Goto
<1>20. CASE Calls
  BY <1>20 DEF Calls, Call, Goto
<1>21. CASE hiomap_event
  BY <1>21 DEF hiomap_event
<1>22. CASE Served
  BY <1>22 DEF Served, Opens, Marks, Flushes, Closes, Passes
<1>23. ASSUME NEW news \in Events, Notified(news) PROVE Flow'
  BY <1>23 DEF Notified, Closed
<1>24. CASE UNCHANGED vars
  BY <1>24 DEF vars
<1>25. CASE lpc_fw_fails
  BY <1>25, FailFacts DEF lpc_fw_fails, Accessing, Fault
<1> QED
  BY <1>1, <1>2, <1>3, <1>4, <1>5, <1>6, <1>7, <1>8, <1>9, <1>10, <1>11, <1>12,
     <1>13, <1>14, <1>15, <1>16, <1>17, <1>18, <1>19, <1>20, <1>21, <1>22, <1>23, <1>24, <1>25, ServeServed, BmcNotifies
  DEF Next, Step, BmcActs

\* An operation that goes on has something left, within the flash.
LEMMA LeftStep == HiomapInv /\ [Next]_vars => Left'
<1> SUFFICES ASSUME HiomapInv, [Next]_vars PROVE Left'
  OBVIOUS
<1> USE HiomapAssumption DEF HiomapInv, AllTypes, Operations, Recovery, Chunked, ACK_MASK, Commands, Kind, Flow, Left, Chunk,
    ctx, locals, bmc, ghost
<1>1. CASE Return
  BY <1>1 DEF Return, Goto
<1>2. CASE Probe
  BY <1>2 DEF Probe, Goto
<1>3. CASE ipmi_hiomap_exit
  BY <1>3 DEF ipmi_hiomap_exit, Goto
<1>4. CASE handle_events
  BY <1>4 DEF handle_events, Goto, Begin
<1>5. CASE restore
  BY <1>5 DEF restore, Goto
<1>6. CASE queue_msg_sync
  BY <1>6 DEF queue_msg_sync, Fail, Goto
<1>7. CASE Failed
  BY <1>7 DEF Failed, Fail, Goto
<1>8. CASE Acked
  BY <1>8 DEF Acked, Answered, Goto, Begin
<1>9. CASE GotInfo
  BY <1>9 DEF GotInfo, Answered, Goto
<1>10. CASE GotFlashInfo
  BY <1>10 DEF GotFlashInfo, Answered, Goto, Begin
<1>11. CASE window_move
  BY <1>11 DEF window_move, Goto, WindowValid
<1>12. CASE Created
  BY <1>12 DEF Created, Answered, Fail, Goto, Window
<1>13. CASE Dirtied
  BY <1>13 DEF Dirtied, Answered, Goto
<1>14. CASE Flushed
  BY <1>14 DEF Flushed, Answered, Advance, Goto
<1>15. CASE Freed
  BY <1>15 DEF Freed, Goto
<1>16. CASE lpc_window_read
  BY <1>16 DEF lpc_window_read, Accessing, InBounds, Fail, Goto
<1>17. CASE lpc_window_write
  BY <1>17 DEF lpc_window_write, Accessing, InBounds, Fail, Goto
<1>18. CASE trust
  <2>1. CASE Advance /\ UNCHANGED ok
    BY <1>18, <2>1 DEF trust, Advance, Goto
  <2>2. CASE Fail
    BY <1>18, <2>2, FailFacts DEF trust
  <2> QED
    BY <1>18, <2>1, <2>2 DEF trust
<1>19. CASE wrote
  BY <1>19 DEF wrote, Goto
<1>20. CASE Calls
  BY <1>20 DEF Calls, Call, Goto
<1>21. CASE hiomap_event
  BY <1>21 DEF hiomap_event
<1>22. CASE Served
  BY <1>22 DEF Served, Opens, Marks, Flushes, Closes, Passes
<1>23. ASSUME NEW news \in Events, Notified(news) PROVE Left'
  BY <1>23 DEF Notified, Closed
<1>24. CASE UNCHANGED vars
  BY <1>24 DEF vars
<1>25. CASE lpc_fw_fails
  BY <1>25, FailFacts DEF lpc_fw_fails, Accessing, Fault
<1> QED
  BY <1>1, <1>2, <1>3, <1>4, <1>5, <1>6, <1>7, <1>8, <1>9, <1>10, <1>11, <1>12,
     <1>13, <1>14, <1>15, <1>16, <1>17, <1>18, <1>19, <1>20, <1>21, <1>22, <1>23, <1>24, <1>25, ServeServed, BmcNotifies
  DEF Next, Step, BmcActs

\* The next chunk is within the window found valid or just opened; it is not empty.
LEMMA ChunkStep == HiomapInv /\ [Next]_vars => Chunk'
<1> SUFFICES ASSUME HiomapInv, [Next]_vars PROVE Chunk'
  OBVIOUS
<1> USE HiomapAssumption DEF HiomapInv, AllTypes, Operations, Recovery, Chunked, ACK_MASK, Commands, Kind, Flow, Left, Chunk,
    ctx, locals, bmc, ghost
<1>1. CASE Return
  BY <1>1 DEF Return, Goto
<1>2. CASE Probe
  BY <1>2 DEF Probe, Goto
<1>3. CASE ipmi_hiomap_exit
  BY <1>3 DEF ipmi_hiomap_exit, Goto
<1>4. CASE handle_events
  <2>1. pc' \notin Chunked
    BY <1>4, BeginFacts DEF handle_events, Goto
  <2> QED
    BY <2>1
<1>5. CASE restore
  BY <1>5 DEF restore, Goto
<1>6. CASE queue_msg_sync
  BY <1>6 DEF queue_msg_sync, Fail, Goto
<1>7. CASE Failed
  BY <1>7 DEF Failed, Fail, Goto
<1>8. CASE Acked
  BY <1>8 DEF Acked, Answered, Goto, Begin
<1>9. CASE GotInfo
  BY <1>9 DEF GotInfo, Answered, Goto
<1>10. CASE GotFlashInfo
  BY <1>10 DEF GotFlashInfo, Answered, Goto, Begin
<1>11. CASE window_move
  BY <1>11 DEF window_move, Goto, WindowValid
<1>12. CASE Created
  <2>1. at' = 0 /\ len' = len /\ pos' = pos
    BY <1>12, CreatedChunk DEF Created, Answered
  <2> QED
    BY <1>12, <2>1, CreatedChunk
<1>13. CASE Dirtied
  BY <1>13 DEF Dirtied, Answered, Goto
<1>14. CASE Flushed
  BY <1>14 DEF Flushed, Answered, Advance, Goto
<1>15. CASE Freed
  BY <1>15 DEF Freed, Goto
<1>16. CASE lpc_window_read
  <2>1. CASE InBounds
    BY <1>16, <2>1 DEF lpc_window_read, Accessing
  <2>2. CASE ~InBounds
    BY <1>16, <2>2, FailFacts DEF lpc_window_read
  <2> QED
    BY <2>1, <2>2
<1>17. CASE lpc_window_write
  <2>1. CASE window_state = "write" /\ InBounds
    BY <1>17, <2>1, SMTT(40) DEF lpc_window_write, Accessing
  <2>2. CASE ~(window_state = "write" /\ InBounds)
    BY <1>17, <2>2, FailFacts DEF lpc_window_write
  <2> QED
    BY <2>1, <2>2
<1>18. CASE trust
  BY <1>18 DEF trust, WindowValid, Advance, Fail, Goto
<1>19. CASE wrote
  BY <1>19 DEF wrote, Goto
<1>20. CASE Calls
  BY <1>20 DEF Calls, Call, Goto
<1>21. CASE hiomap_event
  BY <1>21 DEF hiomap_event
<1>22. CASE Served
  BY <1>22 DEF Served, Opens, Marks, Flushes, Closes, Passes
<1>23. ASSUME NEW news \in Events, Notified(news) PROVE Chunk'
  BY <1>23 DEF Notified, Closed
<1>24. CASE UNCHANGED vars
  BY <1>24 DEF vars
<1>25. CASE lpc_fw_fails
  BY <1>25, FailFacts DEF lpc_fw_fails, Accessing, Fault
<1> QED
  BY <1>1, <1>2, <1>3, <1>4, <1>5, <1>6, <1>7, <1>8, <1>9, <1>10, <1>11, <1>12,
     <1>13, <1>14, <1>15, <1>16, <1>17, <1>18, <1>19, <1>20, <1>21, <1>22, <1>23, <1>24, <1>25, ServeServed, BmcNotifies
  DEF Next, Step, BmcActs

\* Only an answer to hiomap_window_move's command brings a window.
LEMMA ReplyStep == HiomapInv /\ [Next]_vars => ReplyOK'
<1> SUFFICES ASSUME HiomapInv, [Next]_vars PROVE ReplyOK'
  OBVIOUS
<1> USE HiomapAssumption DEF HiomapInv, AllTypes, Operations, Recovery, Chunked, ACK_MASK, Commands, Kind, Flow, ReplyOK,
    ctx, locals, bmc, ghost
<1>1. CASE Return
  BY <1>1 DEF Return, Goto
<1>2. CASE Probe
  BY <1>2 DEF Probe, Goto
<1>3. CASE ipmi_hiomap_exit
  BY <1>3 DEF ipmi_hiomap_exit, Goto
<1>4. CASE handle_events
  BY <1>4 DEF handle_events, Goto, Begin
<1>5. CASE restore
  BY <1>5 DEF restore, Goto
<1>6. CASE queue_msg_sync
  BY <1>6 DEF queue_msg_sync, Fail, Goto
<1>7. CASE Failed
  BY <1>7 DEF Failed, Fail, Goto
<1>8. CASE Acked
  BY <1>8 DEF Acked, Answered, Goto, Begin
<1>9. CASE GotInfo
  BY <1>9 DEF GotInfo, Answered, Goto
<1>10. CASE GotFlashInfo
  BY <1>10 DEF GotFlashInfo, Answered, Goto, Begin
<1>11. CASE window_move
  BY <1>11 DEF window_move, Goto, WindowValid
<1>12. CASE Created
  BY <1>12 DEF Created, Answered, Fail, Goto, Window
<1>13. CASE Dirtied
  BY <1>13 DEF Dirtied, Answered, Goto
<1>14. CASE Flushed
  BY <1>14 DEF Flushed, Answered, Advance, Goto
<1>15. CASE Freed
  BY <1>15 DEF Freed, Goto
<1>16. CASE lpc_window_read
  BY <1>16 DEF lpc_window_read, Accessing, InBounds, Fail, Goto
<1>17. CASE lpc_window_write
  BY <1>17 DEF lpc_window_write, Accessing, InBounds, Fail, Goto
<1>18. CASE trust
  BY <1>18 DEF trust, WindowValid, Advance, Fail, Goto
<1>19. CASE wrote
  BY <1>19 DEF wrote, Goto
<1>20. CASE Calls
  BY <1>20 DEF Calls, Call, Goto
<1>21. CASE hiomap_event
  BY <1>21 DEF hiomap_event
<1>22. CASE Served
  BY <1>22, SMTT(40) DEF Served, Opens, Marks, Flushes, Closes, Passes
<1>23. ASSUME NEW news \in Events, Notified(news) PROVE ReplyOK'
  BY <1>23 DEF Notified, Closed
<1>24. CASE UNCHANGED vars
  BY <1>24 DEF vars
<1>25. CASE lpc_fw_fails
  BY <1>25, FailFacts DEF lpc_fw_fails, Accessing, Fault
<1> QED
  BY <1>1, <1>2, <1>3, <1>4, <1>5, <1>6, <1>7, <1>8, <1>9, <1>10, <1>11, <1>12,
     <1>13, <1>14, <1>15, <1>16, <1>17, <1>18, <1>19, <1>20, <1>21, <1>22, <1>23, <1>24, <1>25, ServeServed, BmcNotifies
  DEF Next, Step, BmcActs

\* The host opens a window as the BMC told it, the BMC closes its own only.
LEMMA SameStep == HiomapInv /\ [Next]_vars => SameWindow'
<1> SUFFICES ASSUME HiomapInv, [Next]_vars PROVE SameWindow'
  OBVIOUS
<1> USE HiomapAssumption DEF HiomapInv, AllTypes, Operations, Recovery, Chunked, ACK_MASK, Commands, Kind, Flow, ReplyOK, SameWindow,
    ctx, locals, bmc, ghost
<1>1. CASE Return
  BY <1>1 DEF Return, Goto
<1>2. CASE Probe
  BY <1>2 DEF Probe, Goto
<1>3. CASE ipmi_hiomap_exit
  BY <1>3 DEF ipmi_hiomap_exit, Goto
<1>4. CASE handle_events
  BY <1>4 DEF handle_events, Goto, Begin
<1>5. CASE restore
  BY <1>5 DEF restore, Goto
<1>6. CASE queue_msg_sync
  BY <1>6 DEF queue_msg_sync, Fail, Goto
<1>7. CASE Failed
  BY <1>7 DEF Failed, Fail, Goto
<1>8. CASE Acked
  BY <1>8 DEF Acked, Answered, Goto, Begin
<1>9. CASE GotInfo
  BY <1>9 DEF GotInfo, Answered, Goto
<1>10. CASE GotFlashInfo
  BY <1>10 DEF GotFlashInfo, Answered, Goto, Begin
<1>11. CASE window_move
  BY <1>11 DEF window_move, Goto, WindowValid
<1>12. CASE Created
  BY <1>12 DEF Created, Answered, Fail, Goto, Window
<1>13. CASE Dirtied
  BY <1>13 DEF Dirtied, Answered, Goto
<1>14. CASE Flushed
  BY <1>14 DEF Flushed, Answered, Advance, Goto
<1>15. CASE Freed
  BY <1>15 DEF Freed, Goto
<1>16. CASE lpc_window_read
  BY <1>16 DEF lpc_window_read, Accessing, InBounds, Fail, Goto
<1>17. CASE lpc_window_write
  BY <1>17 DEF lpc_window_write, Accessing, InBounds, Fail, Goto
<1>18. CASE trust
  BY <1>18 DEF trust, WindowValid, Advance, Fail, Goto
<1>19. CASE wrote
  BY <1>19 DEF wrote, Goto
<1>20. CASE Calls
  BY <1>20 DEF Calls, Call, Goto
<1>21. CASE hiomap_event
  BY <1>21 DEF hiomap_event
<1>22. CASE Served
  BY <1>22 DEF Served, Opens, Marks, Flushes, Closes, Passes
<1>23. ASSUME NEW news \in Events, Notified(news) PROVE SameWindow'
  BY <1>23 DEF Notified, Closed
<1>24. CASE UNCHANGED vars
  BY <1>24 DEF vars
<1>25. CASE lpc_fw_fails
  BY <1>25, FailFacts DEF lpc_fw_fails, Accessing, Fault
<1> QED
  BY <1>1, <1>2, <1>3, <1>4, <1>5, <1>6, <1>7, <1>8, <1>9, <1>10, <1>11, <1>12,
     <1>13, <1>14, <1>15, <1>16, <1>17, <1>18, <1>19, <1>20, <1>21, <1>22, <1>23, <1>24, <1>25, ServeServed, BmcNotifies
  DEF Next, Step, BmcActs

\* The BMC closes a window only with an event, and the event closes it for the host.
LEMMA PendingStep == HiomapInv /\ [Next]_vars => ClosedIsPending'
<1> SUFFICES ASSUME HiomapInv, [Next]_vars PROVE ClosedIsPending'
  OBVIOUS
<1> USE HiomapAssumption DEF HiomapInv, AllTypes, Operations, Recovery, Chunked, ACK_MASK, Commands, Kind, Flow, ClosedIsPending,
    ctx, locals, bmc, ghost
<1>0. UNCHANGED <<bmc_state, sel>> /\ Pending => Pending'
  BY PendingStays
<1>1. CASE Return
  BY <1>1, <1>0 DEF Return, Goto
<1>2. CASE Probe
  BY <1>2 DEF Probe, Goto
<1>3. CASE ipmi_hiomap_exit
  BY <1>3 DEF ipmi_hiomap_exit, Goto
<1>4. CASE handle_events
  <2>1. pc' # "create"
    BY <1>4, BeginFacts DEF handle_events, Goto
  <2>2. CASE bmc_state \cap ACK_MASK = {}
    <3>1. bmc_state' = bmc_state /\ sel' = sel /\ UNCHANGED <<window_state, win>>
      BY <1>4, <2>2 DEF handle_events
    <3>2. Pending => Pending'
      BY <3>1, PendingStays
    <3> QED
      BY <2>1, <3>1, <3>2
  <2>3. CASE bmc_state \cap ACK_MASK # {}
    BY <1>4, <2>1, <2>3 DEF handle_events
  <2> QED
    BY <2>2, <2>3
<1>5. CASE restore
  <2>1. Pending => Pending'
    BY <1>5 DEF restore, Pending
  <2> QED
    BY <1>5, <2>1 DEF restore, Goto
<1>6. CASE queue_msg_sync
  BY <1>6, <1>0, FailFacts DEF queue_msg_sync
<1>7. CASE Failed
  BY <1>7, <1>0, FailFacts DEF Failed
<1>8. CASE Acked
  BY <1>8, <1>0, BeginFacts DEF Acked, Answered, Goto
<1>9. CASE GotInfo
  BY <1>9, <1>0 DEF GotInfo, Answered, Goto
<1>10. CASE GotFlashInfo
  BY <1>10, <1>0, BeginFacts DEF GotFlashInfo, Answered, Goto
<1>11. CASE window_move
  BY <1>11, <1>0 DEF window_move, Goto, WindowValid
<1>12. CASE Created
  BY <1>12, <1>0, CreatedChunk DEF Created, Answered
<1>13. CASE Dirtied
  BY <1>13, <1>0 DEF Dirtied, Answered, Goto
<1>14. CASE Flushed
  BY <1>14, <1>0 DEF Flushed, Answered, Advance, Goto
<1>15. CASE Freed
  BY <1>15 DEF Freed, Goto
<1>16. CASE lpc_window_read
  BY <1>16, <1>0, FailFacts DEF lpc_window_read
<1>17. CASE lpc_window_write
  BY <1>17, <1>0, FailFacts DEF lpc_window_write
<1>18. CASE trust
  BY <1>18, <1>0, FailFacts DEF trust, Advance, Goto
<1>19. CASE wrote
  BY <1>19, <1>0 DEF wrote, Goto
<1>20. CASE Calls
  BY <1>20, <1>0 DEF Calls, Call, Goto
<1>21. CASE hiomap_event
  <2>1. CASE registered
    <3>1. Pending => Pending'
      BY <1>21, <2>1, PendingStays
    <3> QED
      BY <1>21, <3>1 DEF hiomap_event
  <2>2. CASE ~registered
    BY <1>21, <2>2 DEF hiomap_event
  <2> QED
    BY <2>1, <2>2
<1>22. CASE Served
  <2>1. UNCHANGED <<bmc_state, sel, window_state, pc>>
    BY <1>22 DEF Served
  <2>2. Pending => Pending'
    BY <2>1, PendingStays
  <2>3. ASSUME NEW first \in Nat, NEW n \in Nat, Opens(first, n) PROVE ClosedIsPending'
    BY <2>1, <2>3 DEF Opens
  <2>4. ASSUME NEW range \in SUBSET Bytes, Marks(range) PROVE ClosedIsPending'
    BY <2>1, <2>2, <2>4 DEF Marks
  <2>5. CASE Flushes
    BY <2>1, <2>2, <2>5 DEF Flushes
  <2>6. CASE Closes
    BY <2>1, <2>6 DEF Closes
  <2>7. CASE Passes
    BY <2>1, <2>2, <2>7 DEF Passes
  <2> QED
    BY <1>22, <2>3, <2>4, <2>5, <2>6, <2>7 DEF Served
<1>23. ASSUME NEW news \in Events, Notified(news) PROVE ClosedIsPending'
  <2>1. UNCHANGED <<bmc_state, window_state, pc, cmd>>
    BY <1>23 DEF Notified
  <2>2. Pending => Pending'
    BY <1>23, <2>1, PendingStays DEF Notified
  <2>3. win' = win \/ Pending'
    BY <1>23, PendingStarts DEF Notified
  <2> QED
    BY <2>1, <2>2, <2>3
<1>24. CASE UNCHANGED vars
  <2>1. Pending => Pending'
    BY <1>24, PendingStays DEF vars
  <2> QED
    BY <1>24, <2>1 DEF vars
<1>25. CASE lpc_fw_fails
  BY <1>25, <1>0, FailFacts DEF lpc_fw_fails, Accessing, Fault
<1> QED
  BY <1>1, <1>2, <1>3, <1>4, <1>5, <1>6, <1>7, <1>8, <1>9, <1>10, <1>11, <1>12,
     <1>13, <1>14, <1>15, <1>16, <1>17, <1>18, <1>19, <1>20, <1>21, <1>22, <1>23, <1>24, <1>25, ServeServed, BmcNotifies
  DEF Next, Step, BmcActs

\* Each byte accessed adds to what is read or written, each command to the next.
LEMMA AccessedStep == HiomapInv /\ [Next]_vars => Accessed'
<1> SUFFICES ASSUME HiomapInv, [Next]_vars PROVE Accessed'
  OBVIOUS
<1> USE HiomapAssumption DEF HiomapInv, AllTypes, Operations, Recovery, Chunked, ACK_MASK, Commands, Kind, Flow, Left, Chunk, Accessed,
    ctx, locals, bmc, ghost
<1>1. CASE Return
  BY <1>1 DEF Return, Goto
<1>2. CASE Probe
  BY <1>2 DEF Probe, Goto
<1>3. CASE ipmi_hiomap_exit
  BY <1>3 DEF ipmi_hiomap_exit, Goto
<1>4. CASE handle_events
  <2>1. pc' \notin Chunked
    BY <1>4, BeginFacts DEF handle_events, Goto
  <2> QED
    BY <2>1
<1>5. CASE restore
  BY <1>5 DEF restore, Goto
<1>6. CASE queue_msg_sync
  BY <1>6 DEF queue_msg_sync, Fail, Goto
<1>7. CASE Failed
  BY <1>7 DEF Failed, Fail, Goto
<1>8. CASE Acked
  BY <1>8 DEF Acked, Answered, Goto, Begin
<1>9. CASE GotInfo
  BY <1>9 DEF GotInfo, Answered, Goto
<1>10. CASE GotFlashInfo
  BY <1>10 DEF GotFlashInfo, Answered, Goto, Begin
<1>11. CASE window_move
  <2>1. pos' = pos /\ at' = 0 /\ cmd' = "none" /\ pc' \in {"create", "erase", "access"}
    BY <1>11 DEF window_move, Goto
  <2>2. pos' .. pos' + at' - 1 = {}
    BY <2>1
  <2> QED
    BY <2>1, <2>2
<1>12. CASE Created
  BY <1>12, SMTT(40) DEF Created, Answered, Fail, Goto, Window
<1>13. CASE Dirtied
  BY <1>13 DEF Dirtied, Answered, Goto
<1>14. CASE Flushed
  BY <1>14 DEF Flushed, Answered, Advance, Goto
<1>15. CASE Freed
  BY <1>15 DEF Freed, Goto
<1>16. CASE lpc_window_read
  <2>1. CASE InBounds
    <3>1. /\ pc = "access" /\ pc' = "access" /\ op = "read" /\ op' = "read" /\ pos' = pos /\ at' = at + 1 /\ at < size
          /\ UNCHANGED <<bmc_state, sel>>
      BY <1>16, <2>1 DEF lpc_window_read, Accessing
    <3>2. Pending => Pending'
      BY <3>1, PendingStays
    <3>3. window_state = "read" /\ (win.kind = "closed" => Pending)
      BY <1>16 DEF lpc_window_read, Accessing, ClosedIsPending
    <3>4. CASE win.kind # "closed"
      <4>1. done' = done \cup {pos + at}
        BY <1>16, <2>1, <3>4, ByteAt DEF lpc_window_read, Accessing
      <4>2. pos .. pos + at - 1 \subseteq done => pos' .. pos' + at' - 1 \subseteq done'
        BY <3>1, <4>1
      <4> QED
        BY <3>1, <3>2, <4>2
    <3> QED
      BY <3>1, <3>2, <3>3, <3>4
  <2>2. CASE ~InBounds
    BY <1>16, <2>2, FailFacts DEF lpc_window_read
  <2> QED
    BY <2>1, <2>2
<1>17. CASE lpc_window_write
  <2>1. CASE window_state = "write" /\ InBounds
    <3>1. /\ pc = "access" /\ pc' = "access" /\ op = "write" /\ op' = "write"
          /\ pos' = pos /\ at' = at + 1 /\ at < size
      BY <1>17, <2>1 DEF lpc_window_write, Accessing
    <3>2. CASE win.kind = "write"
      <4>1. win' = [win EXCEPT !.written = @ \cup {pos + at}]
        BY <1>17, <2>1, <3>2, ByteAt DEF lpc_window_write, Accessing
      <4>2. pos .. pos + at - 1 \subseteq win.written => pos' .. pos' + at' - 1 \subseteq win'.written
        <5>1. win'.written = win.written \cup {pos + at}
          BY <4>1
        <5> QED
          BY <3>1, <5>1
      <4> QED
        BY <3>1, <3>2, <4>2
    <3>3. CASE win.kind # "write"
      BY <1>17, <2>1, <3>1, <3>3 DEF lpc_window_write
    <3> QED
      BY <3>2, <3>3
  <2>2. CASE ~(window_state = "write" /\ InBounds)
    BY <1>17, <2>2, FailFacts DEF lpc_window_write
  <2> QED
    BY <2>1, <2>2
<1>18. CASE trust
  BY <1>18 DEF trust, WindowValid, Advance, Fail, Goto
<1>19. CASE wrote
  BY <1>19 DEF wrote, Goto
<1>20. CASE Calls
  BY <1>20 DEF Calls, Call, Goto
<1>21. CASE hiomap_event
  <2>1. UNCHANGED <<window_state, pc, op, pos, size, at, cmd, win, done>>
    BY <1>21 DEF hiomap_event
  <2>2. pc = "access" => registered
    OBVIOUS
  <2>3. pc = "access" /\ Pending => Pending'
    BY <1>21, <2>2, PendingStays
  <2> QED
    BY <2>1, <2>3
<1>22. CASE Served
  <2>1. UNCHANGED <<bmc_state, sel, pc, op, pos, size, at>> /\ pc \in Commands
    BY <1>22 DEF Served
  <2>2. ASSUME NEW first \in Nat, NEW n \in Nat, Opens(first, n) PROVE Accessed'
    BY <2>1, <2>2 DEF Opens
  <2>3. ASSUME NEW range \in SUBSET Bytes, Marks(range) PROVE Accessed'
    BY <2>1, <2>3 DEF Marks
  <2>4. CASE Flushes
    BY <1>22, <2>1, <2>4 DEF Flushes, Served
  <2>5. CASE Closes
    BY <2>1, <2>5 DEF Closes
  <2>6. CASE Passes
    BY <1>22, <2>1, <2>6 DEF Passes, Served
  <2> QED
    BY <1>22, <2>2, <2>3, <2>4, <2>5, <2>6 DEF Served
<1>23. ASSUME NEW news \in Events, Notified(news) PROVE Accessed'
  <2>1. UNCHANGED <<bmc_state, pc, op, pos, size, at, cmd, done>>
    BY <1>23 DEF Notified
  <2>2. Pending => Pending'
    BY <1>23, <2>1, PendingStays DEF Notified
  <2>3. win' = win \/ win'.kind = "closed"
    BY <1>23 DEF Notified, Closed
  <2> QED
    BY <2>1, <2>2, <2>3
<1>24. CASE UNCHANGED vars
  <2>1. Pending => Pending'
    BY <1>24, PendingStays DEF vars
  <2> QED
    BY <1>24, <2>1 DEF vars
<1>25. CASE lpc_fw_fails
  BY <1>25, FailFacts DEF lpc_fw_fails, Accessing, Fault
<1> QED
  BY <1>1, <1>2, <1>3, <1>4, <1>5, <1>6, <1>7, <1>8, <1>9, <1>10, <1>11, <1>12,
     <1>13, <1>14, <1>15, <1>16, <1>17, <1>18, <1>19, <1>20, <1>21, <1>22, <1>23, <1>24, <1>25, ServeServed, BmcNotifies
  DEF Next, Step, BmcActs

\* The host goes on to the next chunk only when this one got through.
LEMMA ProgressStep == HiomapInv /\ [Next]_vars => Progress'
<1> SUFFICES ASSUME HiomapInv, [Next]_vars PROVE Progress'
  OBVIOUS
<1> USE HiomapAssumption DEF HiomapInv, AllTypes, Operations, Recovery, Chunked, ACK_MASK, Commands, Kind, Flow, Left, Chunk, Accessed, Progress,
    ctx, locals, bmc, ghost
<1>1. CASE Return
  BY <1>1 DEF Return, Goto
<1>2. CASE Probe
  BY <1>2 DEF Probe, Goto
<1>3. CASE ipmi_hiomap_exit
  BY <1>3 DEF ipmi_hiomap_exit, Goto
<1>4. CASE handle_events
  BY <1>4 DEF handle_events, Goto, Begin
<1>5. CASE restore
  BY <1>5 DEF restore, Goto
<1>6. CASE queue_msg_sync
  BY <1>6 DEF queue_msg_sync, Fail, Goto
<1>7. CASE Failed
  BY <1>7 DEF Failed, Fail, Goto
<1>8. CASE Acked
  BY <1>8 DEF Acked, Answered, Goto, Begin
<1>9. CASE GotInfo
  BY <1>9 DEF GotInfo, Answered, Goto
<1>10. CASE GotFlashInfo
  BY <1>10 DEF GotFlashInfo, Answered, Goto, Begin
<1>11. CASE window_move
  BY <1>11 DEF window_move, Goto, WindowValid
<1>12. CASE Created
  BY <1>12 DEF Created, Answered, Fail, Goto, Window
<1>13. CASE Dirtied
  BY <1>13 DEF Dirtied, Answered, Goto
<1>14. CASE Flushed
  BY <1>14, SMTT(40) DEF Flushed, Answered, Advance, Goto
<1>15. CASE Freed
  BY <1>15 DEF Freed, Goto
<1>16. CASE lpc_window_read
  BY <1>16 DEF lpc_window_read, Accessing, InBounds, Fail, Goto
<1>17. CASE lpc_window_write
  BY <1>17 DEF lpc_window_write, Accessing, InBounds, Fail, Goto
<1>18. CASE trust
  <2>1. CASE WindowValid(pos, size) /\ Advance /\ late' = (late \/ sel # << >>)
    <3>1. ~late' => ~Pending
      BY <2>1 DEF WindowValid, Pending
    <3>2. ~late' => pos .. pos + size - 1 \subseteq done /\ ~late
      BY <1>18, <2>1, <3>1 DEF trust
    <3>3. pos' .. pos' + len' - 1 = (pos .. pos + len - 1) \ (pos .. pos + size - 1)
      BY <1>18, <2>1, SMTT(40) DEF trust, Advance
    <3>4. UNCHANGED <<op, want, done>> /\ (pc' = "return" => pos' .. pos' + len' - 1 = {})
      BY <1>18, <2>1 DEF trust, Advance, Goto
    <3> QED
      BY <1>18, <3>2, <3>3, <3>4 DEF trust
  <2>2. CASE Fail
    BY <1>18, <2>2, FailFacts DEF trust
  <2> QED
    BY <1>18, <2>1, <2>2 DEF trust
<1>19. CASE wrote
  BY <1>19 DEF wrote, Goto
<1>20. CASE Calls
  BY <1>20 DEF Calls, Call, Goto
<1>21. CASE hiomap_event
  BY <1>21 DEF hiomap_event
<1>22. CASE Served
  BY <1>22 DEF Served, Opens, Marks, Flushes, Closes, Passes
<1>23. ASSUME NEW news \in Events, Notified(news) PROVE Progress'
  BY <1>23 DEF Notified, Closed
<1>24. CASE UNCHANGED vars
  BY <1>24 DEF vars
<1>25. CASE lpc_fw_fails
  BY <1>25, FailFacts DEF lpc_fw_fails, Accessing, Fault
<1> QED
  BY <1>1, <1>2, <1>3, <1>4, <1>5, <1>6, <1>7, <1>8, <1>9, <1>10, <1>11, <1>12,
     <1>13, <1>14, <1>15, <1>16, <1>17, <1>18, <1>19, <1>20, <1>21, <1>22, <1>23, <1>24, <1>25, ServeServed, BmcNotifies
  DEF Next, Step, BmcActs

\* When ipmi_hiomap_init begins, no operation has begun.
LEMMA InitInv == Init => HiomapInv
<1> SUFFICES ASSUME Init PROVE HiomapInv
  OBVIOUS
<1> USE HiomapAssumption DEF Init
<1>1. AllTypes
  <2>1. win \in [kind : {"closed", "read", "write"}, first : Nat, blocks : Nat,
                 written : SUBSET Int, dirty : SUBSET Bytes]
    BY DEF Closed
  <2>2. current \in [cur_pos : Nat, size : Nat] /\ reply \in Nat \X Nat /\ sel \in Seq(Events)
    BY DEF Window
  <2>3. win.first + win.blocks <= FlashBlocks
    BY DEF Closed
  <2>4. registered \in BOOLEAN /\ ok \in BOOLEAN /\ lost \in BOOLEAN /\ late \in BOOLEAN
    OBVIOUS
  <2>5. bmc_state \in Events /\ status \in SUBSET ACK_MASK
    BY DEF Events
  <2> QED
    BY <2>1, <2>2, <2>3, <2>4, <2>5 DEF AllTypes, Commands, Operations
<1>2. Flow /\ Left /\ Chunk /\ Progress
  BY DEF Flow, Left, Chunk, Progress, Recovery, Chunked, Operations, Commands
<1>3. ReplyOK /\ SameWindow /\ ClosedIsPending /\ Accessed
  BY DEF ReplyOK, SameWindow, ClosedIsPending, Accessed
<1> QED
  BY <1>1, <1>2, <1>3 DEF HiomapInv

\* Host and BMC agree on the window, up to the resets that are pending, and an
\* operation accounts for every byte behind it.
THEOREM HiomapInvariant == Spec => []HiomapInv
<1>1. HiomapInv /\ [Next]_vars => HiomapInv'
  BY TypesStep, FlowStep, LeftStep, ChunkStep, ReplyStep, SameStep, PendingStep, AccessedStep,
     ProgressStep
  DEF HiomapInv
<1> QED
  BY InitInv, <1>1, PTL DEF Spec

\* A read that ipmi_hiomap_read reports a success has every byte from the flash,
\* unless the event of a reset was still on its way when it tested the window.
THEOREM HiomapReadTrusted == Spec => []ReadTrusted
<1>1. HiomapInv => ReadTrusted
  BY DEF HiomapInv, AllTypes, Progress, ReadTrusted, TypeOK, Events, Operations
<1> QED
  BY HiomapInvariant, <1>1, PTL

\* A write or an erase that is reported a success has brought every byte to the
\* flash, wherever the BMC closed the window, stopped or lost a command.
THEOREM HiomapWriteReached == Spec => []WriteReached
<1>1. HiomapInv => WriteReached
  BY DEF HiomapInv, AllTypes, Progress, WriteReached, Operations
<1> QED
  BY HiomapInvariant, <1>1, PTL
=============================================================================
