-------------------------------- MODULE Hiomap ------------------------------
(***************************************************************************)
(* Flash behind the BMC (libflash/ipmi-hiomap.c): the host asks the BMC    *)
(* for a window of the flash on the LPC bus, reads or writes the window,   *)
(* tells what it wrote and has it flushed.  The BMC may close the window,  *)
(* forget the protocol, stop or take the flash for itself at any time; it  *)
(* says so in an event, which arrives later, on another CPU.               *)
(*                                                                         *)
(* Positions and lengths are bytes, and blocks in the commands.  Contents  *)
(* are left out: done is the set of bytes that the operation under way     *)
(* really read from the flash or brought to it.  One operation runs at a   *)
(* time (core/flash.c has the flash marked busy).                          *)
(***************************************************************************)
EXTENDS Integers, Sequences, FiniteSets

CONSTANTS
  BlockSize,       \* 1 << block_size_shift
  FlashBlocks,     \* total_size, in blocks
  Spans,           \* bound: <<pos, len>> of the operations
  MaxFaults        \* bound: events, lost or refused commands, LPC errors

Bytes == 0..FlashBlocks * BlockSize - 1

ASSUME HiomapAssumption ==
  /\ BlockSize \in Nat \ {0} /\ FlashBlocks \in Nat \ {0} /\ MaxFaults \in Nat
  /\ \A s \in Spans : s[1] \in Bytes /\ s[2] \in Nat \ {0} /\ s[1] + s[2] - 1 \in Bytes

VARIABLES
  bmc_state, window_state, current,        \* struct ipmi_hiomap
  registered,      \* hiomap_event is a SEL handler
  pc, op, pos, len, size, status,          \* the operation and its locals
  at,              \* bytes of the chunk accessed
  cmd, reply,      \* the command of pc: "none", "sent", "good" or "bad",
                   \* and the blocks of the window in its answer
  ok,              \* rc is 0
  ready, lost,     \* the BMC: its daemon runs; it has the flash for itself
  negotiated,      \* it has had GET_INFO
  win,             \* its window: written are bytes of this operation in it
  sel,             \* events on their way
  faults,
  want, done,      \* bytes of the operation, and those that got through
  late             \* what was read was trusted with an event on its way

ctx == <<bmc_state, window_state, current, registered>>
locals == <<op, pos, len, size, status, at, cmd, reply, ok>>
bmc == <<ready, lost, negotiated, win, sel, faults>>
ghost == <<want, done, late>>
vars == <<ctx, pc, locals, bmc, ghost>>

ACK_MASK == {"PROTOCOL_RESET", "WINDOW_RESET"}
Commands == {"ack", "get_info", "get_flash_info", "create", "mark_dirty", "flush", "erase", "reset"}

blocks_to_bytes(b) == b * BlockSize
bytes_to_blocks(b) == b \div BlockSize
bytes_to_blocks_align_up(p, l) == (l + (p % BlockSize) + BlockSize - 1) \div BlockSize

\* The bytes of n blocks from block b on.
Range(b, n) == b * BlockSize .. (b + n) * BlockSize - 1

Closed == [kind |-> "closed", first |-> 0, blocks |-> 0, written |-> {}, dirty |-> {}]
Window(p, l) == [cur_pos |-> p, size |-> l]

\* ipmi_hiomap_init up to its first command.
Init ==
  /\ bmc_state = {"DAEMON_READY"} /\ window_state = "closed" /\ current = Window(0, 0)
  /\ registered = FALSE
  /\ pc = "ack" /\ op = "init" /\ pos = 0 /\ len = 0 /\ size = 0 /\ status = {}
  /\ at = 0 /\ cmd = "none" /\ reply = <<0, 0>> /\ ok = TRUE
  /\ ready \in BOOLEAN /\ lost = FALSE /\ negotiated \in BOOLEAN /\ win = Closed
  /\ sel = << >> /\ faults = 0
  /\ want = {} /\ done = {} /\ late = FALSE

Goto(p) ==
  /\ pc' = p /\ cmd' = "none" /\ reply' = <<0, 0>>

\* The operation ends with an error, in the recovery after putting the
\* events back; an initialisation that fails frees the device.
Fail ==
  /\ Goto(IF status # {} THEN "restore" ELSE IF op = "init" THEN "gone" ELSE "return")
  /\ ok' = FALSE

\* What follows the events.
Begin == CASE op = "info" -> "get_flash_info"
           [] op \in {"read", "write", "erase"} -> "move"

ProtocolReady == "DAEMON_READY" \in bmc_state /\ "FLASH_LOST" \notin bmc_state

WindowValid(p, l) ==
  /\ bmc_state \cap ({"FLASH_LOST"} \cup ACK_MASK) = {}
  /\ window_state # "closed"
  /\ p >= current.cur_pos
  /\ p + l <= current.cur_pos + current.size

-----------------------------------------------------------------------------
(* Calls and returns. *)

\* blocklevel_erase refuses what is not aligned.
Call(o, p, l) ==
  /\ pc = "idle" /\ op = "none"
  /\ o = "erase" => p % BlockSize = 0 /\ l % BlockSize = 0
  /\ Goto("events")
  /\ op' = o /\ pos' = p /\ len' = l /\ want' = p .. p + l - 1
  /\ ok' = TRUE
  /\ UNCHANGED <<ctx, size, status, at, bmc, done, late>>

Return ==
  /\ pc = "return"
  /\ Goto("idle")
  /\ \/ op # "info" /\ op' = "none"
     \/ op = "info" /\ ok /\ op' = "none"
     \/ op = "info" /\ op' = "exit"
  /\ pos' = 0 /\ len' = 0 /\ size' = 0 /\ at' = 0
  /\ win' = [win EXCEPT !.written = {}]
  /\ want' = {} /\ done' = {} /\ late' = FALSE
  /\ UNCHANGED <<ctx, status, ok, ready, lost, negotiated, sel, faults>>

\* flash_register's blocklevel_get_info, right after the initialisation;
\* when it, or something after it, fails, pnor_init has the device freed.
Probe ==
  /\ pc = "idle" /\ op = "init"
  /\ op' = "info" /\ Goto("events")
  /\ UNCHANGED <<ctx, pos, len, size, status, at, ok, bmc, ghost>>

ipmi_hiomap_exit ==
  /\ pc = "idle" /\ op = "exit"
  /\ Goto("reset")
  /\ UNCHANGED <<ctx, op, pos, len, size, status, at, ok, bmc, ghost>>

-----------------------------------------------------------------------------
(* Events. *)

\* Mutant of hiomap_event: resets that have not been handled are forgotten.
EventReplaces ==
  /\ sel # << >>
  /\ sel' = Tail(sel)
  /\ bmc_state' = IF registered THEN Head(sel) ELSE bmc_state
  /\ UNCHANGED <<window_state, current, registered, pc, locals, ready, lost, negotiated, win,
                 faults, ghost>>

\* On any CPU; an event nobody is registered for is dropped.
hiomap_event ==
  /\ sel # << >>
  /\ sel' = Tail(sel)
  /\ bmc_state' = IF registered THEN Head(sel) \cup (bmc_state \cap ACK_MASK) ELSE bmc_state
  /\ UNCHANGED <<window_state, current, registered, pc, locals, ready, lost, negotiated, win,
                 faults, ghost>>

handle_events ==
  /\ pc = "events"
  /\ bmc_state' = bmc_state \ ACK_MASK
  /\ status' = bmc_state \cap ACK_MASK
  /\ window_state' = IF status' # {} THEN "closed" ELSE window_state
  /\ Goto(IF status' # {} THEN "ack" ELSE Begin)
  /\ UNCHANGED <<current, registered, op, pos, len, size, at, ok, bmc, ghost>>

\* Mutant of restore: the events of a recovery that failed are not put back.
Forget ==
  /\ pc = "restore"
  /\ status' = {}
  /\ Goto("return")
  /\ UNCHANGED <<ctx, op, pos, len, size, at, ok, bmc, ghost>>

restore ==
  /\ pc = "restore"
  /\ bmc_state' = bmc_state \cup status
  /\ status' = {}
  /\ Goto("return")
  /\ UNCHANGED <<window_state, current, registered, op, pos, len, size, at, ok, bmc, ghost>>

-----------------------------------------------------------------------------
(* Commands. *)

\* hiomap_queue_msg_sync, after the test of the window's state in those that
\* have one; the reset at exit goes out whatever the BMC's state is.
queue_msg_sync ==
  /\ pc \in Commands /\ cmd = "none"
  /\ IF \/ pc \in {"mark_dirty", "flush", "erase"} /\ window_state # "write"
        \/ pc # "reset" /\ ~ProtocolReady
     THEN Fail
     ELSE cmd' = "sent" /\ UNCHANGED <<pc, reply, ok>>
  /\ UNCHANGED <<ctx, op, pos, len, size, status, at, bmc, ghost>>

\* ipmi_hiomap_cmd_cb with an error, or with an answer it does not accept.
Failed ==
  /\ pc \in Commands \ {"reset"} /\ cmd = "bad"
  /\ Fail
  /\ UNCHANGED <<ctx, op, pos, len, size, status, at, bmc, ghost>>

Answered(c) == pc = c /\ cmd = "good"

Acked ==
  /\ Answered("ack")
  /\ IF op = "init" \/ "PROTOCOL_RESET" \in status
     THEN Goto("get_info") /\ UNCHANGED status
     ELSE Goto(Begin) /\ status' = {}
  /\ registered' = (registered \/ op = "init")
  /\ UNCHANGED <<bmc_state, window_state, current, op, pos, len, size, at, ok, bmc, ghost>>

GotInfo ==
  /\ Answered("get_info")
  /\ Goto("get_flash_info")
  /\ UNCHANGED <<ctx, op, pos, len, size, status, at, ok, bmc, ghost>>

\* The end of the initialisation, of the recovery or of get_info.
GotFlashInfo ==
  /\ Answered("get_flash_info")
  /\ status' = {}
  /\ Goto(IF op = "init" THEN "idle" ELSE IF status # {} THEN Begin ELSE "return")
  /\ UNCHANGED <<ctx, op, pos, len, size, at, ok, bmc, ghost>>

Kind == IF op = "read" THEN "read" ELSE "write"

\* hiomap_window_move up to its command.
window_move ==
  /\ pc = "move"
  /\ IF window_state = Kind /\ WindowValid(pos, len)
     THEN size' = len /\ Goto(IF op = "erase" THEN "erase" ELSE "access") /\ UNCHANGED window_state
     ELSE window_state' = "closed" /\ Goto("create") /\ UNCHANGED size
  /\ at' = 0
  /\ UNCHANGED <<bmc_state, current, registered, op, pos, len, status, ok, bmc, ghost>>

\* The callback with the new window, and the rest of hiomap_window_move.
Created ==
  /\ Answered("create")
  /\ current' = Window(blocks_to_bytes(reply[1]), blocks_to_bytes(reply[2]))
  /\ window_state' = Kind
  /\ LET end == current'.cur_pos + current'.size IN
       size' = IF pos + len > end THEN end - pos ELSE len
  /\ IF size' = 0
     THEN Fail
     ELSE Goto(IF op = "erase" THEN "erase" ELSE "access") /\ UNCHANGED ok
  /\ UNCHANGED <<bmc_state, registered, op, pos, len, status, at, bmc, ghost>>

\* The next chunk.
Advance ==
  /\ len' = len - size /\ pos' = pos + size
  /\ size' = 0 /\ at' = 0
  /\ Goto(IF len' = 0 THEN "return" ELSE "move")

Dirtied ==
  /\ Answered("mark_dirty") \/ Answered("erase")
  /\ Goto("flush")
  /\ UNCHANGED <<ctx, op, pos, len, size, status, at, ok, bmc, ghost>>

\* Mutant of Flushed: the answer to the flush is not looked at.
FlushedAnyway ==
  /\ pc = "flush" /\ cmd \in {"good", "bad"}
  /\ Advance
  /\ UNCHANGED <<ctx, op, status, ok, bmc, ghost>>

Flushed ==
  /\ Answered("flush")
  /\ Advance
  /\ UNCHANGED <<ctx, op, status, ok, bmc, ghost>>

\* Whatever the answer is, the device is freed.
Freed ==
  /\ pc = "reset" /\ cmd \in {"good", "bad"}
  /\ Goto("gone")
  /\ UNCHANGED <<ctx, op, pos, len, size, status, at, ok, bmc, ghost>>

-----------------------------------------------------------------------------
(* The window on the LPC bus, byte by byte. *)

InBounds == (pos - current.cur_pos) + size <= current.size

\* Where the next byte is, in the flash, as the BMC has the window.
Byte == win.first * BlockSize + (pos - current.cur_pos) + at

Accessing(o) == pc = "access" /\ op = o /\ at < size

Fault == faults < MaxFaults /\ faults' = faults + 1

\* lpc_fw_read or lpc_fw_write returns an error.
lpc_fw_fails ==
  /\ Accessing(op) /\ InBounds /\ (op = "write" => window_state = "write")
  /\ Fault /\ Fail
  /\ UNCHANGED <<ctx, op, pos, len, size, status, at, ready, lost, negotiated, win, sel, ghost>>

lpc_window_read ==
  /\ Accessing("read")
  /\ IF InBounds
     THEN /\ at' = at + 1
          /\ done' = IF win.kind # "closed" THEN done \cup {Byte} ELSE done
          /\ UNCHANGED <<pc, cmd, reply, ok>>
     ELSE Fail /\ UNCHANGED <<at, done>>
  /\ UNCHANGED <<ctx, op, pos, len, size, status, bmc, want, late>>

lpc_window_write ==
  /\ Accessing("write")
  /\ IF window_state = "write" /\ InBounds
     THEN /\ at' = at + 1
          /\ win' = IF win.kind = "write" THEN [win EXCEPT !.written = @ \cup {Byte}] ELSE win
          /\ UNCHANGED <<pc, cmd, reply, ok>>
     ELSE Fail /\ UNCHANGED <<at, win>>
  /\ UNCHANGED <<ctx, op, pos, len, size, status, ready, lost, negotiated, sel, faults, ghost>>

\* "Check we can trust what we read".
trust ==
  /\ pc = "access" /\ op = "read" /\ at = size
  /\ \/ WindowValid(pos, size) /\ Advance /\ late' = (late \/ sel # << >>) /\ UNCHANGED ok
     \/ ~WindowValid(pos, size) /\ Fail /\ UNCHANGED <<pos, len, size, at, late>>
  /\ UNCHANGED <<ctx, op, status, bmc, want, done>>

wrote ==
  /\ pc = "access" /\ op = "write" /\ at = size
  /\ Goto("mark_dirty")
  /\ UNCHANGED <<ctx, op, pos, len, size, status, at, ok, bmc, ghost>>

-----------------------------------------------------------------------------
(* The BMC. *)

Serves(c) ==
  CASE c \in {"ack", "get_info", "reset"} -> ready
    [] c = "get_flash_info" -> ready /\ negotiated
    [] c = "create" -> ready /\ negotiated /\ ~lost
    [] OTHER -> ready /\ negotiated /\ ~lost /\ win.kind = "write"

\* The range of mark_dirty and erase, in blocks of the window.
First == bytes_to_blocks(pos - current.cur_pos)
Count == bytes_to_blocks_align_up(pos - current.cur_pos, size)

Told(w) == [w EXCEPT !.dirty = @ \cup Range(w.first + First, Count)]

Effect ==
  CASE pc = "get_info" -> negotiated' = TRUE /\ UNCHANGED <<win, done, reply>>
    [] pc = "create" ->
         /\ \E first \in 0..bytes_to_blocks(pos), last \in bytes_to_blocks(pos)..FlashBlocks - 1 :
              /\ reply' = <<first, last - first + 1>>
              /\ win' = [Closed EXCEPT !.kind = Kind, !.first = first, !.blocks = reply'[2]]
         /\ UNCHANGED <<negotiated, done>>
    [] pc = "mark_dirty" -> win' = Told(win) /\ UNCHANGED <<negotiated, done, reply>>
    [] pc = "erase" -> /\ win' = [Told(win) EXCEPT !.written = @ \cup Range(win.first + First, Count)]
                       /\ UNCHANGED <<negotiated, done, reply>>
    [] pc = "flush" -> /\ done' = done \cup (win.written \cap win.dirty)
                       /\ win' = [win EXCEPT !.dirty = {}]
                       /\ UNCHANGED <<negotiated, reply>>
    [] pc = "reset" -> win' = Closed /\ UNCHANGED <<negotiated, done, reply>>
    [] OTHER -> UNCHANGED <<negotiated, win, done, reply>>

Fits == pc \in {"mark_dirty", "erase"} => First + Count <= win.blocks

bmc_serve ==
  /\ cmd = "sent"
  /\ IF Serves(pc) /\ Fits
     THEN cmd' = "good" /\ Effect
     ELSE cmd' = "bad" /\ UNCHANGED <<negotiated, win, done, reply>>
  /\ UNCHANGED <<ctx, pc, op, pos, len, size, status, at, ok, ready, lost, sel, faults, want, late>>

\* The command or its answer gets lost, and times out.
bmc_lose ==
  /\ cmd = "sent" /\ Fault
  /\ cmd' = "bad"
  /\ (Serves(pc) /\ Fits /\ Effect) \/ UNCHANGED <<negotiated, win, done, reply>>
  /\ UNCHANGED <<ctx, pc, op, pos, len, size, status, at, ok, ready, lost, sel, want, late>>

Say(news) ==
  sel' = Append(sel, news \cup (IF ready' THEN {"DAEMON_READY"} ELSE {})
                          \cup (IF lost' THEN {"FLASH_LOST"} ELSE {}))

bmc_window_reset ==
  /\ ready /\ ~lost /\ Fault
  /\ win' = Closed
  /\ UNCHANGED <<ready, lost, negotiated>>
  /\ Say({"WINDOW_RESET"})
  /\ UNCHANGED <<ctx, pc, locals, ghost>>

bmc_stop ==
  /\ ready /\ Fault
  /\ ready' = FALSE /\ lost' = FALSE /\ negotiated' = FALSE /\ win' = Closed
  /\ Say({"PROTOCOL_RESET"})
  /\ UNCHANGED <<ctx, pc, locals, ghost>>

bmc_start ==
  /\ ~ready
  /\ ready' = TRUE
  /\ UNCHANGED <<lost, negotiated, win, faults>>
  /\ Say({})
  /\ UNCHANGED <<ctx, pc, locals, ghost>>

bmc_suspend ==
  /\ ready /\ ~lost /\ Fault
  /\ lost' = TRUE
  /\ UNCHANGED <<ready, negotiated, win>>
  /\ Say({})
  /\ UNCHANGED <<ctx, pc, locals, ghost>>

\* With the flash as it was, or with other contents.
bmc_resume ==
  /\ lost
  /\ lost' = FALSE
  /\ UNCHANGED <<ready, negotiated, faults, ctx, pc, locals, ghost>>
  /\ \/ Say({}) /\ UNCHANGED win
     \/ Say({"WINDOW_RESET"}) /\ win' = Closed

-----------------------------------------------------------------------------
Step ==
  \/ Return \/ Probe \/ ipmi_hiomap_exit \/ handle_events \/ restore
  \/ queue_msg_sync \/ Failed \/ Acked \/ GotInfo \/ GotFlashInfo
  \/ window_move \/ Created \/ Dirtied \/ Flushed \/ Freed
  \/ lpc_window_read \/ lpc_window_write \/ trust \/ wrote

Calls == \E o \in {"read", "write", "erase"}, s \in Spans : Call(o, s[1], s[2])

Next ==
  \/ Step \/ Calls \/ hiomap_event
  \/ lpc_fw_fails
  \/ bmc_serve \/ bmc_lose \/ bmc_window_reset \/ bmc_stop \/ bmc_start
  \/ bmc_suspend \/ bmc_resume

Spec == Init /\ [][Next]_vars

\* The CPU goes on, the host tries again, the BMC answers, tells its events
\* and comes back after it has stopped or suspended.
FairSpec ==
  /\ Spec
  /\ WF_vars(Step) /\ WF_vars(Calls) /\ WF_vars(hiomap_event)
  /\ WF_vars(bmc_serve) /\ WF_vars(bmc_start) /\ WF_vars(bmc_resume)

-----------------------------------------------------------------------------
(* Properties. *)

TypeOK ==
  /\ bmc_state \subseteq ACK_MASK \cup {"DAEMON_READY", "FLASH_LOST"}
  /\ window_state \in {"closed", "read", "write"}
  /\ status \subseteq ACK_MASK /\ pos \in Nat /\ len \in Nat /\ size \in Nat
  /\ cmd \in {"none", "sent", "good", "bad"}
  /\ win.dirty \subseteq Bytes /\ done \subseteq Bytes

\* A read that succeeds has read every byte from a window the BMC still had
\* open, at the place in the flash it was asked for: unless an event was
\* still on its way when ipmi_hiomap_read tested the window.
ReadTrusted ==
  /\ TypeOK
  /\ pc = "return" /\ ok /\ op = "read" /\ ~late => want \subseteq done

\* A write or an erase that succeeds has brought every byte to the flash,
\* whatever the BMC closed between the accesses, mark_dirty and the flush.
\* No event has to arrive for it: the BMC refuses the command.
WriteReached == pc = "return" /\ ok /\ op \in {"write", "erase"} => want \subseteq done

\* No reset is forgotten for good: once the BMC stays up, and unless the
\* device is freed when it is set up, operations succeed again, the protocol
\* is negotiated anew and the window opened anew, whichever step of
\* ipmi_hiomap_handle_events failed before.
Recovers ==
  <>[](pc = "gone")
    \/ \A o \in {"read", "write", "erase"} : []<>(op = o) => []<>(pc = "return" /\ ok /\ op = o)
=============================================================================
