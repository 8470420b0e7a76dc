------------------------------- MODULE SbeMbox ------------------------------
(***************************************************************************)
(* The mailbox of the Self Boot Engine of one chip (hw/sbe-p9.c): a queue  *)
(* of messages whose head is in flight, acknowledged and answered through  *)
(* a doorbell register.                                                    *)
(*                                                                         *)
(* sbe->lock is held from one step to the next and is dropped where the    *)
(* code drops it, around the completion function of a message.  The SBE is *)
(* external: it reads the command register, rings the host's doorbell, may *)
(* be slow and may be reset.                                               *)
(***************************************************************************)
EXTENDS Naturals, SequencesExt, Cpus

CONSTANTS
  Msgs,
  RespMsgs,    \* messages that expect a response
  CompMsgs,    \* messages with a completion function; the others are sent
               \* by p9_sbe_sync_msg
  NoMsg,
  Troubles,    \* the sets of troubles a behaviour may meet, see trouble
  RetryMax,    \* the 3 of "retry_cnt++ >= 3"
  MaxResets,   \* bound: resets of the SBE
  MaxQueued(_) \* bound: messages queued in a behaviour

ASSUME SbeMboxAssumption ==
  /\ RespMsgs \subseteq Msgs /\ CompMsgs \subseteq Msgs
  /\ NoCpu \notin CPUs /\ NoMsg \notin Msgs
  /\ Troubles \subseteq SUBSET {"xscom", "timeout", "reset"}
  /\ {RetryMax, MaxResets} \cup {MaxQueued(t) : t \in Troubles} \subseteq Nat

VARIABLES
  trouble,    \* what may happen: xscom accesses fail, the SBE takes longer
              \* than SBE_CMD_TIMEOUT_MAX, the SBE is reset
  lock,       \* owner of sbe->lock
  msg_list,   \* queue of messages
  state,      \* sbe->state
  mstate,     \* msg->state
  inuse,      \* messages handed to the driver and not given back
  pc,         \* where each CPU is; "run" is outside the driver
  loc,        \* its locals: message being completed and its final state,
              \* retry_cnt, where p9_sbe_msg_complete returns to, whether it
              \* came from p9_sbe_timeout_poll_one
  cmd,        \* message in the command registers the SBE has not read
  working,    \* message the SBE prepares a response for
  doorbell,   \* bits of PSU_HOST_DOORBELL_REG
  resets, queued

driver == <<msg_list, state, mstate, inuse>>
sbe == <<cmd, working, doorbell, resets>>
moving == <<lock, driver, pc, loc, sbe, queued>>
vars == <<trouble, moving>>

NoLoc == [msg |-> NoMsg, final |-> "unused", retry |-> 0, ret |-> "run",
          poll |-> FALSE]

Init ==
  /\ trouble \in Troubles
  /\ lock = NoCpu
  /\ msg_list = <<>>
  /\ state = "idle"
  /\ mstate = [m \in Msgs |-> "unused"]
  /\ inuse = {}
  /\ pc = [c \in CPUs |-> "run"]
  /\ loc = [c \in CPUs |-> NoLoc]
  /\ cmd = NoMsg /\ working = NoMsg
  /\ doorbell = {}
  /\ resets = 0 /\ queued = 0

-----------------------------------------------------------------------------
Goto(c, where) == pc' = [pc EXCEPT ![c] = where]

\* Mutant of p9_sbe_msg_busy: a message that waits for its response counts as
\* finished.
BusyForgetsResponse(m) == mstate[m] \in {"queued", "sent"}

p9_sbe_mbox_busy == state # "idle"
p9_sbe_msg_busy(m) == mstate[m] \in {"queued", "sent", "wresp"}

\* unlock(&sbe->lock) and return.
Unlock(c) ==
  /\ lock' = NoCpu
  /\ Goto(c, "run")
  /\ loc' = [loc EXCEPT ![c] = NoLoc]

\* Call of p9_sbe_msg_complete(msg, final), which returns to ret.
Complete(c, m, final, ret) ==
  /\ Goto(c, "complete")
  /\ loc' = [loc EXCEPT ![c].msg = m, ![c].final = final, ![c].ret = ret]

\* p9_sbe_queue_msg up to p9_sbe_process_queue.
p9_sbe_queue_msg(c, m) ==
  /\ pc[c] = "run" /\ lock = NoCpu
  /\ m \notin inuse
  /\ queued < MaxQueued(trouble) /\ queued' = queued + 1
  /\ lock' = c
  /\ inuse' = inuse \cup {m}
  /\ mstate' = [mstate EXCEPT ![m] = "queued"]
  /\ msg_list' = Append(msg_list, m)
  /\ Goto(c, "process")
  /\ UNCHANGED <<state, loc, cmd, working, doorbell, resets>>

\* p9_sbe_process_queue does nothing while a message is in flight.
process_busy(c) ==
  /\ pc[c] = "process" /\ p9_sbe_mbox_busy
  /\ Unlock(c)
  /\ UNCHANGED <<driver, sbe, queued>>

\* Mutant of process_idle: the state of the mailbox is not looked at.
ProcessAlways(c) ==
  /\ pc[c] = "process"
  /\ Goto(c, "send")
  /\ loc' = [loc EXCEPT ![c].retry = 0]
  /\ UNCHANGED <<lock, driver, sbe, queued>>

process_idle(c) ==
  /\ pc[c] = "process" /\ ~p9_sbe_mbox_busy
  /\ Goto(c, "send")
  /\ loc' = [loc EXCEPT ![c].retry = 0]
  /\ UNCHANGED <<lock, driver, sbe, queued>>

\* The loop of p9_sbe_process_queue: nothing (more) to send.
send_none(c) ==
  /\ pc[c] = "send" /\ msg_list = <<>>
  /\ Unlock(c)
  /\ UNCHANGED <<driver, sbe, queued>>

\* p9_sbe_msg_send: command registers, doorbell, states.
p9_sbe_msg_send(c) ==
  /\ pc[c] = "send" /\ msg_list # <<>>
  /\ cmd' = Head(msg_list)
  /\ state' = "send"
  /\ mstate' = [mstate EXCEPT ![Head(msg_list)] = "sent"]
  /\ Unlock(c)
  /\ UNCHANGED <<msg_list, inuse, working, doorbell, resets, queued>>

\* A failed p9_sbe_msg_send completes the message with an error.
send_fails(c) ==
  /\ "xscom" \in trouble
  /\ pc[c] = "send" /\ msg_list # <<>>
  /\ Complete(c, Head(msg_list), "error", "retry")
  /\ UNCHANGED <<lock, driver, sbe, queued>>

\* After that the loop goes on, RetryMax more times.
send_retry(c) ==
  /\ pc[c] = "retry"
  /\ \/ loc[c].retry >= RetryMax /\ Unlock(c)
     \/ /\ loc[c].retry < RetryMax
        /\ Goto(c, "send")
        /\ loc' = [loc EXCEPT ![c].retry = @ + 1]
        /\ UNCHANGED lock
  /\ UNCHANGED <<driver, sbe, queued>>

-----------------------------------------------------------------------------
\* p9_sbe_msg_complete: list_del().
complete_unlink(c) ==
  /\ pc[c] = "complete"
  /\ msg_list' = RemoveFirst(msg_list, loc[c].msg)
  /\ Goto(c, "unlinked")
  /\ UNCHANGED <<lock, state, mstate, inuse, loc, sbe, queued>>

\* ... the state, from which on the message is its owner's again: p9_sbe_sync_msg
\* may return and, of a message with a completion function, p9_sbe_queue_msg may
\* be called anew.  The lock is dropped for that function.
complete_state(c) ==
  LET m == loc[c].msg IN
  /\ pc[c] = "unlinked"
  /\ mstate' = [mstate EXCEPT ![m] = loc[c].final]
  /\ \/ m \in CompMsgs /\ inuse' = inuse \ {m} /\ lock' = NoCpu /\ Goto(c, "comp")
     \/ m \notin CompMsgs /\ UNCHANGED <<inuse, lock>> /\ Goto(c, loc[c].ret)
  /\ UNCHANGED <<msg_list, state, loc, sbe, queued>>

\* The completion function has returned.
complete_relock(c) ==
  /\ pc[c] = "comp" /\ lock = NoCpu
  /\ lock' = c
  /\ Goto(c, loc[c].ret)
  /\ UNCHANGED <<driver, loc, sbe, queued>>

\* p9_sbe_sync_msg: the message is not busy any more, it may be freed.
p9_sbe_sync_msg(m) ==
  /\ m \in inuse \ CompMsgs
  /\ ~p9_sbe_msg_busy(m)
  /\ inuse' = inuse \ {m}
  /\ UNCHANGED <<lock, msg_list, state, mstate, pc, loc, sbe, queued>>

\* Mutant of p9_sbe_cancelmsg: a message in flight is taken out, too.
CancelInFlight(c, m) ==
  /\ pc[c] = "run" /\ lock = NoCpu
  /\ m \in inuse \cap CompMsgs
  /\ p9_sbe_msg_busy(m)
  /\ msg_list' = RemoveFirst(msg_list, m)
  /\ mstate' = [mstate EXCEPT ![m] = "done"]
  /\ inuse' = inuse \ {m}
  /\ UNCHANGED <<lock, state, pc, loc, sbe, queued>>

\* p9_sbe_cancelmsg: only a message that waits in the queue is taken out.
p9_sbe_cancelmsg(c, m) ==
  /\ pc[c] = "run" /\ lock = NoCpu
  /\ m \in inuse \cap CompMsgs
  /\ mstate[m] = "queued"
  /\ msg_list' = RemoveFirst(msg_list, m)
  /\ mstate' = [mstate EXCEPT ![m] = "done"]
  /\ inuse' = inuse \ {m}
  /\ UNCHANGED <<lock, state, pc, loc, sbe, queued>>

-----------------------------------------------------------------------------
\* p9_sbe_interrupt up to __p9_sbe_interrupt.
p9_sbe_interrupt(c) ==
  /\ pc[c] = "run" /\ lock = NoCpu
  /\ doorbell # {}
  /\ lock' = c
  /\ Goto(c, "again")
  /\ UNCHANGED <<driver, loc, sbe, queued>>

\* p9_sbe_timeout_poll_one: the peek without the lock, then the same.
p9_sbe_timeout_poll_one(c) ==
  /\ pc[c] = "run" /\ lock = NoCpu
  /\ msg_list # <<>>
  /\ lock' = c
  /\ loc' = [loc EXCEPT ![c].poll = TRUE]
  /\ Goto(c, "again")
  /\ UNCHANGED <<driver, sbe, queued>>

\* What follows __p9_sbe_interrupt in its two callers.
AfterInterrupt(c) == IF loc[c].poll THEN "timeout" ELSE "process"

\* __p9_sbe_interrupt: no bit left, or the doorbell cannot be read or
\* cleared.
doorbell_end(c) ==
  /\ pc[c] = "again"
  /\ doorbell = {} \/ "xscom" \in trouble
  /\ Goto(c, AfterInterrupt(c))
  /\ UNCHANGED <<lock, driver, loc, sbe, queued>>

\* SBE_HOST_RESET: all bits are cleared and the head will be sent again.
doorbell_reset(c) ==
  /\ pc[c] = "again" /\ "reset" \in doorbell
  /\ doorbell' = {}
  /\ state' = "idle"
  /\ mstate' = IF msg_list = <<>> THEN mstate
               ELSE [mstate EXCEPT ![Head(msg_list)] = "queued"]
  /\ Goto(c, AfterInterrupt(c))
  /\ UNCHANGED <<lock, msg_list, inuse, loc, cmd, working, resets, queued>>

\* SBE_HOST_MSG_READ: p9_sbe_send_complete.
p9_sbe_send_complete(c) ==
  LET m == Head(msg_list) IN
  /\ pc[c] = "again" /\ "reset" \notin doorbell /\ "read" \in doorbell
  /\ doorbell' = doorbell \ {"read"}
  /\ \/ msg_list = <<>> /\ UNCHANGED <<state, mstate, pc, loc>>
     \/ /\ msg_list # <<>> /\ m \in RespMsgs
        /\ mstate' = [mstate EXCEPT ![m] = "wresp"]
        /\ UNCHANGED <<state, pc, loc>>
     \/ /\ msg_list # <<>> /\ m \notin RespMsgs
        /\ state' = "idle"
        /\ Complete(c, m, "done", "again")
        /\ UNCHANGED mstate
  /\ UNCHANGED <<lock, msg_list, inuse, cmd, working, resets, queued>>

\* SBE_HOST_RESPONSE_WAITING: the head is answered.
doorbell_response(c) ==
  /\ pc[c] = "again" /\ {"reset", "read"} \cap doorbell = {}
  /\ "response" \in doorbell
  /\ doorbell' = doorbell \ {"response"}
  /\ state' = "idle"
  /\ \/ msg_list = <<>> /\ UNCHANGED <<pc, loc>>
     \/ msg_list # <<>> /\ Complete(c, Head(msg_list), "done", "again")
  /\ UNCHANGED <<lock, msg_list, mstate, inuse, cmd, working, resets, queued>>

\* The rest of p9_sbe_timeout_poll_one: nothing queued, or the head has not
\* timed out.
timeout_none(c) ==
  /\ pc[c] = "timeout"
  /\ msg_list = <<>> \/ p9_sbe_mbox_busy
  /\ Unlock(c)
  /\ UNCHANGED <<driver, sbe, queued>>

\* Mutant of timeout_unsent: the poll looks after messages in flight only.
UnsentLeft(c) ==
  /\ pc[c] = "timeout"
  /\ msg_list # <<>> /\ ~p9_sbe_mbox_busy
  /\ Unlock(c)
  /\ UNCHANGED <<driver, sbe, queued>>

\* ... the head was not sent.
timeout_unsent(c) ==
  /\ pc[c] = "timeout"
  /\ msg_list # <<>> /\ ~p9_sbe_mbox_busy
  /\ Goto(c, "process")
  /\ UNCHANGED <<lock, driver, loc, sbe, queued>>

\* ... the head has timed out.
timeout_expired(c) ==
  /\ "timeout" \in trouble
  /\ pc[c] = "timeout"
  /\ msg_list # <<>> /\ p9_sbe_mbox_busy
  /\ state' = "idle"
  /\ Complete(c, Head(msg_list), "timeout", "process")
  /\ UNCHANGED <<lock, msg_list, mstate, inuse, sbe, queued>>

-----------------------------------------------------------------------------
\* The SBE reads the command and acknowledges it.
SbeRead ==
  /\ cmd # NoMsg
  /\ cmd' = NoMsg
  /\ doorbell' = doorbell \cup {"read"}
  /\ working' = IF cmd \in RespMsgs THEN cmd ELSE working
  /\ UNCHANGED <<lock, driver, pc, loc, resets, queued>>

SbeRespond ==
  /\ working # NoMsg
  /\ working' = NoMsg
  /\ doorbell' = doorbell \cup {"response"}
  /\ UNCHANGED <<lock, driver, pc, loc, cmd, resets, queued>>

\* The SBE loses what it was doing and comes back.
SbeReset ==
  /\ "reset" \in trouble /\ resets < MaxResets
  /\ resets' = resets + 1
  /\ cmd' = NoMsg /\ working' = NoMsg
  /\ doorbell' = doorbell \cup {"reset"}
  /\ UNCHANGED <<lock, driver, pc, loc, queued>>

-----------------------------------------------------------------------------
\* Steps of code a CPU is in the middle of.
CpuStep(c) ==
  \/ process_busy(c) \/ process_idle(c)
  \/ send_none(c) \/ p9_sbe_msg_send(c) \/ send_fails(c) \/ send_retry(c)
  \/ complete_unlink(c) \/ complete_state(c) \/ complete_relock(c)
  \/ doorbell_end(c) \/ doorbell_reset(c) \/ p9_sbe_send_complete(c)
  \/ doorbell_response(c)
  \/ timeout_none(c) \/ timeout_unsent(c) \/ timeout_expired(c)

Next ==
  /\ \/ SbeRead \/ SbeRespond \/ SbeReset
     \/ \E m \in Msgs : p9_sbe_sync_msg(m)
     \/ \E c \in CPUs :
          \/ CpuStep(c) \/ p9_sbe_interrupt(c) \/ p9_sbe_timeout_poll_one(c)
          \/ \E m \in Msgs : p9_sbe_queue_msg(c, m) \/ p9_sbe_cancelmsg(c, m)
  /\ UNCHANGED trouble

Spec == Init /\ [][Next]_vars

\* Code that runs goes on, the OS keeps polling, and time passes: a message
\* whose timeout is looked at over and over is found expired in the end.  The
\* SBE owes nothing.
FairSpec ==
  /\ Spec
  /\ \A c \in CPUs : WF_moving(CpuStep(c)) /\ SF_moving(timeout_expired(c))
                     /\ SF_moving(complete_relock(c))
  /\ SF_moving(\E c \in CPUs : p9_sbe_timeout_poll_one(c))

-----------------------------------------------------------------------------
\* The types of the queue, the messages and the CPUs.
TypeOK ==
  /\ trouble \in Troubles
  /\ lock \in CPUs \cup {NoCpu}
  /\ msg_list \in Seq(Msgs)
  /\ state \in {"idle", "send"}
  /\ mstate \in [Msgs -> {"unused", "queued", "sent", "wresp", "done",
                          "timeout", "error"}]
  /\ inuse \subseteq Msgs
  /\ pc \in [CPUs -> {"run", "process", "send", "retry", "complete", "unlinked",
                      "comp", "again", "timeout"}]
  /\ \A c \in CPUs : loc[c].msg \in Msgs \cup {NoMsg} /\ loc[c].retry \in 0..RetryMax
  /\ {cmd, working} \subseteq Msgs \cup {NoMsg}
  /\ doorbell \subseteq {"reset", "read", "response"}
  /\ resets \in 0..MaxResets /\ queued \in 0..MaxQueued(trouble)

\* The types; and a message whose owner has it back is not on the queue and no CPU will
\* touch it: p9_sbe_sync_msg looks at msg->state without the lock and frees
\* the message at once, and owners queue a completed message again.
GivenBackMeansGone ==
  /\ TypeOK
  /\ \A m \in Msgs \ inuse :
       /\ ~Contains(msg_list, m)
       /\ \A c \in CPUs : pc[c] \in {"complete", "unlinked"} => loc[c].msg # m

\* "Only one command is accepted in the command buffer until response to the
\* command is enqueued in the response buffer by SBE": a message is sent only
\* when the SBE is through with the one before, although sbe->lock is dropped
\* for completion functions in the middle of the doorbell loop.  It is not so
\* with failing xscom accesses, when the sending loop drops the lock, too, and
\* goes on without another look at the state; and nothing tells how far the SBE
\* is after a timeout or a reset.
OneCommandCalm ==
  [][(\E c \in CPUs : p9_sbe_msg_send(c)) /\ trouble = {}
       => cmd = NoMsg /\ working = NoMsg]_vars

\* "Head of msg_list contains in-flight message": while the mailbox is busy
\* the head is the message that was sent, and nothing behind it was, through
\* timeouts and resets, as long as xscom works.
HeadInFlight ==
  lock = NoCpu /\ "xscom" \notin trouble =>
    /\ p9_sbe_mbox_busy => msg_list # <<>> /\ mstate[Head(msg_list)] \in {"sent", "wresp"}
    /\ \A i \in 2..Len(msg_list) : mstate[msg_list[i]] = "queued"

\* Every message is completed in the end, also by a dead SBE, as long as
\* xscom works and time passes.
AllComplete ==
  "xscom" \notin trouble /\ "timeout" \in trouble => []<>(msg_list = <<>>)
=============================================================================
