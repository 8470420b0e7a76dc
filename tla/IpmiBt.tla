-------------------------------- MODULE IpmiBt ------------------------------
(***************************************************************************)
(* IPMI messages to the BMC: the core (core/ipmi.c), with its synchronous  *)
(* messages, on top of the BT driver (hw/bt.c) with its two queues, the    *)
(* message in flight, timeouts, a retry and the reset of the interface.    *)
(*                                                                         *)
(* bt.lock is dropped whenever a message is completed, by bt_msg_del in    *)
(* the middle of adding or expiring another one and by bt_get_resp in the  *)
(* middle of bt_poll; a CPU then goes on with the lock taken anew.  A      *)
(* message is an address; completing it frees it, so that the address may  *)
(* come back as another message.                                           *)
(***************************************************************************)
EXTENDS Integers, Sequences, FiniteSets, SequencesExt

CONSTANTS
  CPUs, NoCpu,
  Addresses,       \* bound: bt_msgs at a time
  Seqs,            \* 256: seq is a uint8_t
  Counts,          \* 256: send_count and max_retries are uint8_t
  Settings         \* bound: values of max_queue, booting, max_retries, trouble,
                   \* messages

ASSUME IpmiBtAssumption ==
  /\ IsFiniteSet(CPUs) /\ NoCpu \notin CPUs /\ Addresses \in Nat
  /\ Seqs \in Nat \ {0} /\ Counts \in Nat \ {0}
  /\ \A s \in Settings :
       /\ s.max_queue \in Nat
       /\ s.booting \in BOOLEAN /\ s.max_retries \in 0..Counts - 1
       /\ s.trouble \subseteq {"reuse", "drop", "late", "attention"}
       /\ s.messages \in Nat \ {0}

VARIABLES
  msgq, msgq_sync, inflight, queue_len, lock,     \* struct bt
  ipmi_seq, seq, send_count, disable_retry,
  aged,            \* the message in flight is older than the timeout
  sync_msg, sync_lock,
  fifo, h2b, b2h, sms,   \* the interface; a request or response is the
                         \* number of its message and a sequence number
  work,            \* requests the BMC is working on
  pc, new, head, old, then, own, again,   \* of each CPU: locals
  id,              \* the message at each address: 0 if free, -1 if used up
  made,            \* messages so far
  mixed,           \* a message was completed with another one's response
  selfout,         \* a message was thrown out of the queue to make room for itself
  max_queue,       \* BT_MAX_QUEUE_LEN
  booting,         \* opal_booting()
  max_retries,     \* bt.caps.max_retries, which the BMC tells
  trouble,         \* what may occur, of "reuse", "drop", "late", "attention"
  messages         \* how many messages there are

queues == <<msgq, msgq_sync, inflight, queue_len>>
fields == <<ipmi_seq, seq, send_count, disable_retry, aged>>
sync == <<sync_msg, sync_lock>>
wire == <<fifo, h2b, b2h, sms, work>>
locals == <<new, head, old, then, own, again>>
ghost == <<id, made, mixed, selfout>>
moving == <<queues, lock, fields, sync, wire, pc, locals, ghost>>
frozen == <<max_queue, booting, max_retries, trouble, messages>>
vars == <<moving, frozen>>

Msgs == 1..Addresses
NoMsg == 0
Nothing == [id |-> 0, seq |-> 0]

Init ==
  /\ msgq = <<>> /\ msgq_sync = <<>> /\ inflight = NoMsg /\ queue_len = 0 /\ lock = NoCpu
  /\ ipmi_seq = 0 /\ aged = FALSE
  /\ seq = [m \in Msgs |-> 0]
  /\ send_count = [m \in Msgs |-> 0]
  /\ disable_retry = [m \in Msgs |-> FALSE]
  /\ sync_msg = NoMsg /\ sync_lock = NoCpu
  /\ fifo = Nothing /\ h2b = FALSE /\ b2h = Nothing /\ sms = FALSE /\ work = {}
  /\ pc = [c \in CPUs |-> "idle"]
  /\ new = [c \in CPUs |-> NoMsg] /\ old = [c \in CPUs |-> NoMsg]
  /\ own = [c \in CPUs |-> NoMsg]
  /\ head = [c \in CPUs |-> FALSE]
  /\ then = [c \in CPUs |-> "idle"]
  /\ again = [c \in CPUs |-> FALSE]
  /\ id = [m \in Msgs |-> 0] /\ made = 0
  /\ mixed = FALSE /\ selfout = FALSE
  /\ \E s \in Settings :
       /\ max_queue = s.max_queue
       /\ booting = s.booting /\ max_retries = s.max_retries
       /\ trouble = s.trouble /\ messages = s.messages

Goto(c, where) == pc' = [pc EXCEPT ![c] = where]
Set(f, x, v) == [f EXCEPT ![x] = v]

\* c is at that place, and it or nobody has bt.lock: a CPU that has the lock
\* goes on until it drops it; what the others and the BMC do meanwhile, they
\* may as well do before or after.
At(c, where) == pc[c] = where /\ lock \in {NoCpu, c}

-----------------------------------------------------------------------------
(* Completing a message: ipmi_cmd_done, outside of bt.lock. *)

\* Mutant of Complete: a message that is thrown out stays in flight.
LeftInFlight(c, m, next) ==
  /\ msgq' = RemoveFirst(msgq, m) /\ msgq_sync' = RemoveFirst(msgq_sync, m)
  /\ inflight' = IF next = "link" THEN inflight ELSE NoMsg
  /\ aged' = (aged /\ m # inflight)
  /\ lock' = NoCpu
  /\ old' = Set(old, c, m) /\ then' = Set(then, c, next)
  /\ Goto(c, "done")

\* Message m leaves the queues; c completes it and goes on with next.
Complete(c, m, next) ==
  /\ msgq' = RemoveFirst(msgq, m) /\ msgq_sync' = RemoveFirst(msgq_sync, m)
  /\ inflight' = IF m = inflight THEN NoMsg ELSE inflight
  /\ aged' = (aged /\ m # inflight)
  /\ lock' = NoCpu
  /\ old' = Set(old, c, m) /\ then' = Set(then, c, next)
  /\ Goto(c, "done")

\* The complete or error function, which frees the message; what zalloc will
\* clear is cleared here.
callback(c) ==
  /\ At(c, "done")
  /\ id' = Set(id, old[c], IF "reuse" \in trouble THEN 0 ELSE -1)
  /\ seq' = Set(seq, old[c], 0) /\ send_count' = Set(send_count, old[c], 0)
  /\ disable_retry' = Set(disable_retry, old[c], FALSE)
  /\ Goto(c, "compare")
  /\ UNCHANGED <<queues, lock, ipmi_seq, aged, sync, wire, locals, made, mixed, selfout, frozen>>

\* Mutant of cmd_done: only a response ends the wait.
DoneByResponse(c) ==
  /\ At(c, "compare")
  /\ sync_msg' = IF sync_msg = old[c] /\ then[c] = "expire" THEN NoMsg ELSE sync_msg
  /\ old' = Set(old, c, NoMsg)
  /\ then' = Set(then, c, "idle")
  /\ Goto(c, then[c])
  /\ UNCHANGED <<queues, lock, fields, sync_lock, wire, new, head, own, again, ghost, frozen>>

\* Then: was it the synchronous message?
cmd_done(c) ==
  /\ At(c, "compare")
  /\ sync_msg' = IF sync_msg = old[c] THEN NoMsg ELSE sync_msg
  /\ old' = Set(old, c, NoMsg)
  /\ then' = Set(then, c, "idle")
  /\ Goto(c, then[c])
  /\ UNCHANGED <<queues, lock, fields, sync_lock, wire, new, head, own, again, ghost, frozen>>

-----------------------------------------------------------------------------
(* Sending. *)

\* What bt_send_msg does to the interface and to message m.
Send(m, count) ==
  /\ fifo' = [id |-> id[m], seq |-> seq[m]] /\ h2b' = TRUE
  /\ send_count' = Set(send_count, m, count)

\* The message that is next: synchronous ones first.
Top == IF msgq_sync # <<>> THEN Head(msgq_sync)
       ELSE IF msgq # <<>> THEN Head(msgq) ELSE NoMsg

\* bt_idle: the BMC has taken the last request.
bt_send_and_unlock(c) ==
  /\ At(c, "send")
  /\ lock' = NoCpu
  /\ IF inflight = NoMsg /\ Top # NoMsg
     THEN /\ inflight' = Top
          /\ aged' = FALSE
          /\ IF ~h2b /\ send_count[Top] = 0
             THEN Send(Top, 1 % Counts)
             ELSE UNCHANGED <<fifo, h2b, send_count>>
     ELSE UNCHANGED <<inflight, aged, fifo, h2b, send_count>>
  /\ sync_lock' = IF sync_lock = c THEN NoCpu ELSE sync_lock
  /\ again' = Set(again, c, FALSE)
  /\ Goto(c, IF again[c] THEN "send" ELSE IF own[c] # NoMsg THEN "wait" ELSE "idle")
  /\ UNCHANGED <<msgq, msgq_sync, queue_len, ipmi_seq, seq, disable_retry, sync_msg, b2h, sms,
                 work, new, head, old, then, own, ghost, frozen>>

\* The message that has to go for m to be added: the last one of a queue, or m
\* itself if there is none, for all that queue_len counts may be with CPUs that
\* have made room and have yet to link.
Victim(m) ==
  IF msgq # <<>> THEN Last(msgq)
  ELSE IF msgq_sync # <<>> THEN Last(msgq_sync) ELSE m

\* The end of bt_add_ipmi_msg and bt_add_ipmi_msg_head (h).
Link(c, m, h) ==
  /\ lock' = c
  /\ msgq' = IF h THEN msgq ELSE Append(msgq, m)
  /\ msgq_sync' = IF h THEN Append(msgq_sync, m) ELSE msgq_sync
  /\ new' = Set(new, c, NoMsg) /\ head' = Set(head, c, FALSE)
  /\ Goto(c, "send")

\* bt_add_msg: over the limit, a message is failed before this one is linked.
Add(c, m, h) ==
  /\ lock = NoCpu
  /\ seq' = Set(seq, m, ipmi_seq)
  /\ ipmi_seq' = (ipmi_seq + 1) % Seqs
  /\ \/ /\ queue_len < max_queue
        /\ queue_len' = queue_len + 1
        /\ Link(c, m, h)
        /\ UNCHANGED <<inflight, aged, old, then, selfout>>
     \/ /\ queue_len >= max_queue
        /\ queue_len' = queue_len
        /\ Complete(c, Victim(m), "link")
        /\ new' = Set(new, c, m) /\ head' = Set(head, c, h)
        /\ selfout' = (selfout \/ Victim(m) = m)
  /\ UNCHANGED <<send_count, disable_retry, sync, wire, own, again, mixed, frozen>>

bt_add_msg(c) ==
  /\ At(c, "add")
  /\ Add(c, new[c], head[c])
  /\ UNCHANGED <<id, made>>

bt_link(c) ==
  /\ At(c, "link") /\ lock = NoCpu
  /\ Link(c, new[c], head[c])
  /\ UNCHANGED <<inflight, queue_len, fields, sync, wire, old, then, own, again, ghost, frozen>>

\* ipmi_mkmsg: the first free address; zalloc has cleared it.
Make(m) ==
  /\ made < messages /\ id[m] = 0 /\ \A n \in 1..m - 1 : id[n] # 0
  /\ made' = made + 1
  /\ id' = Set(id, m, made + 1)

\* ipmi_queue_msg, ipmi_queue_msg_head.
ipmi_queue_msg(c) ==
  /\ At(c, "idle")
  /\ \E m \in Msgs, h \in BOOLEAN : Make(m) /\ Add(c, m, h)

\* ipmi_queue_msg_sync: the message is made first, ...
make_sync(c) ==
  /\ At(c, "idle")
  /\ \E m \in Msgs : Make(m) /\ new' = Set(new, c, m)
  /\ head' = Set(head, c, TRUE)
  /\ Goto(c, "sync")
  /\ UNCHANGED <<queues, lock, fields, sync, wire, old, then, own, again, mixed, selfout,
                 frozen>>

\* Mutant of ipmi_queue_msg_sync: the last synchronous message is not waited for.
SyncAtOnce(c) ==
  /\ At(c, "sync") /\ sync_lock = NoCpu
  /\ sync_lock' = c
  /\ sync_msg' = new[c] /\ own' = Set(own, c, new[c])
  /\ disable_retry' = Set(disable_retry, new[c], ~booting)
  /\ Goto(c, "add")
  /\ UNCHANGED <<queues, lock, ipmi_seq, seq, send_count, aged, wire, new, head, old, then, again,
                 ghost, frozen>>

\* ... then sync_lock, the end of another synchronous message, ...
ipmi_queue_msg_sync(c) ==
  /\ At(c, "sync") /\ sync_lock = NoCpu /\ sync_msg = NoMsg
  /\ sync_lock' = c
  /\ sync_msg' = new[c] /\ own' = Set(own, c, new[c])
  /\ disable_retry' = Set(disable_retry, new[c], ~booting)
  /\ Goto(c, "add")
  /\ UNCHANGED <<queues, lock, ipmi_seq, seq, send_count, aged, wire, new, head, old, then, again,
                 ghost, frozen>>

\* ... and, once it is queued, polling until it is done.  The number of the
\* message is kept for the properties.
sync_wait(c) ==
  /\ At(c, "wait")
  /\ \/ /\ sync_msg = own[c]
        /\ Goto(c, "poll")
        /\ UNCHANGED own
     \/ /\ sync_msg # own[c]
        /\ own' = Set(own, c, NoMsg)
        /\ Goto(c, "idle")
  /\ UNCHANGED <<queues, lock, fields, sync, wire, new, head, old, then, again, ghost, frozen>>

-----------------------------------------------------------------------------
(* bt_poll, of the timer, of an interrupt and of those who wait. *)

\* With the lock held, its parts that have nothing to do are passed over.
AfterExpire == IF sms THEN "sms" ELSE "send"
AfterResp == IF inflight # NoMsg /\ aged THEN "expire" ELSE AfterExpire

\* Mutant of Expected: whatever comes is the response.
AnyResponse == inflight # NoMsg

\* Is the response one to the message in flight?
Expected == inflight # NoMsg /\ seq[inflight] = b2h.seq

\* A response: for the message in flight, or for nobody (and then the FIFO,
\* too, is overwritten).
bt_get_resp(c) ==
  /\ (At(c, "idle") \/ At(c, "poll")) /\ lock = NoCpu
  /\ b2h' = Nothing
  /\ \/ /\ b2h = Nothing
        /\ lock' = c
        /\ Goto(c, AfterResp)
        /\ UNCHANGED <<queues, aged, fifo, old, then, mixed>>
     \/ /\ b2h # Nothing /\ ~Expected
        /\ fifo' = Nothing
        /\ lock' = c
        /\ Goto(c, AfterResp)
        /\ UNCHANGED <<queues, aged, old, then, mixed>>
     \/ /\ b2h # Nothing /\ Expected
        /\ mixed' = (mixed \/ b2h.id # id[inflight])
        /\ Complete(c, inflight, "expire")
        /\ queue_len' = queue_len - 1
        /\ UNCHANGED fifo
  /\ UNCHANGED <<ipmi_seq, seq, send_count, disable_retry, sync, h2b, sms, work, new, head, own,
                 again, id, made, selfout, frozen>>

\* A message that was not answered in time is sent once more, or failed.
bt_expire_old_msg(c) ==
  /\ At(c, "expire")
  /\ LET m == inflight IN
     \/ /\ m = NoMsg \/ ~aged
        /\ lock' = c
        /\ Goto(c, AfterExpire)
        /\ UNCHANGED <<queues, aged, send_count, fifo, h2b, old, then>>
     \/ /\ m # NoMsg /\ aged /\ send_count[m] <= max_retries /\ ~disable_retry[m]
        /\ IF send_count[m] = 0
           THEN Send(m, 2 % Counts)
           ELSE /\ h2b' = TRUE
                /\ send_count' = Set(send_count, m, (send_count[m] + 1) % Counts)
                /\ UNCHANGED fifo
        /\ aged' = FALSE
        /\ lock' = c
        /\ Goto(c, AfterExpire)
        /\ UNCHANGED <<queues, old, then>>
     \/ /\ m # NoMsg /\ aged /\ (send_count[m] > max_retries \/ disable_retry[m])
        /\ Complete(c, m, "reset")
        /\ queue_len' = queue_len - 1
        /\ UNCHANGED <<send_count, fifo, h2b>>
  /\ UNCHANGED <<ipmi_seq, seq, disable_retry, sync, b2h, sms, work, new, head, own, again,
                 ghost, frozen>>

\* bt_reset_interface; a BMC that takes it badly still answers afterwards.
bt_reset(c) ==
  /\ At(c, "reset")
  /\ lock' = c
  /\ fifo' = Nothing /\ h2b' = FALSE /\ b2h' = Nothing
  /\ work' = IF "late" \in trouble THEN work ELSE {}
  /\ Goto(c, AfterExpire)
  /\ UNCHANGED <<queues, fields, sync, sms, locals, ghost, frozen>>

\* SMS attention: a message of its own is queued, with the lock dropped.
bt_sms(c) ==
  /\ At(c, "sms")
  /\ sms' = FALSE /\ lock' = NoCpu
  /\ \/ /\ \E m \in Msgs : Make(m) /\ new' = Set(new, c, m)
        /\ again' = Set(again, c, TRUE)
        /\ Goto(c, "add")
     \/ /\ made = messages \/ \A m \in Msgs : id[m] # 0
        /\ Goto(c, "send")
        /\ UNCHANGED <<id, made, new, again>>
  /\ UNCHANGED <<queues, fields, sync, fifo, h2b, b2h, work, head, old, then, own, mixed,
                 selfout, frozen>>

-----------------------------------------------------------------------------
(* The BMC and the time. *)

\* It takes what is in the FIFO, to work on it or, in trouble, to drop it.
bmc_take ==
  /\ lock = NoCpu /\ h2b /\ h2b' = FALSE
  /\ \/ work' = IF fifo = Nothing THEN work ELSE work \cup {fifo}
     \/ "drop" \in trouble /\ UNCHANGED work
  /\ UNCHANGED <<queues, lock, fields, sync, fifo, b2h, sms, pc, locals, ghost, frozen>>

bmc_respond ==
  /\ lock = NoCpu /\ b2h = Nothing
  /\ \E r \in work : b2h' = r /\ work' = work \ {r}
  /\ UNCHANGED <<queues, lock, fields, sync, fifo, h2b, sms, pc, locals, ghost, frozen>>

bmc_attention ==
  /\ lock = NoCpu /\ "attention" \in trouble /\ ~sms /\ made < messages
  /\ sms' = TRUE
  /\ UNCHANGED <<queues, lock, fields, sync, fifo, h2b, b2h, work, pc, locals, ghost, frozen>>

tick ==
  /\ lock = NoCpu /\ inflight # NoMsg /\ ~aged
  /\ aged' = TRUE
  /\ UNCHANGED <<queues, lock, ipmi_seq, seq, send_count, disable_retry, sync, wire, pc, locals,
                 ghost, frozen>>

Work(c) ==
  \/ callback(c) \/ cmd_done(c) \/ bt_send_and_unlock(c) \/ bt_add_msg(c) \/ bt_link(c)
  \/ ipmi_queue_msg_sync(c) \/ sync_wait(c)
  \/ bt_get_resp(c) \/ bt_expire_old_msg(c) \/ bt_reset(c) \/ bt_sms(c)

Next ==
  \/ \E c \in CPUs : Work(c) \/ ipmi_queue_msg(c) \/ make_sync(c)
  \/ bmc_take \/ bmc_respond \/ bmc_attention \/ tick

Spec == Init /\ [][Next]_vars

\* CPUs go on and get their locks, time passes, somebody polls.  Nothing is
\* asked of the BMC.
FairSpec ==
  /\ Spec
  /\ \A c \in CPUs : SF_moving(Work(c))
  /\ SF_moving(tick)

-----------------------------------------------------------------------------
(* Properties. *)

TypeOK ==
  /\ \A q \in {msgq, msgq_sync} : q \in Seq(Msgs)
  /\ inflight \in Msgs \cup {NoMsg} /\ lock \in CPUs \cup {NoCpu}
  /\ queue_len \in 0..max_queue
  /\ seq \in [Msgs -> 0..Seqs - 1] /\ send_count \in [Msgs -> 0..Counts - 1]
  /\ work \subseteq [id : 1..messages, seq : 0..Seqs - 1]
  /\ id \in [Msgs -> -1..messages]

Queued == ToSet(msgq) \cup ToSet(msgq_sync)

\* Every message is in exactly one place: in a queue, with the CPU that is
\* about to queue it, or with the one that completes it; no freed message is
\* in a queue or in flight, and queue_len counts the queued ones and those
\* that wait for room.  This is what dropping bt.lock in the middle of
\* bt_add_msg, bt_get_resp and bt_expire_old_msg puts at risk.  It is over when
\* bt_add_msg finds both queues empty and completes the message it was to add,
\* which is then linked after all; but there must be more CPUs than
\* BT_MAX_QUEUE_LEN for that, so many of them waiting for room at the time.
OnePlace ==
  /\ selfout => Cardinality(CPUs) > max_queue
  /\ \/ selfout
     \/ /\ TypeOK
        /\ IsInjective(msgq \o msgq_sync)
        /\ inflight # NoMsg => inflight \in Queued
        /\ \A m \in Msgs :
             (IF m \in Queued THEN 1 ELSE 0)
               + Cardinality({c \in CPUs : new[c] = m})
               + Cardinality({c \in CPUs : pc[c] = "done" /\ old[c] = m})
             = (IF id[m] > 0 THEN 1 ELSE 0)
        /\ queue_len = Len(msgq) + Len(msgq_sync)
             + Cardinality({c \in CPUs : pc[c] = "link" \/ then[c] = "link"})

\* A message is completed with its own response, though the BMC may answer a
\* retried message twice, answer after the timeout, or after the message
\* was thrown out of a full queue.  No response is so late that its number
\* has been given again: there are not more messages than numbers.
OwnResponse == messages <= Seqs /\ ~selfout => ~mixed

\* ipmi_queue_msg_sync returns when its message has been completed, as long
\* as the allocator does not hand out the address of a message whose
\* ipmi_cmd_done is not over, and none has made room for itself.
SyncDone ==
  "reuse" \notin trouble /\ ~selfout =>
    \A c \in CPUs : pc[c] = "wait" /\ sync_msg # own[c] => id[own[c]] = -1

\* Whatever the BMC does with them, every message is completed or failed, and
\* whoever waits for one goes on; unless the BMC has asked for so many retries
\* that no count exceeds them, or a message was thrown out by its own addition.
AllAnswered ==
  LET spoilt == selfout \/ max_retries = Counts - 1
      over == (\A m \in Msgs : id[m] <= 0) /\ (\A c \in CPUs : own[c] = NoMsg)
  IN []<>(spoilt \/ over)
=============================================================================
