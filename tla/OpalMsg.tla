------------------------------- MODULE OpalMsg ------------------------------
(***************************************************************************)
(* Messages and events for the host: the message queue of core/opal-msg.c, *)
(* the queue of IPMI responses of core/ipmi-opal.c, and the event word     *)
(* (core/opal.c) through which both tell the host that there is something  *)
(* to fetch.                                                               *)
(*                                                                         *)
(* Each queue has its lock, inside of which evt_lock is taken to change    *)
(* opal_pending_events.  A change of it has two steps: the dummy interrupt *)
(* is sent before the new value is stored, and the host reads the word     *)
(* without a lock.                                                         *)
(***************************************************************************)
EXTENDS Naturals, Sequences, FiniteSets, SequencesExt, Cpus

CONSTANTS
  Entries,     \* bound: 1..Entries are what zalloc can return
  Pool,        \* OPAL_MAX_MSGS, the entries allocated at boot
  MaxMsgs,     \* bound: messages queued in a behaviour
  MaxResps     \* bound: IPMI responses in a behaviour

ASSUME OpalMsgAssumption ==
  /\ NoCpu \notin CPUs
  /\ Entries \in Nat /\ Pool \in 1..Entries
  /\ MaxMsgs \in Nat /\ MaxResps \in Nat

VARIABLES
  msg_free_list, msg_pending_list,   \* sequences of entries
  entry,                 \* contents of each entry
  pool,                  \* entries that opal_init_msg could allocate
  msgq,                  \* responses for opal_ipmi_recv
  holder,                \* of opal_msg_lock, of msgq_lock and of evt_lock
  opal_pending_events,
  irq,                   \* the dummy interrupt is raised
  at, token, call,       \* each CPU: where it is, current_token, locals
  known,                 \* events the host was told of and has not served
  queued, responses,     \* messages and responses so far
  got,                   \* messages returned by opal_get_msg, in order
  checked,               \* ... and by opal_check_completion
  lost,                  \* ... which has taken these without copying them
  called                 \* arguments of the consumed callbacks

lists == <<msg_free_list, msg_pending_list, entry, pool>>
cpu == <<at, token, call>>
history == <<queued, responses, got, checked, lost, called>>
vars == <<lists, msgq, holder, opal_pending_events, irq, cpu, known, history>>

Msg == "OPAL_EVENT_MSG_PENDING"
Recv == "opal_event_ipmi_recv"
Events == {Msg, Recv}

\* The kinds of message: the completion of an asynchronous call, any other
\* that fits the fixed parameters, and one that does not (those of PRD).
Kinds == {"async", "fixed", "long"}

Idle == [lock |-> "none", event |-> Msg, on |-> FALSE, store |-> {},
         e |-> 0, id |-> 0, status |-> "none"]

\* Boot: the pool is allocated, or given up altogether.
Init ==
  /\ pool \in {0, Pool}
  /\ msg_free_list = [i \in 1..pool |-> i]
  /\ msg_pending_list = <<>>
  /\ entry = [e \in 1..Entries |-> [id |-> 0, kind |-> "fixed", extended |-> FALSE]]
  /\ msgq = <<>>
  /\ holder = [l \in {"opal_msg_lock", "msgq_lock", "evt_lock"} |-> NoCpu]
  /\ opal_pending_events = {} /\ irq = FALSE /\ known = {}
  /\ at = [c \in CPUs |-> "os"]
  /\ token = [c \in CPUs |-> "none"]
  /\ call = [c \in CPUs |-> Idle]
  /\ queued = 0 /\ responses = 0
  /\ got = <<>> /\ checked = {} /\ lost = {} /\ called = {}

Free(l) == holder[l] = NoCpu
Goto(c, where) == at' = [at EXCEPT ![c] = where]
Linked == ToSet(msg_free_list) \cup ToSet(msg_pending_list)

-----------------------------------------------------------------------------
(* The event word. *)

\* A CPU goes on to opal_update_pending_evt(ev, on ? ev : 0), holding l.
Update(c, l, ev, on, locals) ==
  /\ holder' = [holder EXCEPT ![l] = c]
  /\ call' = [call EXCEPT ![c] = [locals EXCEPT !.lock = l, !.event = ev, !.on = on]]
  /\ Goto(c, "update")

\* Back from it, with the queue's lock released: to the consumed callback
\* of a message, or on in the call.
Updated(c) ==
  /\ holder' = [holder EXCEPT !["evt_lock"] = NoCpu, ![call[c].lock] = NoCpu]
  /\ call' = [call EXCEPT ![c] =
       [Idle EXCEPT !.e = call[c].e, !.id = call[c].id, !.status = call[c].status]]
  /\ Goto(c, IF call[c].id # 0 THEN "callback" ELSE "opal")

\* The new value, computed under evt_lock.
NewEvents(c) ==
  IF call[c].on THEN opal_pending_events \cup {call[c].event}
                ELSE opal_pending_events \ {call[c].event}

\* Up to the dummy interrupt, for an event that gets set outside of
\* opal_handle_interrupt.
opal_update_pending_evt(c) ==
  /\ at[c] = "update" /\ Free("evt_lock")
  /\ \/ /\ NewEvents(c) = opal_pending_events
        /\ Updated(c)
        /\ UNCHANGED irq
     \/ /\ NewEvents(c) # opal_pending_events
        /\ irq' = (irq \/ (call[c].on /\ token[c] # "interrupt"))
        /\ call' = [call EXCEPT ![c].store = NewEvents(c)]
        /\ holder' = [holder EXCEPT !["evt_lock"] = c]
        /\ Goto(c, "store")
  /\ UNCHANGED <<lists, msgq, opal_pending_events, token, known, history>>

\* opal_pending_events = new_evts, and the locks released.
store_events(c) ==
  /\ at[c] = "store"
  /\ opal_pending_events' = call[c].store
  /\ Updated(c)
  /\ UNCHANGED <<lists, msgq, irq, token, known, history>>

-----------------------------------------------------------------------------
(* The message queue. *)

\* What list_pop or zalloc may give for a message.
NewEntry(kind) ==
  IF kind # "long" /\ msg_free_list # <<>>
  THEN {Head(msg_free_list)}
  ELSE (1..Entries) \ Linked

\* Called in any OPAL call.  (A failed allocation changes nothing.)
_opal_queue_msg(c) ==
  /\ at[c] = "opal" /\ Free("opal_msg_lock") /\ queued < MaxMsgs
  /\ \E kind \in Kinds : \E e \in NewEntry(kind) :
       /\ entry' = [entry EXCEPT ![e] =
            [id |-> queued + 1, kind |-> kind,
             extended |-> kind = "long" \/ (@.extended /\ e \in Linked)]]
       /\ msg_free_list' = IF e \in Linked THEN Tail(msg_free_list) ELSE msg_free_list
       /\ msg_pending_list' = Append(msg_pending_list, e)
  /\ queued' = queued + 1
  /\ Update(c, "opal_msg_lock", Msg, TRUE, Idle)
  /\ UNCHANGED <<pool, msgq, opal_pending_events, irq, token, known, responses,
                 got, checked, lost, called>>

\* Mutant of Dispose: entries are freed unless they are extended ones.
DisposeSwapped(e) == IF entry[e].extended THEN Cons(e, msg_free_list) ELSE msg_free_list

\* The free list after a message has been taken: extended entries are freed.
Dispose(e) == IF entry[e].extended THEN msg_free_list ELSE Cons(e, msg_free_list)

\* The rest of both calls that take a message, with the callback's arguments read
\* from the entry: the event goes with the last one; then the callback.
taken(c, rest, e, rc) ==
  LET locals == [Idle EXCEPT !.e = e, !.id = entry[e].id, !.status = rc]
  IN IF rest = <<>> THEN Update(c, "opal_msg_lock", Msg, FALSE, locals)
     ELSE /\ call' = [call EXCEPT ![c] = locals]
          /\ Goto(c, "callback")
          /\ UNCHANGED holder

\* The host asks for a message, with a buffer that is large enough or not.
opal_get_msg(c) ==
  /\ at[c] = "os" /\ Free("opal_msg_lock")
  /\ \/ /\ msg_pending_list = <<>>               \* OPAL_RESOURCE
        /\ known' = known \ {Msg}
        /\ UNCHANGED <<lists, holder, cpu, got>>
     \/ /\ msg_pending_list # <<>>
        /\ LET e == Head(msg_pending_list) IN
           /\ msg_pending_list' = Tail(msg_pending_list)
           /\ msg_free_list' = Dispose(e)
           /\ got' = Append(got, entry[e].id)
           /\ \E status \in {"OPAL_SUCCESS", "OPAL_PARTIAL"} :
                /\ status = "OPAL_PARTIAL" => entry[e].kind = "long"
                /\ taken(c, Tail(msg_pending_list), e, status)
        /\ token' = [token EXCEPT ![c] = "call"]
        /\ UNCHANGED <<entry, pool, known>>
  /\ UNCHANGED <<msgq, opal_pending_events, irq, queued, responses, checked, lost, called>>

\* The host asks for the completion of one of its asynchronous calls.  With a
\* buffer smaller than a message, nothing is copied, to the same effect otherwise.
opal_check_completion(c) ==
  /\ at[c] = "os" /\ Free("opal_msg_lock")
  /\ token' = [token EXCEPT ![c] = "call"]
  /\ \E e \in ToSet(msg_pending_list) :
       /\ entry[e].kind = "async"
       /\ msg_pending_list' = RemoveFirst(msg_pending_list, e)
       /\ msg_free_list' = Cons(e, msg_free_list)
       /\ \/ checked' = checked \cup {entry[e].id} /\ UNCHANGED lost
          \/ lost' = lost \cup {entry[e].id} /\ UNCHANGED checked
       /\ taken(c, RemoveFirst(msg_pending_list, e), e, "OPAL_SUCCESS")
  /\ UNCHANGED <<entry, pool, msgq, opal_pending_events, irq, known, queued, responses, got,
                 called>>

\* Mutant of callback: its arguments are read from the entry after the unlock.
CallbackReads(c) ==
  /\ at[c] = "callback"
  /\ called' = called \cup {<<entry[call[c].e].id, call[c].status>>}
  /\ call' = [call EXCEPT ![c] = Idle]
  /\ Goto(c, "opal")
  /\ UNCHANGED <<lists, msgq, holder, opal_pending_events, irq, token, known, queued,
                 responses, got, checked, lost>>

\* The consumed callback, outside of the lock; some of them queue messages.
callback(c) ==
  /\ at[c] = "callback"
  /\ called' = called \cup {<<call[c].id, call[c].status>>}
  /\ call' = [call EXCEPT ![c] = Idle]
  /\ Goto(c, "opal")
  /\ UNCHANGED <<lists, msgq, holder, opal_pending_events, irq, token, known, queued,
                 responses, got, checked, lost>>

-----------------------------------------------------------------------------
(* The responses for opal_ipmi_recv. *)

\* An IPMI message of the host is complete, or has failed.
opal_send_complete(c) ==
  /\ at[c] = "opal" /\ Free("msgq_lock") /\ responses < MaxResps
  /\ responses' = responses + 1
  /\ msgq' = Append(msgq, responses + 1)
  /\ Update(c, "msgq_lock", Recv, TRUE, Idle)
  /\ UNCHANGED <<lists, opal_pending_events, irq, token, known, queued, got, checked,
                 lost, called>>

\* The response goes, whether or not the host's buffer can hold it.
opal_ipmi_recv(c) ==
  /\ at[c] = "os" /\ Free("msgq_lock")
  /\ \/ /\ msgq = <<>>                           \* OPAL_EMPTY
        /\ known' = known \ {Recv}
        /\ UNCHANGED <<msgq, holder, cpu>>
     \/ /\ msgq # <<>>
        /\ msgq' = Tail(msgq)
        /\ token' = [token EXCEPT ![c] = "call"]
        /\ \/ Len(msgq) = 1 /\ Update(c, "msgq_lock", Recv, FALSE, Idle)
           \/ Len(msgq) > 1 /\ Goto(c, "opal") /\ UNCHANGED <<holder, call>>
        /\ UNCHANGED known
  /\ UNCHANGED <<lists, opal_pending_events, irq, history>>

-----------------------------------------------------------------------------
(* The host.  Any OPAL call may queue messages and complete IPMI messages;  *)
(* opal_handle_interrupt and opal_poll_events return the event word.        *)

Enter(c, tok) ==
  /\ at[c] = "os"
  /\ token' = [token EXCEPT ![c] = tok]
  /\ Goto(c, "opal")
  /\ UNCHANGED <<lists, msgq, holder, opal_pending_events, call, known, history>>

\* The dummy interrupt: the handler clears it.
dummy_interrupt(c) == irq /\ irq' = FALSE /\ Enter(c, "interrupt")

\* Another interrupt.
opal_handle_interrupt(c) == Enter(c, "interrupt") /\ UNCHANGED irq

opal_poll_events(c) == Enter(c, "poll") /\ UNCHANGED irq

\* Mutant of Return: opal_poll_events does not look at the event word.
ReturnUntold(c) ==
  /\ at[c] = "opal"
  /\ known' = IF token[c] = "interrupt" THEN known \cup opal_pending_events ELSE known
  /\ Goto(c, "os")
  /\ token' = [token EXCEPT ![c] = "none"]
  /\ UNCHANGED <<lists, msgq, holder, opal_pending_events, irq, call, history>>

\* The end of a call: these two read the event word.
Return(c) ==
  /\ at[c] = "opal"
  /\ known' = IF token[c] = "call" THEN known ELSE known \cup opal_pending_events
  /\ Goto(c, "os")
  /\ token' = [token EXCEPT ![c] = "none"]
  /\ UNCHANGED <<lists, msgq, holder, opal_pending_events, irq, call, history>>

Next == \E c \in CPUs :
  \/ opal_update_pending_evt(c) \/ store_events(c)
  \/ _opal_queue_msg(c) \/ opal_get_msg(c) \/ opal_check_completion(c) \/ callback(c)
  \/ opal_send_complete(c) \/ opal_ipmi_recv(c)
  \/ dummy_interrupt(c) \/ opal_handle_interrupt(c) \/ opal_poll_events(c) \/ Return(c)

Spec == Init /\ [][Next]_vars

\* CPUs go on with what they do; the host polls at intervals (the
\* ibm,heartbeat-ms of the device tree) and serves the events it knows of.
FairSpec ==
  /\ Spec
  /\ \A c \in CPUs :
       WF_vars(opal_update_pending_evt(c) \/ store_events(c) \/ callback(c) \/ Return(c))
  /\ WF_vars(\E c \in CPUs : opal_poll_events(c))
  /\ SF_vars(\E c \in CPUs : Msg \in known /\ opal_get_msg(c))
  /\ SF_vars(\E c \in CPUs : Recv \in known /\ opal_ipmi_recv(c))

-----------------------------------------------------------------------------
(* Properties. *)

TypeOK ==
  /\ \A l \in {msg_free_list, msg_pending_list} : l \in Seq(1..Entries)
  /\ entry \in [1..Entries -> [id : 0..MaxMsgs, kind : Kinds, extended : BOOLEAN]]
  /\ holder \in [{"opal_msg_lock", "msgq_lock", "evt_lock"} -> CPUs \cup {NoCpu}]
  /\ opal_pending_events \in SUBSET Events /\ known \in SUBSET Events /\ irq \in BOOLEAN
  /\ at \in [CPUs -> {"os", "opal", "update", "store", "callback"}]
  /\ token \in [CPUs -> {"none", "call", "poll", "interrupt"}]

\* The variables have their types, an entry is linked at most once (never
\* both free and pending), the free list holds no extended entry, and while
\* nobody holds a queue's lock, its bit in opal_pending_events says whether
\* the queue is empty, whatever the other queue's users do to that word.  The
\* entries of the boot-time pool are never lost to it: with at most so many
\* messages of fixed size pending, opal_queue_msg allocates nothing and so
\* cannot fail, whatever extended messages come and go.
QueuesSound ==
  /\ TypeOK
  /\ IsInjective(msg_free_list \o msg_pending_list)
  /\ \A e \in ToSet(msg_free_list) : ~entry[e].extended
  /\ Cardinality({e \in Linked : ~entry[e].extended}) >= pool
  /\ Free("opal_msg_lock") => (Msg \in opal_pending_events <=> msg_pending_list # <<>>)
  /\ Free("msgq_lock") => (Recv \in opal_pending_events <=> msgq # <<>>)

\* Every message is pending or was taken by one call, once, by opal_get_msg in
\* the order of queueing; and what was taken was given to the host, but for the
\* completions that it asked for with too small a buffer: opal_check_completion
\* returns OPAL_SUCCESS for them, too, and they are gone.  The consumed callback
\* of a taken message is called once, after that, with its own data, even when
\* its entry has already been reused for another message.
GivenOnce ==
  /\ \A i \in 1..Len(got) - 1 : got[i] < got[i + 1]
  /\ ToSet(got) \cap (checked \cup lost) = {} /\ checked \cap lost = {}
  /\ LET waiting == {entry[e].id : e \in ToSet(msg_pending_list)}
         gone == ToSet(got) \cup checked \cup lost
         due == {c \in CPUs : call[c].id # 0}
     IN /\ waiting \cap gone = {} /\ waiting \cup gone = 1..queued
        /\ Cardinality(called) + Cardinality(due) = Cardinality(gone)
        /\ gone = {x[1] : x \in called} \cup {call[c].id : c \in due}

\* With a host that polls, every message and every response is fetched.
AllFetched == []<>(msg_pending_list = <<>> /\ msgq = <<>>)
=============================================================================
