------------------------------ MODULE SbeProof ------------------------------
(***************************************************************************)
(* Proofs about the two halves of hw/sbe-p9.c: SbeMbox, for any number of  *)
(* CPUs, messages, retries and troubles, and SbeTimer, for any number of   *)
(* CPUs, limits, times and troubles.                                       *)
(***************************************************************************)
EXTENDS SbeMbox, SbeTimer, WellFoundedInduction, TLAPS

(* The mailbox. *)

\* Where a CPU is while it holds sbe->lock.
Held == {"process", "send", "retry", "complete", "unlinked", "again", "timeout"}

\* The states of a message that the driver works on, and those it can end in.
BusyStates == {"queued", "sent", "wresp"}
FinalStates == {"done", "timeout", "error"}

\* sbe->lock belongs to the CPU that is inside of the driver, except for the time of the
\* completion function.
OwnerOK == \A c \in CPUs : lock = c <=> pc[c] \in Held

\* The locals: p9_sbe_msg_complete is on its way to a final state and knows where to
\* return to.
Locals == [msg : Msgs \cup {NoMsg}, final : FinalStates \cup {"unused"},
           retry : 0..RetryMax, ret : {"run", "retry", "again", "process"}, poll : BOOLEAN]

LocOK ==
  /\ loc \in [CPUs -> Locals]
  /\ \A c \in CPUs :
       pc[c] \in {"complete", "unlinked", "comp"} =>
         /\ loc[c].msg \in Msgs /\ loc[c].final \in FinalStates
         /\ loc[c].ret \in {"retry", "again", "process"}

\* No message is on the queue twice.
Distinct(s) == \A i, j \in 1..Len(s) : s[i] = s[j] => i = j

\* A message on the queue is in the hands of the driver and has not ended; those behind
\* the head have not been sent.
ListOK ==
  /\ Distinct(msg_list)
  /\ \A i \in 1..Len(msg_list) :
       msg_list[i] \in inuse /\ mstate[msg_list[i]] \in BusyStates
  /\ \A i \in 2..Len(msg_list) : mstate[msg_list[i]] = "queued"

OnList(m) == \E i \in 1..Len(msg_list) : msg_list[i] = m

\* The message that a CPU completes is first the head of the queue, then no longer on it
\* but in use and without its final state.
CompletingOK ==
  \A c \in CPUs :
    /\ pc[c] = "complete" => msg_list # <<>> /\ loc[c].msg = Head(msg_list)
    /\ pc[c] = "unlinked" => loc[c].msg \in inuse /\ ~OnList(loc[c].msg)
    /\ pc[c] = "unlinked" => mstate[loc[c].msg] \in BusyStates

\* As long as xscom works, a mailbox that is busy has a head that was sent, and it is idle
\* where a message is sent or completed, for which the loop of p9_sbe_process_queue never
\* comes back.
FlightOK ==
  "xscom" \notin trouble =>
    /\ state = "send" => msg_list # <<>> /\ mstate[Head(msg_list)] \in {"sent", "wresp"}
    /\ \A c \in CPUs :
         /\ pc[c] \in {"send", "complete", "unlinked"} => state = "idle"
         /\ pc[c] # "retry" /\ loc[c].ret # "retry"

\* When nothing goes wrong, the SBE is quiet while the mailbox is idle, and otherwise has
\* the command, or the host has still to see its answers to that.
SbeOK ==
  trouble = {} =>
    \/ state = "idle" /\ cmd = NoMsg /\ working = NoMsg /\ doorbell = {}
    \/ /\ state = "send" /\ cmd = Head(msg_list) /\ working = NoMsg /\ doorbell = {}
       /\ mstate[Head(msg_list)] = "sent"
    \/ /\ state = "send" /\ cmd = NoMsg /\ mstate[Head(msg_list)] = "sent"
       /\ \/ Head(msg_list) \notin RespMsgs /\ working = NoMsg /\ doorbell = {"read"}
          \/ Head(msg_list) \in RespMsgs /\ working # NoMsg /\ doorbell = {"read"}
          \/ Head(msg_list) \in RespMsgs /\ working = NoMsg /\ doorbell = {"read", "response"}
    \/ /\ state = "send" /\ cmd = NoMsg /\ mstate[Head(msg_list)] = "wresp"
       /\ \/ working # NoMsg /\ doorbell = {}
          \/ working = NoMsg /\ doorbell = {"response"}

\* The inductive invariant.
MboxInv == TypeOK /\ OwnerOK /\ LocOK /\ ListOK /\ CompletingOK /\ FlightOK /\ SbeOK

\* A nonempty set of natural numbers has a least element, which is its Min.
LEMMA MinFacts ==
  ASSUME NEW S, S \subseteq Nat, S # {}
  PROVE  Min(S) \in S /\ \A y \in S : Min(S) <= y
<1>1. PICK x \in S : \A y \in S : ~(<<y, x>> \in OpToRel(<, Nat))
  BY NatLessThanWellFounded, WFMin
<1>2. \A y \in S : x <= y
  <2>1. \A y \in Nat : y < x => <<y, x>> \in OpToRel(<, Nat)
    BY DEF OpToRel
  <2>2. \A y \in Nat : ~(y < x) => x <= y
    OBVIOUS
  <2> QED
    BY <1>1, <2>1, <2>2
<1> QED
  BY <1>2 DEF Min

\* One sequence behind another.
LEMMA ConcatFacts ==
  ASSUME NEW T, NEW x \in Seq(T), NEW y \in Seq(T)
  PROVE  /\ x \o y \in Seq(T) /\ Len(x \o y) = Len(x) + Len(y)
         /\ Len(x) \in Nat /\ Len(y) \in Nat
         /\ \A i \in 1..Len(x) + Len(y) :
              (x \o y)[i] = IF i <= Len(x) THEN x[i] ELSE y[i - Len(x)]
OBVIOUS

\* list_del() of a message that is queued takes out its one link.
LEMMA RemoveLinked ==
  ASSUME NEW T, NEW s \in Seq(T), NEW t, \E i \in 1..Len(s) : s[i] = t
  PROVE  \E k \in 1..Len(s) :
           /\ s[k] = t
           /\ RemoveFirst(s, t) \in Seq(T)
           /\ Len(RemoveFirst(s, t)) = Len(s) - 1
           /\ \A i \in 1..Len(s) - 1 :
                RemoveFirst(s, t)[i] = IF i < k THEN s[i] ELSE s[i + 1]
<1> DEFINE I == {i \in 1..Len(s) : s[i] = t}
           k == Min(I)
<1>1. k \in I
  <2>1. I \subseteq Nat /\ I # {}
    OBVIOUS
  <2> HIDE DEF I
  <2> QED
    BY <2>1, MinFacts
<1>2. SelectInSeq(s, LAMBDA v : v = t) = k
  BY DEF SelectInSeq
<1>3. RemoveFirst(s, t) = SubSeq(s, 1, k - 1) \o SubSeq(s, k + 1, Len(s))
  BY <1>2 DEF RemoveFirst, RemoveAt
<1> HIDE DEF k
<1>4. k \in 1..Len(s) /\ s[k] = t
  BY <1>1
<1> HIDE DEF I
<1> DEFINE a == SubSeq(s, 1, k - 1)
           b == SubSeq(s, k + 1, Len(s))
<1>5. /\ a \in Seq(T) /\ Len(a) = k - 1 /\ \A i \in 1..k - 1 : a[i] = s[i]
      /\ b \in Seq(T) /\ Len(b) = Len(s) - k /\ \A i \in 1..Len(s) - k : b[i] = s[k + i]
  BY <1>4
<1> HIDE DEF a, b
<1>6. /\ a \o b \in Seq(T) /\ Len(a \o b) = Len(s) - 1
      /\ \A i \in 1..Len(s) - 1 : (a \o b)[i] = IF i < k THEN a[i] ELSE b[(i + 1) - k]
  <2>1. /\ a \o b \in Seq(T) /\ Len(a \o b) = Len(a) + Len(b) /\ Len(a) \in Nat /\ Len(b) \in Nat
        /\ \A i \in 1..Len(a) + Len(b) :
             (a \o b)[i] = IF i <= Len(a) THEN a[i] ELSE b[i - Len(a)]
    BY <1>5, ConcatFacts
  <2>2. Len(a) + Len(b) = Len(s) - 1
    BY <1>4, <1>5
  <2>3. \A i \in 1..Len(s) - 1 : (i <= Len(a) <=> i < k) /\ i - Len(a) = (i + 1) - k
    BY <1>4, <1>5
  <2> QED
    BY <2>1, <2>2, <2>3
<1>7. \A i \in 1..Len(s) - 1 : (a \o b)[i] = IF i < k THEN s[i] ELSE s[i + 1]
  <2> TAKE i \in 1..Len(s) - 1
  <2>1. CASE i < k
    BY <1>4, <1>5, <1>6, <2>1
  <2>2. CASE ~(i < k)
    <3>1. (i + 1) - k \in 1..Len(s) - k /\ k + ((i + 1) - k) = i + 1
      BY <1>4, <2>2
    <3> QED
      BY <1>5, <1>6, <2>2, <3>1
  <2> QED
    BY <2>1, <2>2
<1> QED
  BY <1>3, <1>4, <1>6, <1>7 DEF a, b

\* The messages of a queue.
LEMMA ToSetSeq ==
  ASSUME NEW T, NEW s \in Seq(T)
  PROVE  /\ ToSet(s) = {s[i] : i \in 1..Len(s)} /\ ToSet(s) \subseteq T
         /\ Len(s) \in Nat
         /\ s = <<>> <=> ToSet(s) = {}
<1>1. DOMAIN s = 1..Len(s) /\ Len(s) \in Nat /\ \A i \in 1..Len(s) : s[i] \in T
  OBVIOUS
<1>2. ToSet(s) = {s[i] : i \in 1..Len(s)}
  BY <1>1 DEF ToSet
<1>3. s # <<>> => 1 \in 1..Len(s)
  BY <1>1
<1>4. s = <<>> => Len(s) = 0
  OBVIOUS
<1> QED
  BY <1>1, <1>2, <1>3, <1>4

\* list_del() leaves the other messages.
LEMMA RemoveFacts ==
  ASSUME NEW T, NEW s \in Seq(T), NEW t, Distinct(s)
  PROVE  /\ RemoveFirst(s, t) \in Seq(T) /\ Distinct(RemoveFirst(s, t))
         /\ ToSet(RemoveFirst(s, t)) = ToSet(s) \ {t}
         /\ Len(RemoveFirst(s, t)) = IF t \in ToSet(s) THEN Len(s) - 1 ELSE Len(s)
<1> DEFINE r == RemoveFirst(s, t)
<1>1. CASE \E i \in 1..Len(s) : s[i] = t
  <2>1. PICK k \in 1..Len(s) : /\ s[k] = t /\ r \in Seq(T) /\ Len(r) = Len(s) - 1
                               /\ \A i \in 1..Len(s) - 1 :
                                    r[i] = IF i < k THEN s[i] ELSE s[i + 1]
    BY <1>1, RemoveLinked
  <2> HIDE DEF r
  <2> DEFINE p(i) == IF i < k THEN i ELSE i + 1
  <2>2. \A i \in 1..Len(r) : p(i) \in 1..Len(s) /\ p(i) # k /\ r[i] = s[p(i)]
    BY <2>1
  <2>3. \A i, j \in 1..Len(r) : (i < j => p(i) < p(j)) /\ (p(i) = p(j) => i = j)
    BY <2>1
  <2>4. ASSUME NEW x \in 1..Len(s), x # k PROVE \E i \in 1..Len(r) : p(i) = x
    <3>1. CASE x < k
      BY <2>1, <3>1
    <3>2. CASE x > k
      <4>1. x - 1 \in 1..Len(r) /\ p(x - 1) = x
        BY <2>1, <3>2
      <4> QED
        BY <4>1
    <3> QED
      BY <2>4, <3>1, <3>2
  <2> HIDE DEF p
  <2>5. Distinct(r)
    <3> SUFFICES ASSUME NEW i \in 1..Len(r), NEW j \in 1..Len(r), r[i] = r[j] PROVE i = j
      BY DEF Distinct
    <3>1. s[p(i)] = s[p(j)] /\ p(i) \in 1..Len(s) /\ p(j) \in 1..Len(s)
      BY <2>2
    <3>2. p(i) = p(j)
      BY <3>1 DEF Distinct
    <3> QED
      BY <2>3, <3>2
  <2>6. \A i \in 1..Len(r) : r[i] # t
    BY <2>1, <2>2 DEF Distinct
  <2>7. ToSet(r) = ToSet(s) \ {t}
    <3>1. ToSet(r) = {r[i] : i \in 1..Len(r)} /\ ToSet(s) = {s[i] : i \in 1..Len(s)}
      BY <2>1, ToSetSeq
    <3>2. ToSet(r) \subseteq ToSet(s) \ {t}
      BY <2>2, <2>6, <3>1
    <3>3. ASSUME NEW x \in 1..Len(s), s[x] # t PROVE s[x] \in ToSet(r)
      <4>1. PICK i \in 1..Len(r) : p(i) = x
        BY <2>1, <2>4, <3>3
      <4> QED
        BY <2>2, <3>1, <4>1
    <3> QED
      BY <3>1, <3>2, <3>3
  <2>8. t \in ToSet(s)
    BY <2>1, ToSetSeq
  <2> QED
    BY <2>1, <2>5, <2>7, <2>8 DEF r
<1>2. CASE ~\E i \in 1..Len(s) : s[i] = t
  <2>1. r = s
    BY <1>2 DEF RemoveFirst
  <2>2. ToSet(s) = ToSet(s) \ {t} /\ t \notin ToSet(s)
    BY <1>2, ToSetSeq
  <2> QED
    BY <2>1, <2>2
<1> QED
  BY <1>1, <1>2

\* Adding to the end of a list what is not on it.
LEMMA AppendFacts ==
  ASSUME NEW T, NEW s \in Seq(T), NEW t \in T, t \notin ToSet(s), Distinct(s)
  PROVE  /\ Append(s, t) \in Seq(T) /\ Distinct(Append(s, t))
         /\ ToSet(Append(s, t)) = ToSet(s) \cup {t}
         /\ Len(Append(s, t)) = Len(s) + 1
<1>1. /\ Append(s, t) \in Seq(T) /\ Len(Append(s, t)) = Len(s) + 1 /\ Len(s) \in Nat
      /\ Append(s, t)[Len(s) + 1] = t /\ \A i \in 1..Len(s) : Append(s, t)[i] = s[i]
  OBVIOUS
<1>2. \A i \in 1..Len(s) : s[i] # t
  BY ToSetSeq
<1>3. Distinct(Append(s, t))
  BY <1>1, <1>2 DEF Distinct
<1>4. /\ ToSet(Append(s, t)) = {Append(s, t)[i] : i \in 1..Len(s) + 1}
      /\ ToSet(s) = {s[i] : i \in 1..Len(s)}
  <2>1. ToSet(Append(s, t)) = {Append(s, t)[i] : i \in 1..Len(Append(s, t))}
    BY <1>1, ToSetSeq
  <2> QED
    BY <1>1, <2>1, ToSetSeq
<1>5. 1..Len(s) + 1 = 1..Len(s) \cup {Len(s) + 1}
  BY <1>1
<1> QED
  BY <1>1, <1>3, <1>4, <1>5

\* What Unlock leaves of the CPU's place and locals.
LEMMA UnlockFacts ==
  ASSUME MboxInv, NEW c \in CPUs, Unlock(c)
  PROVE  /\ lock' = NoCpu
         /\ pc' = [pc EXCEPT ![c] = "run"] /\ pc'[c] = "run"
         /\ loc' \in [CPUs -> Locals] /\ loc'[c] = NoLoc /\ NoLoc.ret = "run"
         /\ \A d \in CPUs \ {c} : pc'[d] = pc[d] /\ loc'[d] = loc[d]
<1>1. NoLoc \in Locals /\ NoLoc.ret = "run"
  BY SbeMboxAssumption DEF NoLoc, Locals
<1> QED
  BY <1>1 DEF Unlock, Goto, MboxInv, TypeOK, LocOK

\* And what the call of p9_sbe_msg_complete makes of them.
LEMMA CompleteFacts ==
  ASSUME MboxInv, NEW c \in CPUs, NEW m \in Msgs, NEW final \in FinalStates,
         NEW ret \in {"retry", "again", "process"}, Complete(c, m, final, ret)
  PROVE  /\ pc' = [pc EXCEPT ![c] = "complete"] /\ pc'[c] = "complete"
         /\ loc' \in [CPUs -> Locals]
         /\ loc'[c].msg = m /\ loc'[c].final = final /\ loc'[c].ret = ret
         /\ \A d \in CPUs \ {c} : pc'[d] = pc[d] /\ loc'[d] = loc[d]
<1>1. loc[c] \in Locals
  BY DEF MboxInv, LocOK
<1>2. [loc[c] EXCEPT !.msg = m, !.final = final, !.ret = ret] \in Locals
  BY <1>1 DEF Locals
<1>3. loc' = [loc EXCEPT ![c] = [loc[c] EXCEPT !.msg = m, !.final = final, !.ret = ret]]
  BY DEF Complete, MboxInv, LocOK
<1>4. /\ loc' \in [CPUs -> Locals]
      /\ loc'[c] = [loc[c] EXCEPT !.msg = m, !.final = final, !.ret = ret]
      /\ \A d \in CPUs \ {c} : loc'[d] = loc[d]
  BY <1>2, <1>3 DEF MboxInv, LocOK
<1>5. loc'[c].msg = m /\ loc'[c].final = final /\ loc'[c].ret = ret
  BY <1>1, <1>4 DEF Locals
<1> QED
  BY <1>4, <1>5 DEF Complete, Goto, MboxInv, TypeOK

\* The head of a queue that is not empty.
LEMMA HeadFacts ==
  ASSUME MboxInv, msg_list # <<>>
  PROVE  /\ Len(msg_list) \in Nat /\ 1 \in 1..Len(msg_list) /\ Head(msg_list) = msg_list[1]
         /\ Head(msg_list) \in Msgs /\ Head(msg_list) \in inuse
         /\ mstate[Head(msg_list)] \in BusyStates
<1>1. /\ Len(msg_list) \in Nat /\ 1 \in 1..Len(msg_list) /\ Head(msg_list) = msg_list[1]
      /\ Head(msg_list) \in Msgs
  BY DEF MboxInv, TypeOK
<1> QED
  BY <1>1 DEF MboxInv, ListOK

\* Every step keeps the types.
LEMMA MboxTypeStep == MboxInv /\ [Next]_vars => TypeOK' /\ LocOK'
<1> SUFFICES ASSUME MboxInv, [Next]_vars PROVE TypeOK' /\ LocOK'
  OBVIOUS
<1> DEFINE Good == TypeOK' /\ LocOK'
<1>0. /\ TypeOK /\ LocOK /\ trouble \in Troubles /\ MaxQueued(trouble) \in Nat
      /\ RetryMax \in Nat /\ MaxResets \in Nat
  BY SbeMboxAssumption DEF MboxInv, TypeOK
<1>t. ASSUME UNCHANGED trouble, lock' \in CPUs \cup {NoCpu}, msg_list' \in Seq(Msgs),
             state' \in {"idle", "send"},
             mstate' \in [Msgs -> {"unused", "queued", "sent", "wresp", "done", "timeout",
                                   "error"}],
             inuse' \subseteq Msgs,
             pc' \in [CPUs -> {"run", "process", "send", "retry", "complete", "unlinked",
                               "comp", "again", "timeout"}],
             loc' \in [CPUs -> Locals],
             cmd' \in Msgs \cup {NoMsg}, working' \in Msgs \cup {NoMsg},
             doorbell' \subseteq {"reset", "read", "response"},
             resets' \in 0..MaxResets, queued' \in 0..MaxQueued(trouble)
      PROVE TypeOK'
  <2>1. \A c \in CPUs : loc'[c].msg \in Msgs \cup {NoMsg} /\ loc'[c].retry \in 0..RetryMax
    BY <1>t DEF Locals
  <2> QED
    BY <1>0, <1>t, <2>1 DEF TypeOK
<1> USE DEF driver, sbe
<1>1. ASSUME NEW c \in CPUs, UNCHANGED trouble,
             process_busy(c) \/ send_none(c) \/ timeout_none(c)
      PROVE Good
  <2>1. /\ UNCHANGED <<msg_list, state, mstate, inuse, cmd, working, doorbell, resets, queued>>
        /\ Unlock(c)
    BY <1>1 DEF process_busy, send_none, timeout_none
  <2>2. loc' \in [CPUs -> Locals] /\ pc' = [pc EXCEPT ![c] = "run"] /\ lock' = NoCpu
    BY <2>1, UnlockFacts
  <2>3. LocOK'
    BY <1>0, <2>1, <2>2, UnlockFacts DEF LocOK, TypeOK
  <2>4. TypeOK'
    BY <1>0, <1>1, <1>t, <2>1, <2>2 DEF TypeOK
  <2> QED
    BY <2>3, <2>4
<1>2. ASSUME NEW c \in CPUs, UNCHANGED trouble, process_idle(c) PROVE Good
  <2>1. /\ pc' = [pc EXCEPT ![c] = "send"] /\ loc' = [loc EXCEPT ![c].retry = 0]
        /\ UNCHANGED <<lock, msg_list, state, mstate, inuse, cmd, working, doorbell, resets,
                       queued>>
    BY <1>2 DEF process_idle, Goto
  <2>2. loc' \in [CPUs -> Locals] /\ \A d \in CPUs \ {c} : loc'[d] = loc[d]
    BY <1>0, <2>1 DEF LocOK, Locals
  <2>3. LocOK'
    BY <1>0, <2>1, <2>2 DEF LocOK, TypeOK
  <2>4. TypeOK'
    BY <1>0, <1>2, <1>t, <2>1, <2>2 DEF TypeOK
  <2> QED
    BY <2>3, <2>4
<1>3. ASSUME NEW c \in CPUs, UNCHANGED trouble, p9_sbe_msg_send(c) PROVE Good
  <2>1. /\ Unlock(c) /\ UNCHANGED <<msg_list, inuse, working, doorbell, resets, queued>>
        /\ cmd' = Head(msg_list) /\ state' = "send"
        /\ mstate' = [mstate EXCEPT ![Head(msg_list)] = "sent"] /\ msg_list # <<>>
    BY <1>3 DEF p9_sbe_msg_send
  <2>2. loc' \in [CPUs -> Locals] /\ pc' = [pc EXCEPT ![c] = "run"] /\ lock' = NoCpu
    BY <2>1, UnlockFacts
  <2>3. LocOK'
    BY <1>0, <2>1, <2>2, UnlockFacts DEF LocOK, TypeOK
  <2>4. Head(msg_list) \in Msgs
    BY <2>1, HeadFacts
  <2>5. TypeOK'
    BY <1>0, <1>3, <1>t, <2>1, <2>2, <2>4 DEF TypeOK
  <2> QED
    BY <2>3, <2>5
<1>4. ASSUME NEW c \in CPUs, NEW m \in Msgs, NEW final \in FinalStates,
             NEW ret \in {"retry", "again", "process"}, Complete(c, m, final, ret),
             UNCHANGED <<trouble, lock, msg_list, mstate, inuse, cmd, working, resets, queued>>,
             state' \in {"idle", "send"}, doorbell' \subseteq doorbell
      PROVE Good
  <2>1. loc' \in [CPUs -> Locals] /\ pc' = [pc EXCEPT ![c] = "complete"]
    BY <1>4, CompleteFacts
  <2>2. LocOK'
    <3>1. /\ loc'[c].msg = m /\ loc'[c].final = final /\ loc'[c].ret = ret
          /\ \A d \in CPUs \ {c} : pc'[d] = pc[d] /\ loc'[d] = loc[d]
      BY <1>4, CompleteFacts
    <3> QED
      BY <1>0, <2>1, <3>1 DEF LocOK
  <2>3. TypeOK'
    BY <1>0, <1>4, <1>t, <2>1 DEF TypeOK
  <2> QED
    BY <2>2, <2>3
<1>5. ASSUME NEW c \in CPUs, UNCHANGED trouble, send_fails(c) PROVE Good
  <2>1. Head(msg_list) \in Msgs
    BY <1>5, HeadFacts DEF send_fails
  <2> QED
    BY <1>0, <1>4, <1>5, <2>1 DEF send_fails, FinalStates, TypeOK
<1>6. ASSUME NEW c \in CPUs, UNCHANGED trouble, send_retry(c) PROVE Good
  <2>0. UNCHANGED <<msg_list, state, mstate, inuse, cmd, working, doorbell, resets, queued>>
    BY <1>6 DEF send_retry
  <2>1. CASE Unlock(c)
    <3>2. loc' \in [CPUs -> Locals] /\ pc' = [pc EXCEPT ![c] = "run"] /\ lock' = NoCpu
      BY <2>1, UnlockFacts
    <3>3. LocOK'
      BY <1>0, <2>1, <3>2, UnlockFacts DEF LocOK, TypeOK
    <3>4. TypeOK'
      BY <1>0, <1>6, <1>t, <2>0, <3>2 DEF TypeOK
    <3> QED
      BY <3>3, <3>4
  <2>2. CASE /\ loc[c].retry < RetryMax /\ Goto(c, "send")
             /\ loc' = [loc EXCEPT ![c].retry = @ + 1] /\ UNCHANGED lock
    <3>1. loc[c].retry \in 0..RetryMax
      BY <1>0 DEF LocOK, Locals
    <3>2. loc[c].retry + 1 \in 0..RetryMax
      BY <1>0, <2>2, <3>1
    <3>3. loc' \in [CPUs -> Locals] /\ \A d \in CPUs \ {c} : loc'[d] = loc[d]
      BY <1>0, <2>2, <3>2 DEF LocOK, Locals
    <3>4. pc' = [pc EXCEPT ![c] = "send"]
      BY <2>2 DEF Goto
    <3>5. LocOK'
      BY <1>0, <3>3, <3>4 DEF LocOK, TypeOK
    <3>6. TypeOK'
      BY <1>0, <1>6, <1>t, <2>0, <2>2, <3>3, <3>4 DEF TypeOK
    <3> QED
      BY <3>5, <3>6
  <2> QED
    BY <1>6, <2>1, <2>2 DEF send_retry
<1>7. ASSUME NEW c \in CPUs, UNCHANGED trouble, complete_unlink(c) PROVE Good
  <2>1. msg_list' \in Seq(Msgs)
    <3>1. loc[c].msg = Head(msg_list) /\ msg_list # <<>> /\ Distinct(msg_list)
      BY <1>7 DEF complete_unlink, MboxInv, CompletingOK, ListOK
    <3> QED
      BY <1>0, <1>7, <3>1, RemoveFacts DEF complete_unlink, TypeOK
  <2>2. LocOK'
    BY <1>0, <1>7 DEF complete_unlink, Goto, LocOK, TypeOK
  <2>3. TypeOK'
    BY <1>0, <1>7, <2>1 DEF complete_unlink, Goto, TypeOK
  <2> QED
    BY <2>2, <2>3
<1>8. ASSUME NEW c \in CPUs, UNCHANGED trouble, complete_state(c) PROVE Good
  <2>1. /\ loc[c].msg \in Msgs /\ loc[c].final \in FinalStates
        /\ loc[c].ret \in {"retry", "again", "process"}
    BY <1>0, <1>8 DEF complete_state, LocOK
  <2>2. pc' = [pc EXCEPT ![c] = "comp"] \/ pc' = [pc EXCEPT ![c] = loc[c].ret]
    BY <1>8 DEF complete_state, Goto
  <2>3. UNCHANGED loc /\ (lock' = NoCpu \/ UNCHANGED lock)
    BY <1>8 DEF complete_state
  <2>4. LocOK'
    BY <1>0, <1>8, <2>1, <2>2, <2>3 DEF LocOK, TypeOK, complete_state
  <2>5. mstate' \in [Msgs -> {"unused", "queued", "sent", "wresp", "done", "timeout", "error"}]
    BY <1>0, <1>8, <2>1 DEF complete_state, TypeOK, FinalStates
  <2>6. /\ UNCHANGED <<msg_list, state, cmd, working, doorbell, resets, queued>>
        /\ inuse' = inuse \/ inuse' = inuse \ {loc[c].msg}
    BY <1>8 DEF complete_state, sbe
  <2>7. pc' \in [CPUs -> {"run", "process", "send", "retry", "complete", "unlinked",
                               "comp", "again", "timeout"}]
    BY <1>0, <2>1, <2>2 DEF TypeOK
  <2>8. TypeOK'
    BY <1>0, <1>8, <2>3, <2>5, <2>6, <2>7 DEF TypeOK
  <2> QED
    BY <2>4, <2>8
<1>10. ASSUME NEW c \in CPUs, UNCHANGED trouble, complete_relock(c) PROVE Good
  <2>1. loc[c].ret \in {"retry", "again", "process"}
    BY <1>0, <1>10 DEF complete_relock, LocOK
  <2> QED
    BY <1>0, <1>10, <2>1 DEF complete_relock, Goto, TypeOK, LocOK
<1>11. ASSUME NEW c \in CPUs, UNCHANGED trouble, doorbell_end(c) PROVE Good
  <2>1. AfterInterrupt(c) \in {"timeout", "process"}
    BY DEF AfterInterrupt
  <2> QED
    BY <1>0, <1>11, <2>1 DEF doorbell_end, Goto, TypeOK, LocOK
<1>12. ASSUME NEW c \in CPUs, UNCHANGED trouble, doorbell_reset(c) PROVE Good
  <2>1. AfterInterrupt(c) \in {"timeout", "process"}
    BY DEF AfterInterrupt
  <2>2. mstate' \in [Msgs -> {"unused", "queued", "sent", "wresp", "done", "timeout", "error"}]
    BY <1>0, <1>12, HeadFacts DEF doorbell_reset, TypeOK
  <2>3. LocOK'
    BY <1>0, <1>12, <2>1 DEF doorbell_reset, Goto, LocOK, TypeOK
  <2>4. TypeOK'
    BY <1>0, <1>12, <2>1, <2>2 DEF doorbell_reset, Goto, TypeOK
  <2> QED
    BY <2>3, <2>4
<1>13. ASSUME NEW c \in CPUs, UNCHANGED trouble, p9_sbe_send_complete(c) PROVE Good
  <2>0. /\ UNCHANGED <<lock, msg_list, inuse, cmd, working, resets, queued>>
        /\ doorbell' \subseteq doorbell
    BY <1>13 DEF p9_sbe_send_complete
  <2>1. CASE msg_list = <<>> /\ UNCHANGED <<state, mstate, pc, loc>>
    BY <1>0, <1>13, <2>0, <2>1 DEF TypeOK, LocOK
  <2>2. CASE /\ msg_list # <<>> /\ mstate' = [mstate EXCEPT ![Head(msg_list)] = "wresp"]
             /\ UNCHANGED <<state, pc, loc>>
    BY <1>0, <1>13, <2>0, <2>2, HeadFacts DEF TypeOK, LocOK
  <2>3. CASE msg_list # <<>> /\ state' = "idle" /\ UNCHANGED mstate
             /\ Complete(c, Head(msg_list), "done", "again")
    BY <1>4, <1>13, <2>0, <2>3, HeadFacts DEF FinalStates
  <2> QED
    BY <1>13, <2>1, <2>2, <2>3 DEF p9_sbe_send_complete
<1>14. ASSUME NEW c \in CPUs, UNCHANGED trouble, doorbell_response(c) PROVE Good
  <2>0. /\ UNCHANGED <<lock, msg_list, mstate, inuse, cmd, working, resets, queued>>
        /\ doorbell' \subseteq doorbell /\ state' = "idle"
    BY <1>14 DEF doorbell_response
  <2>1. CASE UNCHANGED <<pc, loc>>
    BY <1>0, <1>14, <2>0, <2>1 DEF TypeOK, LocOK
  <2>2. CASE msg_list # <<>> /\ Complete(c, Head(msg_list), "done", "again")
    BY <1>4, <1>14, <2>0, <2>2, HeadFacts DEF FinalStates
  <2> QED
    BY <1>14, <2>1, <2>2 DEF doorbell_response
<1>15. ASSUME NEW c \in CPUs, UNCHANGED trouble, timeout_unsent(c) PROVE Good
  BY <1>0, <1>15 DEF timeout_unsent, Goto, TypeOK, LocOK
<1>16. ASSUME NEW c \in CPUs, UNCHANGED trouble, timeout_expired(c) PROVE Good
  <2>1. Head(msg_list) \in Msgs
    BY <1>16, HeadFacts DEF timeout_expired
  <2> QED
    BY <1>4, <1>16, <2>1 DEF timeout_expired, FinalStates
<1>17. ASSUME NEW c \in CPUs, UNCHANGED trouble, p9_sbe_interrupt(c) PROVE Good
  BY <1>0, <1>17 DEF p9_sbe_interrupt, Goto, TypeOK, LocOK
<1>18. ASSUME NEW c \in CPUs, UNCHANGED trouble, p9_sbe_timeout_poll_one(c) PROVE Good
  <2>1. /\ pc' = [pc EXCEPT ![c] = "again"] /\ loc' = [loc EXCEPT ![c].poll = TRUE] /\ lock' = c
        /\ UNCHANGED <<msg_list, state, mstate, inuse, cmd, working, doorbell, resets, queued>>
    BY <1>18 DEF p9_sbe_timeout_poll_one, Goto
  <2>2. loc' \in [CPUs -> Locals] /\ \A d \in CPUs \ {c} : loc'[d] = loc[d]
    BY <1>0, <2>1 DEF LocOK, Locals
  <2>3. LocOK'
    BY <1>0, <2>1, <2>2 DEF LocOK, TypeOK
  <2>4. TypeOK'
    BY <1>0, <1>18, <1>t, <2>1, <2>2 DEF TypeOK
  <2> QED
    BY <2>3, <2>4
<1>19. ASSUME NEW c \in CPUs, NEW m \in Msgs, UNCHANGED trouble, p9_sbe_queue_msg(c, m) PROVE Good
  <2>1. Append(msg_list, m) \in Seq(Msgs) /\ queued + 1 \in 0..MaxQueued(trouble)
    BY <1>0, <1>19 DEF TypeOK, p9_sbe_queue_msg
  <2>2. LocOK'
    BY <1>0, <1>19 DEF p9_sbe_queue_msg, Goto, LocOK, TypeOK
  <2>3. TypeOK'
    BY <1>0, <1>19, <2>1 DEF p9_sbe_queue_msg, Goto, TypeOK
  <2> QED
    BY <2>2, <2>3
<1>20. ASSUME NEW c \in CPUs, NEW m \in Msgs, UNCHANGED trouble, p9_sbe_cancelmsg(c, m) PROVE Good
  <2>1. msg_list' \in Seq(Msgs)
    BY <1>0, <1>20, RemoveFacts DEF p9_sbe_cancelmsg, TypeOK, MboxInv, ListOK
  <2>2. LocOK'
    BY <1>0, <1>20 DEF p9_sbe_cancelmsg, LocOK
  <2>3. TypeOK'
    BY <1>0, <1>20, <2>1 DEF p9_sbe_cancelmsg, TypeOK
  <2> QED
    BY <2>2, <2>3
<1>21. ASSUME NEW m \in Msgs, UNCHANGED trouble, p9_sbe_sync_msg(m) PROVE Good
  BY <1>0, <1>21 DEF p9_sbe_sync_msg, TypeOK, LocOK
<1>22. CASE UNCHANGED trouble /\ (SbeRead \/ SbeRespond \/ SbeReset)
  <2>1. UNCHANGED <<lock, msg_list, state, mstate, inuse, pc, loc, queued>>
    BY <1>22 DEF SbeRead, SbeRespond, SbeReset
  <2>2. resets' \in 0..MaxResets
    BY <1>0, <1>22 DEF SbeRead, SbeRespond, SbeReset, TypeOK
  <2>3. cmd' \in Msgs \cup {NoMsg} /\ working' \in Msgs \cup {NoMsg}
    BY <1>0, <1>22 DEF SbeRead, SbeRespond, SbeReset, TypeOK
  <2>4. doorbell' \subseteq {"reset", "read", "response"}
    BY <1>0, <1>22 DEF SbeRead, SbeRespond, SbeReset, TypeOK
  <2> QED
    BY <1>0, <1>22, <2>1, <2>2, <2>3, <2>4 DEF TypeOK, LocOK
<1>23. CASE UNCHANGED vars
  BY <1>0, <1>23 DEF vars, moving, TypeOK, LocOK
<1> QED
  BY <1>1, <1>2, <1>3, <1>5, <1>6, <1>7, <1>8, <1>10, <1>11, <1>12, <1>13, <1>14,
     <1>15, <1>16, <1>17, <1>18, <1>19, <1>20, <1>21, <1>22, <1>23
  DEF Next, CpuStep

\* Only the owner of sbe->lock is inside of the driver.
LEMMA Alone ==
  ASSUME MboxInv, NEW c \in CPUs
  PROVE  /\ NoCpu \notin CPUs
         /\ pc[c] \in Held => lock = c /\ \A d \in CPUs \ {c} : pc[d] \notin Held
         /\ lock = NoCpu => \A d \in CPUs : pc[d] \notin Held
BY SbeMboxAssumption DEF MboxInv, OwnerOK

\* The lock and the places of the CPUs in a step of c: it keeps the lock, drops it, takes it,
\* or goes on without it.
LEMMA OwnerStep ==
  ASSUME MboxInv, NEW c \in CPUs, \A d \in CPUs \ {c} : pc'[d] = pc[d],
         \/ lock = c /\ lock' = c /\ pc'[c] \in Held
         \/ lock = c /\ lock' = NoCpu /\ pc'[c] \notin Held
         \/ lock = NoCpu /\ lock' = c /\ pc'[c] \in Held
         \/ pc[c] \notin Held /\ lock' = lock /\ pc'[c] \notin Held
  PROVE  OwnerOK'
BY SbeMboxAssumption DEF MboxInv, OwnerOK

\* list_del() of a message of the queue.
LEMMA ListRemove ==
  ASSUME MboxInv, NEW m, OnList(m), msg_list' = RemoveFirst(msg_list, m)
  PROVE  /\ Distinct(msg_list') /\ Len(msg_list') \in Nat
         /\ \A i \in 1..Len(msg_list') :
              \E j \in 1..Len(msg_list) : j >= i /\ msg_list'[i] = msg_list[j] /\ msg_list[j] # m
         /\ msg_list # <<>> /\ Head(msg_list) # m =>
              msg_list' # <<>> /\ Head(msg_list') = Head(msg_list)
<1> DEFINE s == msg_list
           r == msg_list'
<1>1. s \in Seq(Msgs) /\ Distinct(s) /\ \E i \in 1..Len(s) : s[i] = m
  BY DEF MboxInv, TypeOK, ListOK, OnList
<1>0. r = RemoveFirst(s, m)
  OBVIOUS
<1> HIDE DEF s, r
<1>2. Distinct(r)
  BY <1>0, <1>1, RemoveFacts
<1>k. \E k \in 1..Len(s) :
        /\ s[k] = m /\ RemoveFirst(s, m) \in Seq(Msgs) /\ Len(RemoveFirst(s, m)) = Len(s) - 1
        /\ \A i \in 1..Len(s) - 1 :
             RemoveFirst(s, m)[i] = IF i < k THEN s[i] ELSE s[i + 1]
  BY <1>1, RemoveLinked, SMTT(40)
<1>3. PICK k \in 1..Len(s) : /\ s[k] = m /\ r \in Seq(Msgs) /\ Len(r) = Len(s) - 1
                             /\ \A i \in 1..Len(s) - 1 : r[i] = IF i < k THEN s[i] ELSE s[i + 1]
  BY <1>0, <1>k
<1>4. Len(s) \in Nat /\ Len(r) \in Nat
  BY <1>1, <1>3
<1>5. ASSUME NEW i \in 1..Len(r)
      PROVE  \E j \in 1..Len(s) : j >= i /\ r[i] = s[j] /\ s[j] # m
  <2>1. i \in 1..Len(s) - 1
    BY <1>3
  <2>2. CASE i < k
    <3>1. i \in 1..Len(s) /\ r[i] = s[i] /\ i # k /\ i >= i
      BY <1>3, <1>4, <2>1, <2>2
    <3> QED
      BY <1>1, <1>3, <3>1 DEF Distinct
  <2>3. CASE ~(i < k)
    <3>1. i + 1 \in 1..Len(s) /\ r[i] = s[i + 1] /\ i + 1 # k /\ i + 1 >= i
      BY <1>3, <1>4, <2>1, <2>3
    <3> QED
      BY <1>1, <1>3, <3>1 DEF Distinct
  <2> QED
    BY <2>2, <2>3
<1>6. ASSUME s # <<>>, Head(s) # m PROVE r # <<>> /\ Head(r) = Head(s)
  <2>1. Head(s) = s[1] /\ 1 \in 1..Len(s)
    BY <1>1, <1>6
  <2>2. 1 < k /\ 1 \in 1..Len(s) - 1
    BY <1>3, <1>4, <1>6, <2>1
  <2>3. r[1] = s[1] /\ 1 \in 1..Len(r)
    BY <1>3, <2>2
  <2>4. r # <<>> /\ Head(r) = r[1]
    BY <1>3, <1>4, <2>3
  <2> QED
    BY <2>1, <2>3, <2>4
<1> QED
  BY <1>2, <1>4, <1>5, <1>6 DEF s, r

\* A list that only lost elements, and is in order otherwise.
LEMMA OnListRemove ==
  ASSUME MboxInv, NEW m, OnList(m), msg_list' = RemoveFirst(msg_list, m)
  PROVE  ~OnList(m)' /\ \A x : OnList(x)' => OnList(x)
<1>1. \A i \in 1..Len(msg_list') :
        \E j \in 1..Len(msg_list) : msg_list'[i] = msg_list[j] /\ msg_list[j] # m
  BY ListRemove
<1> QED
  BY <1>1 DEF OnList

\* list_add_tail() of a message that the driver does not have.
LEMMA ListAppend ==
  ASSUME MboxInv, NEW m \in Msgs, m \notin inuse, msg_list' = Append(msg_list, m)
  PROVE  /\ Distinct(msg_list') /\ Len(msg_list) \in Nat /\ Len(msg_list') = Len(msg_list) + 1
         /\ msg_list'[Len(msg_list) + 1] = m
         /\ \A i \in 1..Len(msg_list) : msg_list'[i] = msg_list[i]
         /\ \A x : OnList(x)' => OnList(x) \/ x = m
         /\ msg_list # <<>> => msg_list' # <<>> /\ Head(msg_list') = Head(msg_list)
<1>1. msg_list \in Seq(Msgs) /\ Distinct(msg_list) /\ ~OnList(m)
  BY DEF MboxInv, TypeOK, ListOK, OnList
<1>2. m \notin ToSet(msg_list)
  BY <1>1, ToSetSeq DEF OnList
<1>3. Distinct(msg_list')
  BY <1>1, <1>2, AppendFacts
<1>4. /\ Len(msg_list) \in Nat /\ Len(msg_list') = Len(msg_list) + 1
      /\ msg_list'[Len(msg_list) + 1] = m
      /\ \A i \in 1..Len(msg_list) : msg_list'[i] = msg_list[i]
  BY <1>1
<1>5. ASSUME NEW x, OnList(x)' PROVE OnList(x) \/ x = m
  <2>1. PICK i \in 1..Len(msg_list) + 1 : msg_list'[i] = x
    BY <1>4, <1>5 DEF OnList
  <2> QED
    BY <1>4, <2>1 DEF OnList
<1>6. msg_list # <<>> => msg_list' # <<>> /\ Head(msg_list') = Head(msg_list)
  BY <1>1
<1> QED
  BY <1>3, <1>4, <1>5, <1>6

\* What is on the queue is in use, and busy; the head is on the queue.
LEMMA OnListFacts ==
  ASSUME MboxInv
  PROVE  /\ \A x : OnList(x) => x \in Msgs /\ x \in inuse /\ mstate[x] \in BusyStates
         /\ msg_list # <<>> => OnList(Head(msg_list))
<1>1. msg_list # <<>> => OnList(Head(msg_list))
  BY HeadFacts DEF OnList
<1>2. \A i \in 1..Len(msg_list) : msg_list[i] \in Msgs
  BY DEF MboxInv, TypeOK
<1> QED
  BY <1>1, <1>2 DEF MboxInv, ListOK, OnList

\* The queue stays as it is, and at most its head changes its state.
LEMMA ListFrame ==
  ASSUME MboxInv, msg_list' = msg_list, \A x : OnList(x) => x \in inuse',
         \A x : OnList(x) /\ mstate'[x] # mstate[x] =>
                  x = Head(msg_list) /\ msg_list # <<>> /\ mstate'[x] \in BusyStates
  PROVE  ListOK'
<1>1. \A i \in 1..Len(msg_list) : OnList(msg_list[i])
  BY DEF OnList
<1>2. \A i \in 2..Len(msg_list) :
         i \in 1..Len(msg_list) /\ (msg_list # <<>> => msg_list[i] # Head(msg_list))
  <2> TAKE i \in 2..Len(msg_list)
  <2>0. Len(msg_list) \in Nat
    BY DEF MboxInv, TypeOK
  <2>1. i \in 1..Len(msg_list) /\ i # 1
    BY <2>0
  <2>2. msg_list # <<>> => Head(msg_list) = msg_list[1] /\ 1 \in 1..Len(msg_list)
    BY HeadFacts
  <2> QED
    BY <2>1, <2>2 DEF MboxInv, ListOK, Distinct
<1>3. Distinct(msg_list)'
  BY DEF MboxInv, ListOK, Distinct
<1>4. \A i \in 1..Len(msg_list) : msg_list[i] \in inuse' /\ mstate'[msg_list[i]] \in BusyStates
  BY <1>1, OnListFacts
<1>5. \A i \in 2..Len(msg_list) : mstate'[msg_list[i]] = "queued"
  BY <1>1, <1>2 DEF MboxInv, ListOK
<1> QED
  BY <1>3, <1>4, <1>5 DEF ListOK

\* CompletingOK of one CPU.
CompletingCpu(c) ==
  /\ pc[c] = "complete" => msg_list # <<>> /\ loc[c].msg = Head(msg_list)
  /\ pc[c] = "unlinked" => loc[c].msg \in inuse /\ ~OnList(loc[c].msg)
  /\ pc[c] = "unlinked" => mstate[loc[c].msg] \in BusyStates

\* It is that of all CPUs.
LEMMA CompletingFrame ==
  ASSUME MboxInv, \A d \in CPUs : CompletingCpu(d)'
  PROVE  CompletingOK'
BY DEF MboxInv, CompletingOK, CompletingCpu

\* A CPU that does not move keeps the message it completes, as long as nobody touches it.
LEMMA CompletingStays ==
  ASSUME MboxInv, NEW d \in CPUs, pc'[d] = pc[d], loc'[d] = loc[d],
         pc[d] = "complete" => msg_list' = msg_list,
         pc[d] = "unlinked" =>
           /\ loc[d].msg \in inuse' /\ mstate'[loc[d].msg] = mstate[loc[d].msg]
           /\ ~OnList(loc[d].msg)'
  PROVE  CompletingCpu(d)'
BY DEF MboxInv, CompletingOK, CompletingCpu

-----------------------------------------------------------------------------
(* The steps of the mailbox: two kinds that many actions are of, and the rest. *)

Places == {"run", "process", "send", "retry", "complete", "unlinked", "comp", "again",
           "timeout"}

\* Of the CPUs, only c moves.
Only(c) == \A d \in CPUs \ {c} : pc'[d] = pc[d] /\ loc'[d] = loc[d]

\* c moves within the driver, into it or out of it, without touching queue and mailbox.
Quiet(c) ==
  /\ UNCHANGED <<trouble, msg_list, state, mstate, inuse, cmd, working, doorbell>>
  /\ Only(c)
  /\ \/ lock = c /\ lock' = c /\ pc'[c] \in {"process", "send", "retry", "again", "timeout"}
     \/ lock = c /\ lock' = NoCpu /\ pc'[c] = "run"
     \/ lock = NoCpu /\ lock' = c /\ pc'[c] \in {"process", "retry", "again"}
  /\ "xscom" \notin trouble =>
       (pc'[c] = "send" => state = "idle") /\ pc'[c] # "retry" /\ loc'[c].ret # "retry"

\* c starts to complete the head of the queue.
Finishes(c) ==
  /\ UNCHANGED <<trouble, lock, msg_list, mstate, inuse, cmd, working>> /\ lock = c
  /\ Only(c) /\ msg_list # <<>> /\ pc'[c] = "complete" /\ loc'[c].msg = Head(msg_list)
  /\ "xscom" \notin trouble => state' = "idle" /\ loc'[c].ret # "retry"
  /\ trouble = {} => state' = "idle" /\ cmd = NoMsg /\ working = NoMsg /\ doorbell' = {}

\* The steps of one CPU that are Quiet.
LEMMA QuietSteps ==
  ASSUME MboxInv, UNCHANGED trouble, NEW c \in CPUs,
         \/ process_busy(c) \/ process_idle(c) \/ send_none(c) \/ send_retry(c)
         \/ complete_relock(c) \/ doorbell_end(c) \/ timeout_none(c) \/ timeout_unsent(c)
         \/ p9_sbe_interrupt(c) \/ p9_sbe_timeout_poll_one(c)
  PROVE  Quiet(c)
<1> DEFINE Same == UNCHANGED <<msg_list, state, mstate, inuse, cmd, working, doorbell>>
<1>0. /\ pc \in [CPUs -> Places] /\ loc \in [CPUs -> Locals]
      /\ "xscom" \notin trouble => pc[c] # "retry" /\ loc[c].ret # "retry"
  BY DEF MboxInv, TypeOK, LocOK, FlightOK, Places
<1> USE DEF driver, sbe
<1>u. ASSUME Unlock(c), Same, pc[c] \in Held PROVE Quiet(c)
  <2>1. lock = c
    BY <1>u, Alone
  <2>2. /\ lock' = NoCpu /\ pc'[c] = "run" /\ Only(c) /\ loc'[c].ret = "run"
    BY <1>u, UnlockFacts DEF Only
  <2> QED
    BY <1>u, <2>1, <2>2 DEF Quiet
<1>1. ASSUME process_busy(c) \/ send_none(c) \/ timeout_none(c) PROVE Quiet(c)
  BY <1>1, <1>u DEF process_busy, send_none, timeout_none, Held
<1>2. CASE process_idle(c)
  <2>1. /\ pc' = [pc EXCEPT ![c] = "send"] /\ loc' = [loc EXCEPT ![c].retry = 0]
        /\ Same /\ lock' = lock /\ pc[c] = "process" /\ state = "idle"
    BY <1>2 DEF process_idle, Goto, p9_sbe_mbox_busy
  <2>2. Only(c) /\ pc'[c] = "send" /\ loc'[c].ret = loc[c].ret
    BY <1>0, <2>1 DEF Only, Locals
  <2>3. lock = c
    BY <2>1, Alone DEF Held
  <2> QED
    BY <1>0, <2>1, <2>2, <2>3 DEF Quiet
<1>3. CASE send_retry(c)
  <2>1. pc[c] = "retry" /\ pc[c] \in Held /\ Same
    BY <1>3 DEF send_retry, Held
  <2>2. CASE Unlock(c)
    BY <1>u, <2>1, <2>2
  <2>3. CASE Goto(c, "send") /\ loc' = [loc EXCEPT ![c].retry = @ + 1] /\ UNCHANGED lock
    <3>1. Only(c) /\ pc'[c] = "send"
      BY <1>0, <2>3 DEF Only, Goto
    <3>2. lock = c
      BY <2>1, Alone
    <3> QED
      BY <1>0, <2>1, <2>3, <3>1, <3>2 DEF Quiet
  <2> QED
    BY <1>3, <2>2, <2>3 DEF send_retry
<1>4. CASE complete_relock(c)
  <2>1. loc[c].ret \in {"retry", "again", "process"}
    BY <1>4 DEF complete_relock, MboxInv, LocOK
  <2>2. pc' = [pc EXCEPT ![c] = loc[c].ret] /\ loc' = loc /\ lock = NoCpu /\ lock' = c /\ Same
    BY <1>4 DEF complete_relock, Goto
  <2>3. Only(c) /\ pc'[c] = loc[c].ret /\ loc'[c] = loc[c]
    BY <1>0, <2>2 DEF Only
  <2> QED
    BY <1>0, <2>1, <2>2, <2>3 DEF Quiet
<1>5. ASSUME doorbell_end(c) \/ timeout_unsent(c) PROVE Quiet(c)
  <2>1. AfterInterrupt(c) \in {"timeout", "process"}
    BY DEF AfterInterrupt
  <2>2. /\ pc' = [pc EXCEPT ![c] = AfterInterrupt(c)] \/ pc' = [pc EXCEPT ![c] = "process"]
        /\ loc' = loc /\ lock' = lock /\ Same /\ pc[c] \in Held
    BY <1>5 DEF doorbell_end, timeout_unsent, Goto, Held
  <2>3. Only(c) /\ pc'[c] \in {"timeout", "process"} /\ loc'[c] = loc[c]
    BY <1>0, <2>1, <2>2 DEF Only
  <2>4. lock = c
    BY <2>2, Alone
  <2> QED
    BY <1>0, <2>2, <2>3, <2>4 DEF Quiet
<1>6. ASSUME p9_sbe_interrupt(c) \/ p9_sbe_timeout_poll_one(c) PROVE Quiet(c)
  <2>1. /\ pc' = [pc EXCEPT ![c] = "again"] /\ lock = NoCpu /\ lock' = c /\ Same
        /\ loc' = loc \/ loc' = [loc EXCEPT ![c].poll = TRUE]
    BY <1>6 DEF p9_sbe_interrupt, p9_sbe_timeout_poll_one, Goto
  <2>2. Only(c) /\ pc'[c] = "again"
    BY <1>0, <2>1 DEF Only
  <2>3. loc'[c].ret = loc[c].ret
    BY <1>0, <2>1 DEF Locals
  <2> QED
    BY <1>0, <2>1, <2>2, <2>3 DEF Quiet
<1> QED
  BY <1>1, <1>2, <1>3, <1>4, <1>5, <1>6

\* The steps that are the start of p9_sbe_msg_complete.
LEMMA FinishSteps ==
  ASSUME MboxInv, UNCHANGED trouble, NEW c \in CPUs,
         \/ send_fails(c) \/ timeout_expired(c)
         \/ p9_sbe_send_complete(c) /\ msg_list # <<>> /\ Head(msg_list) \notin RespMsgs
         \/ doorbell_response(c) /\ msg_list # <<>>
  PROVE  Finishes(c)
<1> DEFINE m == Head(msg_list)
<1>0. Head(msg_list) \in Msgs
  BY HeadFacts DEF send_fails, timeout_expired
<1> USE DEF driver, sbe
<1>f. ASSUME NEW final \in FinalStates, NEW ret \in {"retry", "again", "process"},
             Complete(c, Head(msg_list), final, ret)
      PROVE  Only(c) /\ pc'[c] = "complete" /\ loc'[c].msg = Head(msg_list) /\ loc'[c].ret = ret
  BY <1>0, <1>f, CompleteFacts DEF Only
<1>1. CASE send_fails(c)
  <2>1. /\ UNCHANGED <<trouble, lock, msg_list, state, mstate, inuse, cmd, working, doorbell>>
        /\ "xscom" \in trouble /\ msg_list # <<>> /\ pc[c] \in Held
        /\ Complete(c, Head(msg_list), "error", "retry")
    BY <1>1 DEF send_fails, Held
  <2>2. lock = c
    BY <2>1, Alone
  <2> QED
    BY <1>f, <2>1, <2>2 DEF Finishes, FinalStates
<1>2. CASE timeout_expired(c)
  <2>1. /\ UNCHANGED <<trouble, lock, msg_list, mstate, inuse, cmd, working, doorbell>>
        /\ "timeout" \in trouble /\ msg_list # <<>> /\ pc[c] \in Held
        /\ Complete(c, Head(msg_list), "timeout", "process") /\ state' = "idle"
    BY <1>2 DEF timeout_expired, Held
  <2>2. lock = c
    BY <2>1, Alone
  <2> QED
    BY <1>f, <2>1, <2>2 DEF Finishes, FinalStates
<1>3. CASE p9_sbe_send_complete(c) /\ msg_list # <<>> /\ Head(msg_list) \notin RespMsgs
  <2>1. /\ UNCHANGED <<trouble, lock, msg_list, mstate, inuse, cmd, working>>
        /\ msg_list # <<>> /\ pc[c] \in Held
        /\ Complete(c, Head(msg_list), "done", "again") /\ state' = "idle"
        /\ "read" \in doorbell /\ doorbell' = doorbell \ {"read"}
    BY <1>3 DEF p9_sbe_send_complete, Held
  <2>2. lock = c
    BY <2>1, Alone
  <2>3. trouble = {} => cmd = NoMsg /\ working = NoMsg /\ doorbell' = {}
    BY <1>3, <2>1 DEF MboxInv, SbeOK
  <2> QED
    BY <1>f, <2>1, <2>2, <2>3 DEF Finishes, FinalStates
<1>4. CASE doorbell_response(c) /\ msg_list # <<>>
  <2>1. /\ UNCHANGED <<trouble, lock, msg_list, mstate, inuse, cmd, working>>
        /\ msg_list # <<>> /\ pc[c] \in Held
        /\ Complete(c, Head(msg_list), "done", "again") /\ state' = "idle"
        /\ "read" \notin doorbell /\ "response" \in doorbell
        /\ doorbell' = doorbell \ {"response"}
    BY <1>4 DEF doorbell_response, Held
  <2>2. lock = c
    BY <2>1, Alone
  <2>3. trouble = {} => cmd = NoMsg /\ working = NoMsg /\ doorbell' = {}
    BY <1>4, <2>1 DEF MboxInv, SbeOK
  <2> QED
    BY <1>f, <2>1, <2>2, <2>3 DEF Finishes, FinalStates
<1> QED
  BY <1>1, <1>2, <1>3, <1>4

\* All parts of the invariant but the types.
Parts == OwnerOK /\ ListOK /\ CompletingOK /\ FlightOK /\ SbeOK

\* A step of c that leaves the queue and the mailbox as they are for the others.
LEMMA FlightStays ==
  ASSUME MboxInv, UNCHANGED trouble, NEW c \in CPUs, Only(c),
         "xscom" \notin trouble =>
           /\ state' = "send" =>
                msg_list' # <<>> /\ mstate'[Head(msg_list')] \in {"sent", "wresp"}
           /\ pc'[c] \in {"send", "complete", "unlinked"} => state' = "idle"
           /\ pc'[c] # "retry" /\ loc'[c].ret # "retry",
         state' = "idle" \/ state' = state \/ lock = c
  PROVE  FlightOK'
<1> SUFFICES ASSUME "xscom" \notin trouble, NEW d \in CPUs, d # c
             PROVE  /\ pc'[d] \in {"send", "complete", "unlinked"} => state' = "idle"
                    /\ pc'[d] # "retry" /\ loc'[d].ret # "retry"
  BY DEF FlightOK
<1>1. pc'[d] = pc[d] /\ loc'[d] = loc[d]
  BY DEF Only
<1>2. /\ pc[d] \in {"send", "complete", "unlinked"} => state = "idle"
      /\ pc[d] # "retry" /\ loc[d].ret # "retry"
  BY DEF MboxInv, FlightOK
<1>3. lock = c => pc[d] \notin Held
  BY DEF MboxInv, OwnerOK
<1> QED
  BY <1>1, <1>2, <1>3 DEF Held

\* Quiet steps keep the invariant.
LEMMA QuietParts == ASSUME MboxInv, NEW c \in CPUs, Quiet(c) PROVE Parts'
<1>1. OwnerOK'
  BY OwnerStep DEF Quiet, Only, Held
<1>2. ListOK'
  BY ListFrame, OnListFacts DEF Quiet
<1>3. CompletingOK'
  <2>0. pc'[c] \notin {"complete", "unlinked"}
    BY DEF Quiet
  <2>1. CompletingCpu(c)'
    BY <2>0 DEF CompletingCpu
  <2>2. ASSUME NEW d \in CPUs, d # c PROVE CompletingCpu(d)'
    <3>1. pc'[d] = pc[d] /\ loc'[d] = loc[d] /\ UNCHANGED <<msg_list, inuse, mstate>>
      BY <2>2 DEF Quiet, Only
    <3>2. pc[d] = "unlinked" => loc[d].msg \in inuse /\ ~OnList(loc[d].msg)
      BY DEF MboxInv, CompletingOK
    <3>3. OnList(loc[d].msg)' <=> OnList(loc[d].msg)
      BY <3>1 DEF OnList
    <3> QED
      BY <3>1, <3>2, <3>3, CompletingStays
  <2> QED
    BY <2>0, <2>1, <2>2, CompletingFrame DEF Quiet, Only
<1>4. FlightOK'
  <2>1. UNCHANGED <<trouble, state, msg_list, mstate>> /\ Only(c)
    BY DEF Quiet
  <2>2. "xscom" \notin trouble /\ state = "send" =>
          msg_list # <<>> /\ mstate[Head(msg_list)] \in {"sent", "wresp"}
    BY DEF MboxInv, FlightOK
  <2>3. "xscom" \notin trouble =>
          /\ pc'[c] \in {"send", "complete", "unlinked"} => state = "idle"
          /\ pc'[c] # "retry" /\ loc'[c].ret # "retry"
    BY DEF Quiet
  <2> QED
    BY <2>1, <2>2, <2>3, FlightStays
<1>5. SbeOK'
  BY DEF Quiet, MboxInv, SbeOK
<1> QED
  BY <1>1, <1>2, <1>3, <1>4, <1>5 DEF Parts

\* So does the start of a completion, which leaves the message on the queue.
LEMMA FinishParts == ASSUME MboxInv, NEW c \in CPUs, Finishes(c) PROVE Parts'
<1>0. /\ UNCHANGED <<trouble, lock, msg_list, mstate, inuse, cmd, working>> /\ lock = c /\ Only(c)
      /\ msg_list # <<>> /\ pc'[c] = "complete" /\ loc'[c].msg = Head(msg_list)
  BY DEF Finishes
<1>1. OwnerOK'
  BY <1>0, OwnerStep DEF Only, Held
<1>2. ListOK'
  BY <1>0, ListFrame, OnListFacts
<1>3. CompletingOK'
  <2>1. CompletingCpu(c)'
    BY <1>0 DEF CompletingCpu
  <2>2. ASSUME NEW d \in CPUs, d # c PROVE CompletingCpu(d)'
    <3>1. pc'[d] = pc[d] /\ loc'[d] = loc[d]
      BY <1>0, <2>2 DEF Only
    <3>2. pc[d] = "unlinked" => loc[d].msg \in inuse /\ ~OnList(loc[d].msg)
      BY DEF MboxInv, CompletingOK
    <3>3. OnList(loc[d].msg)' <=> OnList(loc[d].msg)
      BY <1>0, <3>1 DEF OnList
    <3> QED
      BY <1>0, <3>1, <3>2, <3>3, CompletingStays
  <2> QED
    BY <1>0, <2>1, <2>2, CompletingFrame DEF Only
<1>4. FlightOK'
  BY <1>0, FlightStays DEF Finishes
<1>5. SbeOK'
  BY DEF Finishes, SbeOK
<1> QED
  BY <1>1, <1>2, <1>3, <1>4, <1>5 DEF Parts

\* p9_sbe_msg_send finds the mailbox idle.
LEMMA SendParts ==
  ASSUME MboxInv, UNCHANGED trouble, NEW c \in CPUs, p9_sbe_msg_send(c) PROVE Parts'
<1>0. /\ UNCHANGED <<msg_list, inuse, working, doorbell>> /\ msg_list # <<>>
      /\ cmd' = Head(msg_list) /\ state' = "send" /\ pc[c] = "send" /\ pc[c] \in Held
      /\ mstate' = [mstate EXCEPT ![Head(msg_list)] = "sent"] /\ Unlock(c)
  BY DEF p9_sbe_msg_send, Held
<1>1. lock = c /\ lock' = NoCpu /\ pc'[c] = "run" /\ loc'[c].ret = "run" /\ Only(c)
  BY <1>0, UnlockFacts, Alone DEF Only
<1>2. /\ mstate'[Head(msg_list)] = "sent" /\ Head(msg_list) \in Msgs
      /\ \A x \in Msgs \ {Head(msg_list)} : mstate'[x] = mstate[x]
  <2>1. Head(msg_list) \in Msgs
    BY <1>0, HeadFacts
  <2> QED
    BY <1>0, <2>1 DEF MboxInv, TypeOK
<1>3. OwnerOK'
  BY <1>1, OwnerStep DEF Only, Held
<1>4. ListOK'
  BY <1>0, <1>2, ListFrame, OnListFacts DEF BusyStates
<1>5. CompletingOK'
  <2>1. CompletingCpu(c)'
    BY <1>1 DEF CompletingCpu
  <2>2. ASSUME NEW d \in CPUs, d # c PROVE CompletingCpu(d)'
    <3>1. pc'[d] = pc[d] /\ loc'[d] = loc[d]
      BY <1>1, <2>2 DEF Only
    <3>2. pc[d] = "unlinked" =>
            loc[d].msg \in Msgs /\ loc[d].msg \in inuse /\ ~OnList(loc[d].msg)
      BY DEF MboxInv, CompletingOK, LocOK
    <3>3. OnList(loc[d].msg)' <=> OnList(loc[d].msg)
      BY <1>0, <3>1 DEF OnList
    <3>4. OnList(Head(msg_list))
      BY <1>0, OnListFacts
    <3>5. pc[d] = "unlinked" => mstate'[loc[d].msg] = mstate[loc[d].msg]
      BY <1>2, <3>2, <3>4
    <3> QED
      BY <1>0, <3>1, <3>2, <3>3, <3>5, CompletingStays
  <2> QED
    BY <1>1, <2>1, <2>2, CompletingFrame DEF Only
<1>6. FlightOK'
  <2>1. Head(msg_list') = Head(msg_list) /\ msg_list' # <<>>
    BY <1>0
  <2> QED
    BY <1>0, <1>1, <1>2, <2>1, FlightStays
<1>7. SbeOK'
  <2>1. trouble = {} => state = "idle" /\ working = NoMsg /\ doorbell = {}
    BY <1>0 DEF MboxInv, SbeOK, FlightOK
  <2>2. /\ UNCHANGED <<msg_list, working, doorbell, trouble>>
        /\ cmd' = Head(msg_list) /\ state' = "send"
    BY <1>0
  <2> QED
    BY <1>2, <2>1, <2>2 DEF SbeOK
<1> QED
  BY <1>3, <1>4, <1>5, <1>6, <1>7 DEF Parts

\* list_del() in p9_sbe_msg_complete takes out the head, with the lock held.
LEMMA UnlinkParts ==
  ASSUME MboxInv, UNCHANGED trouble, NEW c \in CPUs, complete_unlink(c) PROVE Parts'
<1>m. PICK m : m = loc[c].msg
  OBVIOUS
<1>0. /\ UNCHANGED <<lock, state, mstate, inuse, loc, cmd, working, doorbell>>
      /\ pc[c] = "complete" /\ msg_list' = RemoveFirst(msg_list, m)
      /\ pc' = [pc EXCEPT ![c] = "unlinked"] /\ pc[c] \in Held
  BY <1>m DEF complete_unlink, Goto, Held, sbe
<1>1. lock = c /\ pc'[c] = "unlinked" /\ Only(c)
  BY <1>0, Alone DEF Only, MboxInv, TypeOK
<1>2. msg_list # <<>> /\ m = Head(msg_list) /\ m \in Msgs /\ m \in inuse
      /\ mstate[m] \in BusyStates /\ OnList(m)
  BY <1>0, <1>m, HeadFacts, OnListFacts DEF MboxInv, CompletingOK
<1>3. OwnerOK'
  BY <1>0, <1>1, OwnerStep DEF Only, Held
<1>4. ListOK'
  <2>1. /\ Distinct(msg_list') /\ Len(msg_list') \in Nat
        /\ \A i \in 1..Len(msg_list') :
             \E j \in 1..Len(msg_list) : j >= i /\ msg_list'[i] = msg_list[j]
    BY <1>0, <1>2, ListRemove
  <2>2. \A i \in 1..Len(msg_list') :
          msg_list'[i] \in inuse /\ mstate[msg_list'[i]] \in BusyStates
    BY <2>1 DEF MboxInv, ListOK
  <2>3. \A i \in 2..Len(msg_list') : mstate[msg_list'[i]] = "queued"
    <3> TAKE i \in 2..Len(msg_list')
    <3>1. i \in 1..Len(msg_list') /\ Len(msg_list) \in Nat
      BY <2>1 DEF MboxInv, TypeOK
    <3>2. PICK j \in 1..Len(msg_list) : j >= i /\ msg_list'[i] = msg_list[j]
      BY <2>1, <3>1
    <3>3. j \in 2..Len(msg_list)
      BY <3>1, <3>2
    <3> QED
      BY <3>2, <3>3 DEF MboxInv, ListOK
  <2> QED
    BY <1>0, <2>1, <2>2, <2>3 DEF ListOK, Distinct
<1>o. ~OnList(m)' /\ \A x : OnList(x)' => OnList(x)
  BY <1>0, <1>2, OnListRemove
<1>5. CompletingOK'
  <2>1. CompletingCpu(c)'
    BY <1>0, <1>1, <1>2, <1>m, <1>o DEF CompletingCpu
  <2>2. ASSUME NEW d \in CPUs, d # c PROVE CompletingCpu(d)'
    <3>1. pc'[d] = pc[d] /\ loc'[d] = loc[d] /\ pc[d] \notin Held
      BY <1>0, <1>1, <2>2, Alone DEF Only
    <3>2. pc[d] = "unlinked" => loc[d].msg \in inuse /\ ~OnList(loc[d].msg)
      BY DEF MboxInv, CompletingOK
    <3>3. OnList(loc[d].msg)' => OnList(loc[d].msg)
      BY <1>o, <3>1
    <3>4. pc[d] # "complete"
      BY <3>1 DEF Held
    <3> QED
      BY <1>0, <3>1, <3>2, <3>3, <3>4, CompletingStays
  <2> QED
    BY <1>1, <2>1, <2>2, CompletingFrame DEF Only
<1>6. "xscom" \notin trouble => state = "idle" /\ loc[c].ret # "retry"
  BY <1>0 DEF MboxInv, FlightOK
<1>7. FlightOK'
  BY <1>0, <1>1, <1>6, FlightStays
<1>8. SbeOK'
  <2>1. trouble = {} => state = "idle" /\ cmd = NoMsg /\ working = NoMsg /\ doorbell = {}
    BY <1>6 DEF MboxInv, SbeOK
  <2> QED
    BY <1>0, <2>1 DEF SbeOK
<1> QED
  BY <1>3, <1>4, <1>5, <1>7, <1>8 DEF Parts

\* ... sets the state of the message, which no other CPU completes, and lets go of the lock
\* for its completion function.
LEMMA StateParts ==
  ASSUME MboxInv, UNCHANGED trouble, NEW c \in CPUs, complete_state(c) PROVE Parts'
<1>m. PICK m : m = loc[c].msg
  OBVIOUS
<1>0. /\ UNCHANGED <<msg_list, state, loc, cmd, working, doorbell>>
      /\ inuse' = inuse \/ inuse' = inuse \ {m}
      /\ pc[c] = "unlinked" /\ pc[c] \in Held /\ mstate' = [mstate EXCEPT ![m] = loc[c].final]
  BY <1>m DEF complete_state, Held, sbe
<1>1. /\ loc[c].ret \in {"retry", "again", "process"} /\ m \in Msgs
      /\ loc[c].final \in FinalStates /\ m \in inuse /\ ~OnList(m) /\ mstate[m] \in BusyStates
  BY <1>0, <1>m DEF MboxInv, LocOK, CompletingOK
<1>2. /\ lock = c /\ Only(c)
      /\ \/ lock' = NoCpu /\ pc'[c] = "comp"
         \/ lock' = c /\ pc'[c] = loc[c].ret
  <2>1. lock = c /\ pc \in [CPUs -> Places]
    BY <1>0, Alone DEF MboxInv, TypeOK, Places
  <2>2. \/ lock' = NoCpu /\ pc' = [pc EXCEPT ![c] = "comp"]
        \/ lock' = lock /\ pc' = [pc EXCEPT ![c] = loc[c].ret]
    BY <1>m DEF complete_state, Goto
  <2> QED
    BY <1>0, <2>1, <2>2 DEF Only
<1>3. mstate'[m] \in FinalStates /\ \A x \in Msgs \ {m} : mstate'[x] = mstate[x]
  BY <1>0, <1>1 DEF MboxInv, TypeOK
<1>4. OwnerOK'
  BY <1>1, <1>2, OwnerStep DEF Only, Held
<1>5. ListOK'
  BY <1>0, <1>1, <1>3, ListFrame, OnListFacts
<1>6. CompletingOK'
  <2>1. CompletingCpu(c)'
    BY <1>1, <1>2 DEF CompletingCpu
  <2>2. ASSUME NEW d \in CPUs, d # c PROVE CompletingCpu(d)'
    <3>1. pc'[d] = pc[d] /\ pc[d] \notin Held
      BY <1>0, <1>2, <2>2, Alone DEF Only
    <3> QED
      BY <3>1 DEF CompletingCpu, Held
  <2> QED
    BY <2>1, <2>2, CompletingFrame
<1>8. "xscom" \notin trouble => state = "idle" /\ loc[c].ret # "retry"
  BY <1>0 DEF MboxInv, FlightOK
<1>9. FlightOK'
  BY <1>0, <1>1, <1>2, <1>8, FlightStays
<1>10. SbeOK'
  <2>1. trouble = {} => state = "idle" /\ cmd = NoMsg /\ working = NoMsg /\ doorbell = {}
    BY <1>8 DEF MboxInv, SbeOK
  <2> QED
    BY <1>0, <2>1 DEF SbeOK
<1> QED
  BY <1>4, <1>5, <1>6, <1>9, <1>10 DEF Parts

\* p9_sbe_sync_msg sees without the lock that its message is not busy, and that is enough.
LEMMA SyncParts ==
  ASSUME MboxInv, UNCHANGED trouble, NEW m \in Msgs, p9_sbe_sync_msg(m) PROVE Parts'
<1>0. /\ UNCHANGED <<lock, msg_list, state, mstate, pc, loc, cmd, working, doorbell>>
      /\ inuse' = inuse \ {m} /\ m \notin CompMsgs /\ mstate[m] \notin BusyStates
  BY DEF p9_sbe_sync_msg, p9_sbe_msg_busy, sbe, BusyStates
<1>1. ~OnList(m)
  BY <1>0, OnListFacts
<1>2. \A d \in CPUs : pc[d] = "unlinked" => loc[d].msg # m
  BY <1>0 DEF MboxInv, CompletingOK
<1>3. OwnerOK'
  BY <1>0 DEF MboxInv, OwnerOK, Held
<1>4. ListOK'
  BY <1>0, <1>1, ListFrame, OnListFacts
<1>5. CompletingOK'
  <2>1. ASSUME NEW d \in CPUs PROVE CompletingCpu(d)'
    <3>1. pc[d] = "unlinked" => loc[d].msg \in inuse /\ ~OnList(loc[d].msg)
      BY DEF MboxInv, CompletingOK
    <3>2. OnList(loc[d].msg)' <=> OnList(loc[d].msg)
      BY <1>0 DEF OnList
    <3> QED
      BY <1>0, <1>2, <3>1, <3>2, CompletingStays
  <2> QED
    BY <2>1, CompletingFrame
<1>6. FlightOK' /\ SbeOK'
  BY <1>0 DEF MboxInv, FlightOK, SbeOK
<1> QED
  BY <1>3, <1>4, <1>5, <1>6 DEF Parts

\* p9_sbe_cancelmsg takes out a message that is not the one in flight, while no CPU is
\* inside of the driver.
LEMMA CancelParts ==
  ASSUME MboxInv, UNCHANGED trouble, NEW c \in CPUs, NEW m \in Msgs, p9_sbe_cancelmsg(c, m)
  PROVE  Parts'
<1>0. /\ UNCHANGED <<lock, state, pc, loc, cmd, working, doorbell>>
      /\ lock = NoCpu /\ m \in inuse /\ mstate[m] = "queued"
      /\ msg_list' = RemoveFirst(msg_list, m)
      /\ mstate' = [mstate EXCEPT ![m] = "done"] /\ inuse' = inuse \ {m}
  BY DEF p9_sbe_cancelmsg, sbe
<1>1. \A x \in Msgs \ {m} : mstate'[x] = mstate[x]
  BY <1>0 DEF MboxInv, TypeOK
<1>2. OwnerOK'
  BY <1>0 DEF MboxInv, OwnerOK
<1>r. /\ \A d \in CPUs : pc[d] \notin Held
      /\ msg_list \in Seq(Msgs) /\ Len(msg_list) \in Nat
  BY <1>0, Alone DEF MboxInv, TypeOK
<1>3. CASE OnList(m)
  <2>1. /\ Distinct(msg_list') /\ Len(msg_list') \in Nat
        /\ \A i \in 1..Len(msg_list') :
             \E j \in 1..Len(msg_list) : j >= i /\ msg_list'[i] = msg_list[j] /\ msg_list[j] # m
        /\ msg_list # <<>> /\ Head(msg_list) # m =>
             msg_list' # <<>> /\ Head(msg_list') = Head(msg_list)
        /\ ~OnList(m)' /\ \A x : OnList(x)' => OnList(x)
    BY <1>0, <1>3, ListRemove, OnListRemove
  <2>2. ListOK'
    <3>1. ASSUME NEW i \in 1..Len(msg_list')
          PROVE  /\ msg_list'[i] \in inuse' /\ mstate'[msg_list'[i]] \in BusyStates
                 /\ i >= 2 => mstate'[msg_list'[i]] = "queued"
      <4>1. PICK j \in 1..Len(msg_list) :
                   j >= i /\ msg_list'[i] = msg_list[j] /\ msg_list[j] # m
        BY <2>1
      <4>2. msg_list[j] \in Msgs /\ msg_list[j] \in inuse /\ mstate[msg_list[j]] \in BusyStates
        BY <1>r DEF MboxInv, ListOK
      <4>3. i >= 2 => j \in 2..Len(msg_list)
        BY <1>r, <2>1, <4>1
      <4>4. i >= 2 => mstate[msg_list[j]] = "queued"
        BY <4>3 DEF MboxInv, ListOK
      <4> QED
        BY <1>0, <1>1, <4>1, <4>2, <4>4
    <3>2. \A i \in 2..Len(msg_list') : i \in 1..Len(msg_list') /\ i >= 2
      BY <2>1
    <3> QED
      BY <2>1, <3>1, <3>2 DEF ListOK, Distinct
  <2>3. CompletingOK'
    <3>1. ASSUME NEW d \in CPUs PROVE CompletingCpu(d)'
      <4>1. pc[d] = "unlinked" =>
              /\ loc[d].msg \in inuse /\ ~OnList(loc[d].msg) /\ loc[d].msg \in Msgs
        BY DEF MboxInv, CompletingOK, LocOK
      <4>2. pc[d] = "unlinked" => loc[d].msg # m
        BY <1>3, <4>1
      <4>3. OnList(loc[d].msg)' => OnList(loc[d].msg)
        <5>1. PICK x : x = loc[d].msg
          OBVIOUS
        <5> QED
          BY <1>0, <2>1, <5>1 DEF OnList
      <4>4. pc[d] # "complete" /\ pc'[d] = pc[d] /\ loc'[d] = loc[d]
        BY <1>0, <1>r DEF Held
      <4> QED
        BY <1>0, <1>1, <4>1, <4>2, <4>3, <4>4, CompletingStays
    <3> QED
      BY <1>0, <3>1, CompletingFrame
  <2>4. ASSUME "xscom" \notin trouble, state = "send"
        PROVE  /\ msg_list # <<>> /\ msg_list' # <<>> /\ Head(msg_list') = Head(msg_list)
               /\ mstate[Head(msg_list)] \in {"sent", "wresp"}
               /\ mstate'[Head(msg_list)] = mstate[Head(msg_list)]
    <3>1. msg_list # <<>> /\ mstate[Head(msg_list)] \in {"sent", "wresp"}
      BY <2>4 DEF MboxInv, FlightOK
    <3>2. Head(msg_list) # m /\ Head(msg_list) \in Msgs
      BY <1>0, <3>1, HeadFacts
    <3> QED
      BY <1>1, <2>1, <3>1, <3>2
  <2>5. FlightOK'
    BY <1>0, <2>4 DEF MboxInv, FlightOK
  <2>6. SbeOK'
    <3>1. trouble = {} /\ state = "send" =>
            Head(msg_list') = Head(msg_list) /\ mstate'[Head(msg_list)] = mstate[Head(msg_list)]
      BY <2>4
    <3> QED
      BY <1>0, <3>1 DEF MboxInv, SbeOK
  <2> QED
    BY <1>2, <2>2, <2>3, <2>5, <2>6 DEF Parts
<1>4. CASE ~OnList(m)
  <2>1. msg_list' = msg_list
    BY <1>0, <1>4 DEF RemoveFirst, OnList
  <2>2. ListOK'
    BY <1>0, <1>1, <1>4, <2>1, ListFrame, OnListFacts
  <2>3. CompletingOK'
    <3>1. ASSUME NEW d \in CPUs PROVE CompletingCpu(d)'
      <4>1. pc[d] \notin {"complete", "unlinked"} /\ pc'[d] = pc[d]
        BY <1>0, <1>r DEF Held
      <4> QED
        BY <4>1 DEF CompletingCpu
    <3> QED
      BY <1>0, <3>1, CompletingFrame
  <2>4. ASSUME msg_list # <<>> PROVE mstate'[Head(msg_list)] = mstate[Head(msg_list)]
    BY <1>1, <1>4, <2>4, OnListFacts
  <2>5. FlightOK'
    BY <1>0, <2>1, <2>4 DEF MboxInv, FlightOK
  <2>6. SbeOK'
    <3>1. trouble = {} /\ state = "send" => msg_list # <<>>
      BY DEF MboxInv, FlightOK
    <3> QED
      BY <1>0, <2>1, <2>4, <3>1 DEF MboxInv, SbeOK
  <2> QED
    BY <1>2, <2>2, <2>3, <2>5, <2>6 DEF Parts
<1> QED
  BY <1>3, <1>4

\* p9_sbe_queue_msg adds behind what is in flight.
LEMMA QueueParts ==
  ASSUME MboxInv, UNCHANGED trouble, NEW c \in CPUs, NEW m \in Msgs, p9_sbe_queue_msg(c, m)
  PROVE  Parts'
<1>0. /\ UNCHANGED <<state, loc, cmd, working, doorbell>>
      /\ lock = NoCpu /\ lock' = c /\ m \notin inuse /\ inuse' = inuse \cup {m}
      /\ mstate' = [mstate EXCEPT ![m] = "queued"]
      /\ msg_list' = Append(msg_list, m) /\ pc' = [pc EXCEPT ![c] = "process"]
  BY DEF p9_sbe_queue_msg, Goto
<1>1. /\ \A x \in Msgs \ {m} : mstate'[x] = mstate[x]
      /\ mstate'[m] = "queued" /\ pc'[c] = "process" /\ Only(c)
  BY <1>0 DEF MboxInv, TypeOK, Only
<1>2. /\ Distinct(msg_list') /\ Len(msg_list) \in Nat /\ Len(msg_list') = Len(msg_list) + 1
      /\ msg_list'[Len(msg_list) + 1] = m
      /\ \A i \in 1..Len(msg_list) : msg_list'[i] = msg_list[i]
      /\ \A x : OnList(x)' => OnList(x) \/ x = m
      /\ msg_list # <<>> => msg_list' # <<>> /\ Head(msg_list') = Head(msg_list)
  BY <1>0, ListAppend
<1>3. OwnerOK'
  BY <1>0, <1>1, OwnerStep DEF Only, Held
<1>4. ListOK'
  <2>1. ASSUME NEW i \in 1..Len(msg_list')
        PROVE  /\ msg_list'[i] \in inuse' /\ mstate'[msg_list'[i]] \in BusyStates
               /\ i >= 2 => mstate'[msg_list'[i]] = "queued"
    <3>1. CASE i = Len(msg_list) + 1
      BY <1>0, <1>1, <1>2, <3>1 DEF BusyStates
    <3>2. CASE i \in 1..Len(msg_list)
      <4>1. /\ msg_list[i] \in Msgs /\ msg_list[i] \in inuse /\ mstate[msg_list[i]] \in BusyStates
            /\ msg_list[i] # m
        BY <1>0, <3>2 DEF MboxInv, TypeOK, ListOK
      <4>2. i >= 2 => i \in 2..Len(msg_list)
        BY <1>2, <3>2
      <4>3. i >= 2 => mstate[msg_list[i]] = "queued"
        BY <4>2 DEF MboxInv, ListOK
      <4> QED
        BY <1>0, <1>1, <1>2, <3>2, <4>1, <4>3
    <3> QED
      BY <1>2, <3>1, <3>2
  <2>2. \A i \in 2..Len(msg_list') : i \in 1..Len(msg_list') /\ i >= 2
    BY <1>2
  <2> QED
    BY <1>2, <2>1, <2>2 DEF ListOK, Distinct
<1>5. CompletingOK'
  <2>1. CompletingCpu(c)'
    BY <1>1 DEF CompletingCpu
  <2>2. ASSUME NEW d \in CPUs, d # c PROVE CompletingCpu(d)'
    <3>1. pc'[d] = pc[d] /\ loc'[d] = loc[d] /\ pc[d] \notin Held
      BY <1>0, <1>1, <2>2, Alone DEF Only
    <3>2. pc[d] = "unlinked" =>
            loc[d].msg \in Msgs /\ loc[d].msg \in inuse /\ ~OnList(loc[d].msg)
      BY DEF MboxInv, CompletingOK, LocOK
    <3>3. pc[d] = "unlinked" => loc[d].msg # m
      BY <1>0, <3>2
    <3>4. pc[d] = "unlinked" => ~OnList(loc[d].msg)'
      <4>1. PICK x : x = loc[d].msg
        OBVIOUS
      <4> QED
        BY <1>0, <1>2, <3>2, <3>3, <4>1 DEF OnList
    <3>5. pc[d] # "complete"
      BY <3>1 DEF Held
    <3> QED
      BY <1>0, <1>1, <3>1, <3>2, <3>3, <3>4, <3>5, CompletingStays
  <2> QED
    BY <1>1, <2>1, <2>2, CompletingFrame DEF Only
<1>6. ASSUME "xscom" \notin trouble, state = "send"
      PROVE  /\ msg_list # <<>> /\ msg_list' # <<>> /\ Head(msg_list') = Head(msg_list)
             /\ mstate[Head(msg_list)] \in {"sent", "wresp"}
             /\ mstate'[Head(msg_list)] = mstate[Head(msg_list)]
  <2>1. msg_list # <<>> /\ mstate[Head(msg_list)] \in {"sent", "wresp"}
    BY <1>6 DEF MboxInv, FlightOK
  <2>2. Head(msg_list) \in inuse /\ Head(msg_list) \in Msgs
    BY <2>1, HeadFacts
  <2> QED
    BY <1>0, <1>1, <1>2, <2>1, <2>2
<1>7. FlightOK'
  <2>1. "xscom" \notin trouble => loc'[c].ret # "retry"
    BY <1>0 DEF MboxInv, FlightOK
  <2> QED
    BY <1>0, <1>1, <1>6, <2>1, FlightStays
<1>8. SbeOK'
  <2>1. trouble = {} /\ state = "send" =>
          Head(msg_list') = Head(msg_list) /\ mstate'[Head(msg_list)] = mstate[Head(msg_list)]
    BY <1>6
  <2> QED
    BY <1>0, <2>1 DEF MboxInv, SbeOK
<1> QED
  BY <1>3, <1>4, <1>5, <1>7, <1>8 DEF Parts

\* The doorbell says something of the head, or of no message: __p9_sbe_interrupt, apart from
\* the completions.
Rings(c) ==
  /\ UNCHANGED <<trouble, lock, msg_list, inuse, loc, cmd, working>> /\ lock = c
  /\ Only(c) /\ pc'[c] \in {"again", "timeout", "process"}
  /\ \/ state' = "idle"
     \/ state' = state /\ UNCHANGED mstate
     \/ state' = state /\ msg_list # <<>> /\ mstate'[Head(msg_list)] = "wresp"
  /\ \A x \in Msgs : mstate'[x] # mstate[x] =>
       msg_list # <<>> /\ x = Head(msg_list) /\ mstate'[x] \in BusyStates

\* These steps keep the invariant, if they keep what it says of the SBE.
LEMMA DoorbellParts == ASSUME MboxInv, NEW c \in CPUs, Rings(c), SbeOK' PROVE Parts'
<1> USE DEF Rings
<1>1. OwnerOK'
  BY OwnerStep DEF Only, Held
<1>2. ListOK'
  BY ListFrame, OnListFacts
<1>3. CompletingOK'
  <2>1. CompletingCpu(c)'
    BY DEF CompletingCpu
  <2>2. ASSUME NEW d \in CPUs, d # c PROVE CompletingCpu(d)'
    <3>1. pc'[d] = pc[d] /\ loc'[d] = loc[d]
      BY <2>2 DEF Only
    <3>2. pc[d] = "unlinked" =>
            loc[d].msg \in Msgs /\ loc[d].msg \in inuse /\ ~OnList(loc[d].msg)
      BY DEF MboxInv, CompletingOK, LocOK
    <3>3. OnList(loc[d].msg)' <=> OnList(loc[d].msg)
      BY <3>1 DEF OnList
    <3>4. pc[d] = "unlinked" => mstate'[loc[d].msg] = mstate[loc[d].msg]
      BY <3>2, OnListFacts
    <3> QED
      BY <3>1, <3>2, <3>3, <3>4, CompletingStays
  <2> QED
    BY <2>1, <2>2, CompletingFrame DEF Only
<1>4. FlightOK'
  <2>1. "xscom" \notin trouble => loc'[c].ret # "retry"
    BY DEF MboxInv, FlightOK
  <2>2. "xscom" \notin trouble /\ state' = "send" =>
          msg_list' # <<>> /\ mstate'[Head(msg_list')] \in {"sent", "wresp"}
    BY DEF MboxInv, FlightOK
  <2> QED
    BY <2>1, <2>2, FlightStays
<1> QED
  BY <1>1, <1>2, <1>3, <1>4 DEF Parts

\* SBE_HOST_RESET.
LEMMA ResetBitParts ==
  ASSUME MboxInv, UNCHANGED trouble, NEW c \in CPUs, doorbell_reset(c) PROVE Parts'
<1>0. /\ UNCHANGED <<lock, msg_list, inuse, loc, cmd, working>>
      /\ pc[c] = "again" /\ pc[c] \in Held /\ "reset" \in doorbell /\ state' = "idle"
      /\ pc' = [pc EXCEPT ![c] = AfterInterrupt(c)]
  BY DEF doorbell_reset, Goto, Held
<1>1. lock = c /\ Only(c) /\ pc'[c] \in {"again", "timeout", "process"}
  <2>1. AfterInterrupt(c) \in {"timeout", "process"}
    BY DEF AfterInterrupt
  <2> QED
    BY <1>0, <2>1, Alone DEF Only, MboxInv, TypeOK
<1>2. \A x \in Msgs : mstate'[x] # mstate[x] =>
        msg_list # <<>> /\ x = Head(msg_list) /\ mstate'[x] \in BusyStates
  <2>1. CASE msg_list = <<>>
    BY <2>1 DEF doorbell_reset
  <2>2. CASE msg_list # <<>>
    <3>1. mstate' = [mstate EXCEPT ![Head(msg_list)] = "queued"]
      BY <2>2 DEF doorbell_reset
    <3> QED
      BY <2>2, <3>1 DEF MboxInv, TypeOK, BusyStates
  <2> QED
    BY <2>1, <2>2
<1>3. SbeOK'
  BY <1>0 DEF MboxInv, SbeOK
<1> QED
  BY <1>0, <1>1, <1>2, <1>3, DoorbellParts DEF Rings

\* SBE_HOST_MSG_READ, when the head waits for its response or there is none.
LEMMA ReadBitParts ==
  ASSUME MboxInv, UNCHANGED trouble, NEW c \in CPUs, p9_sbe_send_complete(c),
         msg_list = <<>> \/ Head(msg_list) \in RespMsgs
  PROVE  Parts'
<1>0. /\ UNCHANGED <<lock, msg_list, inuse, loc, cmd, working, state, pc>>
      /\ pc[c] = "again" /\ pc[c] \in Held /\ "read" \in doorbell
      /\ doorbell' = doorbell \ {"read"}
      /\ \/ msg_list = <<>> /\ UNCHANGED mstate
         \/ msg_list # <<>> /\ mstate' = [mstate EXCEPT ![Head(msg_list)] = "wresp"]
  BY DEF p9_sbe_send_complete, Held
<1>1. lock = c /\ Only(c) /\ pc'[c] \in {"again", "timeout", "process"}
  BY <1>0, Alone DEF Only
<1>2. /\ \A x \in Msgs : mstate'[x] # mstate[x] =>
           msg_list # <<>> /\ x = Head(msg_list) /\ mstate'[x] \in BusyStates
      /\ UNCHANGED mstate \/ (msg_list # <<>> /\ mstate'[Head(msg_list)] = "wresp")
  <2>1. msg_list # <<>> => Head(msg_list) \in Msgs
    BY HeadFacts
  <2> QED
    BY <1>0, <2>1 DEF MboxInv, TypeOK, BusyStates
<1>3. SbeOK'
  <2>1. ASSUME trouble = {} PROVE /\ state = "send" /\ cmd = NoMsg /\ msg_list # <<>>
                                  /\ \/ working # NoMsg /\ doorbell' = {}
                                     \/ working = NoMsg /\ doorbell' = {"response"}
    <3>1. state = "send" /\ cmd = NoMsg
      BY <1>0, <2>1 DEF MboxInv, SbeOK
    <3>2. msg_list # <<>>
      BY <2>1, <3>1 DEF MboxInv, FlightOK
    <3>3. Head(msg_list) \in RespMsgs
      BY <3>2
    <3> QED
      BY <1>0, <2>1, <3>1, <3>2, <3>3 DEF MboxInv, SbeOK
  <2>2. trouble = {} => mstate'[Head(msg_list)] = "wresp"
    BY <1>0, <2>1, HeadFacts DEF MboxInv, TypeOK
  <2> QED
    BY <1>0, <2>1, <2>2 DEF SbeOK
<1> QED
  BY <1>0, <1>1, <1>2, <1>3, DoorbellParts DEF Rings

\* SBE_HOST_RESPONSE_WAITING with an empty queue, which takes trouble.
LEMMA ResponseBitParts ==
  ASSUME MboxInv, UNCHANGED trouble, NEW c \in CPUs, doorbell_response(c), msg_list = <<>>
  PROVE  Parts'
<1>0. /\ UNCHANGED <<lock, msg_list, inuse, mstate, loc, cmd, working, pc>> /\ state' = "idle"
      /\ pc[c] = "again" /\ pc[c] \in Held /\ "response" \in doorbell
      /\ "read" \notin doorbell
  BY DEF doorbell_response, Held
<1>1. lock = c /\ Only(c) /\ pc'[c] \in {"again", "timeout", "process"}
  BY <1>0, Alone DEF Only
<1>2. trouble # {}
  BY <1>0 DEF MboxInv, SbeOK, FlightOK
<1>3. SbeOK'
  BY <1>2 DEF SbeOK
<1> QED
  BY <1>0, <1>1, <1>3, DoorbellParts DEF Rings

\* The SBE only touches its registers.
LEMMA SbeParts ==
  ASSUME MboxInv, UNCHANGED trouble, SbeRead \/ SbeRespond \/ SbeReset PROVE Parts'
<1>1. UNCHANGED <<lock, msg_list, state, mstate, inuse, pc, loc>>
  BY DEF SbeRead, SbeRespond, SbeReset, driver
<1>2. OwnerOK' /\ ListOK' /\ FlightOK'
  BY <1>1 DEF MboxInv, OwnerOK, ListOK, Distinct, FlightOK
<1>3. CompletingOK'
  BY <1>1 DEF MboxInv, CompletingOK, OnList
<1>4. SbeOK'
  <2> SUFFICES ASSUME trouble = {} PROVE SbeOK'
    BY DEF SbeOK
  <2>0. state = "send" => msg_list # <<>> /\ Head(msg_list) \in Msgs
    BY HeadFacts DEF MboxInv, FlightOK
  <2>1. CASE SbeRead
    <3>1. /\ state = "send" /\ cmd = Head(msg_list) /\ working = NoMsg /\ doorbell = {}
          /\ mstate[Head(msg_list)] = "sent" /\ Head(msg_list) \in Msgs
      BY <2>0, <2>1 DEF SbeRead, MboxInv, SbeOK
    <3>2. /\ cmd' = NoMsg /\ doorbell' = {"read"}
          /\ working' = IF Head(msg_list) \in RespMsgs THEN Head(msg_list) ELSE NoMsg
      BY <2>1, <3>1 DEF SbeRead
    <3>3. Head(msg_list) # NoMsg
      BY <3>1, SbeMboxAssumption
    <3> QED
      BY <1>1, <3>1, <3>2, <3>3 DEF SbeOK
  <2>2. CASE SbeRespond
    <3>1. /\ working # NoMsg /\ working' = NoMsg /\ cmd' = cmd
          /\ doorbell' = doorbell \cup {"response"}
      BY <2>2 DEF SbeRespond
    <3>2. /\ state = "send" /\ cmd = NoMsg
          /\ \/ /\ mstate[Head(msg_list)] = "sent" /\ Head(msg_list) \in RespMsgs
                /\ doorbell = {"read"}
             \/ mstate[Head(msg_list)] = "wresp" /\ doorbell = {}
      BY <3>1 DEF MboxInv, SbeOK
    <3>3. \/ /\ mstate[Head(msg_list)] = "sent" /\ Head(msg_list) \in RespMsgs
             /\ doorbell' = {"read", "response"}
          \/ mstate[Head(msg_list)] = "wresp" /\ doorbell' = {"response"}
      BY <3>1, <3>2
    <3> QED
      BY <1>1, <3>1, <3>2, <3>3 DEF SbeOK
  <2>3. CASE SbeReset
    BY <2>3 DEF SbeReset
  <2> QED
    BY <2>1, <2>2, <2>3
<1> QED
  BY <1>2, <1>3, <1>4 DEF Parts

\* Every step keeps the invariant.
LEMMA MboxStep == MboxInv /\ [Next]_vars => MboxInv'
<1> SUFFICES ASSUME MboxInv, [Next]_vars PROVE MboxInv'
  OBVIOUS
<1>1. CASE UNCHANGED trouble /\ \E c \in CPUs : CpuStep(c)
  <2>1. PICK c \in CPUs : CpuStep(c)
    BY <1>1
  <2>2. p9_sbe_send_complete(c) =>
          Parts' \/ (msg_list # <<>> /\ Head(msg_list) \notin RespMsgs)
    BY <1>1, ReadBitParts
  <2>3. doorbell_response(c) => Parts' \/ msg_list # <<>>
    BY <1>1, ResponseBitParts
  <2>4. Parts'
    BY <1>1, <2>1, <2>2, <2>3, QuietSteps, QuietParts, FinishSteps, FinishParts, SendParts,
       UnlinkParts, StateParts, ResetBitParts DEF CpuStep
  <2> QED
    BY <2>4, MboxTypeStep DEF Parts, MboxInv
<1>2. CASE UNCHANGED trouble /\ \E c \in CPUs :
             \/ p9_sbe_interrupt(c) \/ p9_sbe_timeout_poll_one(c)
             \/ \E m \in Msgs : p9_sbe_queue_msg(c, m) \/ p9_sbe_cancelmsg(c, m)
  BY <1>2, QuietSteps, QuietParts, QueueParts, CancelParts, MboxTypeStep DEF Parts, MboxInv
<1>3. CASE /\ UNCHANGED trouble
           /\ SbeRead \/ SbeRespond \/ SbeReset \/ \E m \in Msgs : p9_sbe_sync_msg(m)
  BY <1>3, SbeParts, SyncParts, MboxTypeStep DEF Parts, MboxInv
<1>4. CASE UNCHANGED vars
  <2>1. Parts'
    BY <1>4 DEF vars, moving, driver, sbe, Parts, MboxInv, OwnerOK, ListOK, Distinct,
                CompletingOK, OnList, FlightOK, SbeOK
  <2> QED
    BY <2>1, MboxTypeStep DEF Parts, MboxInv
<1> QED
  BY <1>1, <1>2, <1>3, <1>4 DEF Next

\* It holds at the start.
LEMMA MboxInit == Init => MboxInv
<1> SUFFICES ASSUME Init PROVE MboxInv
  OBVIOUS
<1>1. NoLoc \in Locals /\ NoLoc.ret = "run" /\ NoLoc.msg = NoMsg /\ NoLoc.retry = 0
  BY SbeMboxAssumption DEF NoLoc, Locals
<1>2. MaxQueued(trouble) \in Nat /\ RetryMax \in Nat /\ MaxResets \in Nat
  BY SbeMboxAssumption DEF Init
<1>3. TypeOK
  BY <1>1, <1>2 DEF Init, TypeOK
<1>4. OwnerOK /\ LocOK
  BY <1>1, SbeMboxAssumption DEF Init, OwnerOK, LocOK, Held
<1>5. Len(msg_list) = 0
  BY DEF Init
<1>6. ListOK /\ CompletingOK
  BY <1>5 DEF Init, ListOK, Distinct, CompletingOK
<1>7. FlightOK /\ SbeOK
  BY <1>1 DEF Init, FlightOK, SbeOK
<1> QED
  BY <1>3, <1>4, <1>6, <1>7 DEF MboxInv

\* The invariant of the mailbox of hw/sbe-p9.c: the lock, the queue, what is completed, what
\* is in flight and what the SBE is at fit together, for any number of CPUs and messages.
THEOREM MboxInvariant == Spec => []MboxInv
BY MboxInit, MboxStep, PTL DEF Spec

\* A message that its owner has back, from p9_sbe_sync_msg, a completion function or
\* p9_sbe_cancelmsg, is not on the queue and no CPU is about to unlink it or write to it.
THEOREM MboxGivenBackMeansGone == Spec => []GivenBackMeansGone
<1>1. MboxInv => GivenBackMeansGone
  <2> SUFFICES ASSUME MboxInv, NEW m \in Msgs \ inuse
               PROVE  /\ ~Contains(msg_list, m)
                      /\ \A c \in CPUs : pc[c] \in {"complete", "unlinked"} => loc[c].msg # m
    BY DEF GivenBackMeansGone, MboxInv
  <2>1. ~Contains(msg_list, m)
    BY DEF Contains, MboxInv, ListOK
  <2>2. ASSUME NEW c \in CPUs, pc[c] \in {"complete", "unlinked"} PROVE loc[c].msg \in inuse
    BY <2>2, HeadFacts DEF MboxInv, CompletingOK
  <2> QED
    BY <2>1, <2>2
<1> QED
  BY <1>1, MboxInvariant, PTL

\* "Head of msg_list contains in-flight message": through timeouts and resets, as long as
\* xscom works.
THEOREM MboxHeadInFlight == Spec => []HeadInFlight
<1>1. MboxInv => HeadInFlight
  BY DEF MboxInv, TypeOK, FlightOK, ListOK, HeadInFlight, p9_sbe_mbox_busy
<1> QED
  BY <1>1, MboxInvariant, PTL

\* When nothing goes wrong p9_sbe_msg_send writes the command registers only when the SBE is
\* through with the message before.
THEOREM MboxOneCommandCalm == Spec => OneCommandCalm
<1>1. MboxInv /\ [Next]_vars =>
        [(\E c \in CPUs : p9_sbe_msg_send(c)) /\ trouble = {}
           => cmd = NoMsg /\ working = NoMsg]_vars
  <2> SUFFICES ASSUME MboxInv, NEW c \in CPUs, p9_sbe_msg_send(c), trouble = {}
               PROVE  cmd = NoMsg /\ working = NoMsg
    OBVIOUS
  <2>1. state = "idle"
    BY DEF p9_sbe_msg_send, MboxInv, FlightOK
  <2> QED
    BY <2>1 DEF MboxInv, SbeOK
<1> QED
  BY <1>1, MboxInvariant, PTL DEF Spec, OneCommandCalm

-----------------------------------------------------------------------------
(* The timer. *)

\* The CPUs between taking sbe_timer_lock and the call to p9_sbe_queue_msg hold
\* it; so does, to the end of the completion function, one whose message could
\* not be sent; and nobody else.
TimerLockOK ==
  \A c \in CPUs :
    /\ timer_pc[c] \in {"record", "fresh", "schedule", "queue"} => sbe_timer_lock = c
    /\ sbe_timer_lock = c =>
         timer_pc[c] \in {"record", "fresh", "schedule", "queue", "comp", "comppeek"}

\* A CPU on its way to queue timer_ctrl_msg has seen it free and no other target
\* recorded; the latter is still so when the completion function is called
\* from there.
TimerSendOK ==
  \A c \in CPUs :
    /\ timer_pc[c] \in {"fresh", "schedule", "queue"} => ~timer_msg_busy
    /\ sbe_timer_lock = c /\ timer_pc[c] # "record" => ~has_new_target

\* The inductive invariant.
TimerInv == SbeTimerTypeOK /\ TimerLockOK /\ TimerSendOK

\* No time a timer can be set to is as late as Never.
LEMMA NeverFacts == Never \in Nat /\ Horizon + MaxTick < Never /\ NoTick \in 0..MaxTick
BY SbeTimerAssumption DEF Never, NoTick

\* A CPU that returns leaves the locks typed.
LEMMA LeaveTypes ==
  ASSUME SbeTimerTypeOK, NEW c \in CPUs, Leave(c)
  PROVE  /\ timer_lock' \in CPUs \cup {NoCpu} /\ sbe_timer_lock' \in CPUs \cup {NoCpu}
         /\ new' \in [CPUs -> 0..Never]
         /\ timer_pc' = [timer_pc EXCEPT ![c] = "run"]
BY NeverFacts DEF Leave, TimerGoto, SbeTimerTypeOK

\* Every step keeps the types: no time passes Never, the one of an SBE timer that
\* is not running, and the updates stay within SBE_TIMER_UPDATE_MAX.
LEMMA TimerTypeStep == TimerInv /\ [SbeTimerNext]_SbeTimerVars => SbeTimerTypeOK'
<1> SUFFICES ASSUME TimerInv, [SbeTimerNext]_SbeTimerVars PROVE SbeTimerTypeOK'
  OBVIOUS
<1> USE SbeTimerAssumption DEF TimerInv, SbeTimerTypeOK, Times,
    locks, timer_driver, sbe_timer, core
<1>1. ASSUME NEW c \in CPUs, ScheduleFirst(c), UNCHANGED timer_trouble PROVE SbeTimerTypeOK'
  BY <1>1 DEF ScheduleFirst, TimerGoto, Times, Never
<1>2. ASSUME NEW c \in CPUs, check_timers(c), UNCHANGED timer_trouble PROVE SbeTimerTypeOK'
  BY <1>2 DEF check_timers, TimerGoto, Times, Never
<1>3. ASSUME NEW c \in CPUs, UpdatePeek(c), UNCHANGED timer_trouble PROVE SbeTimerTypeOK'
  <2>1. CASE Leave(c)
    BY <1>3, <2>1, LeaveTypes DEF UpdatePeek
  <2>2. CASE TimerGoto(c, "updlock") /\ UNCHANGED <<locks, new>>
    BY <1>3, <2>2 DEF UpdatePeek, TimerGoto
  <2> QED
    BY <1>3, <2>1, <2>2 DEF UpdatePeek
<1>4. ASSUME NEW c \in CPUs, UpdateLock(c), UNCHANGED timer_trouble PROVE SbeTimerTypeOK'
  BY <1>4 DEF UpdateLock, TimerGoto, timer_msg_busy
<1>5. ASSUME NEW c \in CPUs, Record(c), UNCHANGED timer_trouble PROVE SbeTimerTypeOK'
  <2>1. new[c] \in 0..Never /\ sbe_target \in 0..Never
    OBVIOUS
  <2>2. sbe_target' \in 0..Never
    BY <1>5, <2>1 DEF Record
  <2>3. has_new_target' \in BOOLEAN
    BY <1>5 DEF Record
  <2> QED
    BY <1>5, <2>2, <2>3, LeaveTypes DEF Record
<1>6. ASSUME NEW c \in CPUs, Fresh(c), UNCHANGED timer_trouble PROVE SbeTimerTypeOK'
  BY <1>6 DEF Fresh, TimerGoto
<1>7. ASSUME NEW c \in CPUs, p9_sbe_timer_schedule(c), UNCHANGED timer_trouble PROVE SbeTimerTypeOK'
  <2>1. CASE NothingToSend
    BY <1>7, <2>1, LeaveTypes DEF p9_sbe_timer_schedule
  <2>2. CASE ~NothingToSend
    <3>1. Tick \in 0..MaxTick
      BY DEF Tick
    <3>2. timer_update_cnt + 1 \in 0..SBE_TIMER_UPDATE_MAX
      BY <2>2 DEF NothingToSend
    <3>3. now + Tick \in 0..Never
      BY <3>1, NeverFacts
    <3> QED
      BY <1>7, <2>2, <3>1, <3>2, <3>3 DEF p9_sbe_timer_schedule, TimerGoto
  <2> QED
    BY <2>1, <2>2
<1>8. ASSUME NEW c \in CPUs, QueueMsg(c), UNCHANGED timer_trouble PROVE SbeTimerTypeOK'
  BY <1>8, LeaveTypes, NeverFacts DEF QueueMsg
<1>9. ASSUME NEW c \in CPUs, QueueMsgFails(c), UNCHANGED timer_trouble PROVE SbeTimerTypeOK'
  BY <1>9, NeverFacts DEF QueueMsgFails, TimerGoto
<1>10. ASSUME NEW c \in CPUs, MsgDone(c), UNCHANGED timer_trouble PROVE SbeTimerTypeOK'
  BY <1>10 DEF MsgDone, TimerGoto, AckWaiting
<1>11. ASSUME NEW c \in CPUs, MsgTimeout(c), UNCHANGED timer_trouble PROVE SbeTimerTypeOK'
  BY <1>11 DEF MsgTimeout, TimerGoto
<1>12. ASSUME NEW c \in CPUs, RespStore(c), UNCHANGED timer_trouble PROVE SbeTimerTypeOK'
  BY <1>12 DEF RespStore, TimerGoto
<1>13. ASSUME NEW c \in CPUs, RespPeek(c), UNCHANGED timer_trouble PROVE SbeTimerTypeOK'
  <2>1. CASE Leave(c)
    BY <1>13, <2>1, LeaveTypes DEF RespPeek
  <2>2. CASE TimerGoto(c, "complock") /\ UNCHANGED <<locks, new>>
    BY <1>13, <2>2 DEF RespPeek, TimerGoto
  <2> QED
    BY <1>13, <2>1, <2>2 DEF RespPeek
<1>14. ASSUME NEW c \in CPUs, RespLock(c), UNCHANGED timer_trouble PROVE SbeTimerTypeOK'
  <2>1. has_new_target' \in BOOLEAN
    BY <1>14 DEF RespLock
  <2>2. CASE Leave(c)
    BY <1>14, <2>1, <2>2, LeaveTypes DEF RespLock
  <2>3. CASE sbe_timer_lock' = c /\ TimerGoto(c, "schedule") /\ UNCHANGED <<timer_lock, new>>
    BY <1>14, <2>1, <2>3 DEF RespLock, TimerGoto
  <2> QED
    BY <1>14, <2>2, <2>3 DEF RespLock
<1>15. ASSUME NEW c \in CPUs, p9_sbe_timer_response(c), UNCHANGED timer_trouble
      PROVE  SbeTimerTypeOK'
  BY <1>15 DEF p9_sbe_timer_response, TimerGoto, AckWaiting
<1>16. ASSUME NEW c \in CPUs, ExpiryReset(c), UNCHANGED timer_trouble PROVE SbeTimerTypeOK'
  <2>1. has_new_target' \in BOOLEAN
    BY <1>16 DEF ExpiryReset
  <2>2. timer_update_cnt' \in 0..SBE_TIMER_UPDATE_MAX
    BY <1>16 DEF ExpiryReset
  <2> QED
    BY <1>16, <2>1, <2>2, NeverFacts DEF ExpiryReset, TimerGoto
<1>17. CASE SbeStart /\ UNCHANGED timer_trouble
  BY <1>17, NeverFacts DEF SbeStart
<1>18. CASE SbeExpire /\ UNCHANGED timer_trouble
  <2>1. bell' \in BOOLEAN
    BY <1>18 DEF SbeExpire
  <2> QED
    BY <1>18, <2>1, NeverFacts DEF SbeExpire
<1>19. CASE Clock /\ UNCHANGED timer_trouble
  BY <1>19 DEF Clock
<1>20. CASE UNCHANGED SbeTimerVars
  BY <1>20 DEF SbeTimerVars, timer_moving
<1> QED
  BY <1>1, <1>2, <1>3, <1>4, <1>5, <1>6, <1>7, <1>8, <1>9, <1>10, <1>11,
     <1>12, <1>13, <1>14, <1>15, <1>16, <1>17, <1>18, <1>19, <1>20
  DEF SbeTimerNext, SbeTimerStep, Mailbox

\* Only a CPU that finds sbe_timer_lock free takes it, and one that leaves gives it back.
LEMMA TimerLockStep == TimerInv /\ [SbeTimerNext]_SbeTimerVars => TimerLockOK'
<1> SUFFICES ASSUME TimerInv, [SbeTimerNext]_SbeTimerVars PROVE TimerLockOK'
  OBVIOUS
<1> USE SbeTimerAssumption DEF TimerInv, SbeTimerTypeOK, TimerLockOK, TimerSendOK,
    locks, timer_driver, sbe_timer, core
<1>1. ASSUME NEW c \in CPUs, ScheduleFirst(c), UNCHANGED timer_trouble PROVE TimerLockOK'
  BY <1>1 DEF ScheduleFirst, TimerGoto
<1>2. ASSUME NEW c \in CPUs, check_timers(c), UNCHANGED timer_trouble PROVE TimerLockOK'
  BY <1>2 DEF check_timers, TimerGoto
<1>3. ASSUME NEW c \in CPUs, UpdatePeek(c), UNCHANGED timer_trouble PROVE TimerLockOK'
  BY <1>3 DEF UpdatePeek, TimerGoto, Leave
<1>4. ASSUME NEW c \in CPUs, UpdateLock(c), UNCHANGED timer_trouble PROVE TimerLockOK'
  BY <1>4 DEF UpdateLock, TimerGoto, timer_msg_busy
<1>5. ASSUME NEW c \in CPUs, Record(c), UNCHANGED timer_trouble PROVE TimerLockOK'
  BY <1>5 DEF Record, TimerGoto, Leave
<1>6. ASSUME NEW c \in CPUs, Fresh(c), UNCHANGED timer_trouble PROVE TimerLockOK'
  BY <1>6 DEF Fresh, TimerGoto
<1>7. ASSUME NEW c \in CPUs, p9_sbe_timer_schedule(c), UNCHANGED timer_trouble PROVE TimerLockOK'
  BY <1>7 DEF p9_sbe_timer_schedule, TimerGoto, Leave
<1>8. ASSUME NEW c \in CPUs, QueueMsg(c), UNCHANGED timer_trouble PROVE TimerLockOK'
  BY <1>8 DEF QueueMsg, TimerGoto, Leave
<1>9. ASSUME NEW c \in CPUs, QueueMsgFails(c), UNCHANGED timer_trouble PROVE TimerLockOK'
  BY <1>9 DEF QueueMsgFails, TimerGoto
<1>10. ASSUME NEW c \in CPUs, MsgDone(c), UNCHANGED timer_trouble PROVE TimerLockOK'
  BY <1>10 DEF MsgDone, TimerGoto, AckWaiting
<1>11. ASSUME NEW c \in CPUs, MsgTimeout(c), UNCHANGED timer_trouble PROVE TimerLockOK'
  BY <1>11 DEF MsgTimeout, TimerGoto
<1>12. ASSUME NEW c \in CPUs, RespStore(c), UNCHANGED timer_trouble PROVE TimerLockOK'
  BY <1>12 DEF RespStore, TimerGoto
<1>13. ASSUME NEW c \in CPUs, RespPeek(c), UNCHANGED timer_trouble PROVE TimerLockOK'
  BY <1>13 DEF RespPeek, TimerGoto, Leave
<1>14. ASSUME NEW c \in CPUs, RespLock(c), UNCHANGED timer_trouble PROVE TimerLockOK'
  BY <1>14 DEF RespLock, TimerGoto, Leave, timer_msg_busy
<1>15. ASSUME NEW c \in CPUs, p9_sbe_timer_response(c), UNCHANGED timer_trouble PROVE TimerLockOK'
  BY <1>15 DEF p9_sbe_timer_response, TimerGoto, AckWaiting
<1>16. ASSUME NEW c \in CPUs, ExpiryReset(c), UNCHANGED timer_trouble PROVE TimerLockOK'
  BY <1>16 DEF ExpiryReset, TimerGoto
<1>17. CASE SbeStart /\ UNCHANGED timer_trouble
  BY <1>17 DEF SbeStart
<1>18. CASE SbeExpire /\ UNCHANGED timer_trouble
  BY <1>18 DEF SbeExpire
<1>19. CASE Clock /\ UNCHANGED timer_trouble
  BY <1>19 DEF Clock
<1>20. CASE UNCHANGED SbeTimerVars
  BY <1>20 DEF SbeTimerVars, timer_moving
<1> QED
  BY <1>1, <1>2, <1>3, <1>4, <1>5, <1>6, <1>7, <1>8, <1>9, <1>10, <1>11,
     <1>12, <1>13, <1>14, <1>15, <1>16, <1>17, <1>18, <1>19, <1>20
  DEF SbeTimerNext, SbeTimerStep, Mailbox

\* The message is queued and targets are recorded under sbe_timer_lock alone.
LEMMA TimerSendStep == TimerInv /\ [SbeTimerNext]_SbeTimerVars => TimerSendOK'
<1> SUFFICES ASSUME TimerInv, [SbeTimerNext]_SbeTimerVars PROVE TimerSendOK'
  OBVIOUS
<1> USE SbeTimerAssumption DEF TimerInv, SbeTimerTypeOK, TimerLockOK, TimerSendOK, timer_msg_busy,
    locks, timer_driver, sbe_timer, core
<1>1. ASSUME NEW c \in CPUs, ScheduleFirst(c), UNCHANGED timer_trouble PROVE TimerSendOK'
  BY <1>1 DEF ScheduleFirst, TimerGoto
<1>2. ASSUME NEW c \in CPUs, check_timers(c), UNCHANGED timer_trouble PROVE TimerSendOK'
  BY <1>2 DEF check_timers, TimerGoto
<1>3. ASSUME NEW c \in CPUs, UpdatePeek(c), UNCHANGED timer_trouble PROVE TimerSendOK'
  BY <1>3 DEF UpdatePeek, TimerGoto, Leave
<1>4. ASSUME NEW c \in CPUs, UpdateLock(c), UNCHANGED timer_trouble PROVE TimerSendOK'
  BY <1>4 DEF UpdateLock, TimerGoto, timer_msg_busy
<1>5. ASSUME NEW c \in CPUs, Record(c), UNCHANGED timer_trouble PROVE TimerSendOK'
  BY <1>5 DEF Record, TimerGoto, Leave
<1>6. ASSUME NEW c \in CPUs, Fresh(c), UNCHANGED timer_trouble PROVE TimerSendOK'
  BY <1>6 DEF Fresh, TimerGoto
<1>7. ASSUME NEW c \in CPUs, p9_sbe_timer_schedule(c), UNCHANGED timer_trouble PROVE TimerSendOK'
  BY <1>7 DEF p9_sbe_timer_schedule, TimerGoto, Leave
<1>8. ASSUME NEW c \in CPUs, QueueMsg(c), UNCHANGED timer_trouble PROVE TimerSendOK'
  BY <1>8 DEF QueueMsg, TimerGoto, Leave
<1>9. ASSUME NEW c \in CPUs, QueueMsgFails(c), UNCHANGED timer_trouble PROVE TimerSendOK'
  BY <1>9 DEF QueueMsgFails, TimerGoto
<1>10. ASSUME NEW c \in CPUs, MsgDone(c), UNCHANGED timer_trouble PROVE TimerSendOK'
  BY <1>10 DEF MsgDone, TimerGoto, AckWaiting
<1>11. ASSUME NEW c \in CPUs, MsgTimeout(c), UNCHANGED timer_trouble PROVE TimerSendOK'
  BY <1>11 DEF MsgTimeout, TimerGoto
<1>12. ASSUME NEW c \in CPUs, RespStore(c), UNCHANGED timer_trouble PROVE TimerSendOK'
  BY <1>12 DEF RespStore, TimerGoto
<1>13. ASSUME NEW c \in CPUs, RespPeek(c), UNCHANGED timer_trouble PROVE TimerSendOK'
  BY <1>13 DEF RespPeek, TimerGoto, Leave
<1>14. ASSUME NEW c \in CPUs, RespLock(c), UNCHANGED timer_trouble PROVE TimerSendOK'
  BY <1>14 DEF RespLock, TimerGoto, Leave, timer_msg_busy
<1>15. ASSUME NEW c \in CPUs, p9_sbe_timer_response(c), UNCHANGED timer_trouble PROVE TimerSendOK'
  BY <1>15 DEF p9_sbe_timer_response, TimerGoto, AckWaiting
<1>16. ASSUME NEW c \in CPUs, ExpiryReset(c), UNCHANGED timer_trouble PROVE TimerSendOK'
  BY <1>16 DEF ExpiryReset, TimerGoto
<1>17. CASE SbeStart /\ UNCHANGED timer_trouble
  BY <1>17 DEF SbeStart
<1>18. CASE SbeExpire /\ UNCHANGED timer_trouble
  BY <1>18 DEF SbeExpire
<1>19. CASE Clock /\ UNCHANGED timer_trouble
  BY <1>19 DEF Clock
<1>20. CASE UNCHANGED SbeTimerVars
  BY <1>20 DEF SbeTimerVars, timer_moving
<1> QED
  BY <1>1, <1>2, <1>3, <1>4, <1>5, <1>6, <1>7, <1>8, <1>9, <1>10, <1>11,
     <1>12, <1>13, <1>14, <1>15, <1>16, <1>17, <1>18, <1>19, <1>20
  DEF SbeTimerNext, SbeTimerStep, Mailbox

\* The invariant holds in every state.
THEOREM SbeTimerInvariant == SbeTimerSpec => []TimerInv
<1>1. SbeTimerInit => TimerInv
  <2> SUFFICES ASSUME SbeTimerInit PROVE TimerInv
    OBVIOUS
  <2> USE SbeTimerAssumption DEF SbeTimerInit
  <2>1. {in_progress, has_new_target, bell} \subseteq BOOLEAN
    OBVIOUS
  <2>2. SbeTimerTypeOK
    BY <2>1, NeverFacts DEF SbeTimerTypeOK, Times
  <2>3. TimerLockOK /\ TimerSendOK
    BY DEF TimerLockOK, TimerSendOK, timer_msg_busy
  <2> QED
    BY <2>2, <2>3 DEF TimerInv
<1>2. TimerInv /\ [SbeTimerNext]_SbeTimerVars => TimerInv'
  BY TimerTypeStep, TimerLockStep, TimerSendStep DEF TimerInv
<1> QED
  BY <1>1, <1>2, PTL DEF SbeTimerSpec

\* timer_ctrl_msg is never put on the queue of the mailbox while it is on it.
THEOREM SbeTimerQueuedOnce == SbeTimerSpec => []QueuedOnce
<1>1. TimerInv => QueuedOnce
  BY DEF TimerInv, TimerSendOK, QueuedOnce
<1> QED
  BY SbeTimerInvariant, <1>1, PTL

\* The completion function never waits for the lock its own CPU holds, also when
\* p9_sbe_queue_msg calls it at once.
THEOREM SbeTimerNoSelfDeadlock == SbeTimerSpec => []NoSelfDeadlock
<1>1. TimerInv => NoSelfDeadlock
  BY DEF TimerInv, TimerLockOK, NoSelfDeadlock
<1> QED
  BY SbeTimerInvariant, <1>1, PTL
=============================================================================
