---------------------------- MODULE IpmiBtProof -----------------------------
(***************************************************************************)
(* Proofs about IpmiBt: for any number of CPUs, messages and places in the *)
(* queue, whatever the BMC does.                                           *)
(***************************************************************************)
EXTENDS IpmiBt, FiniteSetTheorems, WellFoundedInduction, TLAPS

\* Places where a CPU has no message in hand, and all places.
Plain == {"idle", "send", "wait", "poll", "expire", "reset", "sms"}
Where == Plain \cup {"done", "compare", "add", "link", "sync"}

Requests == [id : 1..messages, seq : 0..Seqs - 1]

\* The types of all that the properties depend on.
Types ==
  /\ msgq \in Seq(Msgs) /\ msgq_sync \in Seq(Msgs)
  /\ inflight \in Msgs \cup {NoMsg} /\ lock \in CPUs \cup {NoCpu}
  /\ max_queue \in Nat /\ queue_len \in 0..max_queue
  /\ ipmi_seq \in 0..Seqs - 1 /\ seq \in [Msgs -> 0..Seqs - 1]
  /\ send_count \in [Msgs -> 0..Counts - 1]
  /\ messages \in Nat \ {0} /\ made \in 0..messages
  /\ id \in [Msgs -> -1..messages]
  /\ fifo \in Requests \cup {Nothing} /\ b2h \in Requests \cup {Nothing}
  /\ work \subseteq Requests
  /\ pc \in [CPUs -> Where]
  /\ then \in [CPUs -> {"idle", "link", "expire", "reset"}]
  /\ new \in [CPUs -> Msgs \cup {NoMsg}] /\ old \in [CPUs -> Msgs \cup {NoMsg}]
  /\ own \in [CPUs -> Msgs \cup {NoMsg}]

\* Where a CPU is says which messages it has in hand: one to be queued, and
\* one that it completes.
Locals ==
  \A c \in CPUs :
    /\ then[c] # "idle" <=> pc[c] \in {"done", "compare"}
    /\ old[c] # NoMsg <=> pc[c] \in {"done", "compare"}
    /\ new[c] # NoMsg <=> pc[c] \in {"sync", "add", "link"} \/ then[c] = "link"

\* No element occurs twice.
Distinct(s) == \A i, j \in 1..Len(s) : s[i] = s[j] => i = j

\* The queues have every message once, the one in flight included.
QueuesOK ==
  /\ Distinct(msgq) /\ Distinct(msgq_sync) /\ ToSet(msgq) \cap ToSet(msgq_sync) = {}
  /\ inflight # NoMsg => inflight \in Queued

\* c is about to call the function that frees the message.
Done(c, m) == pc[c] = "done" /\ old[c] = m

\* A message in use is in one place, and only messages in use are.
Places ==
  \A m \in Msgs :
    /\ id[m] > 0 <=> m \in Queued \/ \E c \in CPUs : new[c] = m \/ Done(c, m)
    /\ \A c, d \in CPUs :
         /\ ~(m \in Queued /\ new[c] = m) /\ ~(m \in Queued /\ Done(c, m))
         /\ ~(new[c] = m /\ Done(d, m))
         /\ new[c] = m /\ new[d] = m => c = d
         /\ Done(c, m) /\ Done(d, m) => c = d

\* The CPUs whose message has its place counted but is not linked yet.
Waiting == {c \in CPUs : pc[c] = "link" \/ then[c] = "link"}

\* queue_len counts what is queued and what will be.
Counted == queue_len = (Len(msgq) + Len(msgq_sync)) + Cardinality(Waiting)

\* Without reuse of addresses: a message whose completion function has run
\* is marked as used up for good, and a CPU that waits for a message waits for
\* sync_msg, unless the message is used up.
Waits ==
  "reuse" \notin trouble =>
    \A c \in CPUs : /\ pc[c] = "compare" => id[old[c]] = -1
                    /\ own[c] # NoMsg => sync_msg = own[c] \/ id[own[c]] = -1
                    /\ pc[c] = "wait" => own[c] # NoMsg

\* The CPUs whose message has no sequence number yet, and how many messages
\* have got one.
Unnumbered == {c \in CPUs : pc[c] \in {"sync", "add"}}
Given == made - Cardinality(Unnumbered)

Numbered(m) == m \in Queued \/ \E c \in CPUs : new[c] = m /\ pc[c] \notin {"sync", "add"}
OnWire == (work \cup {fifo, b2h}) \ {Nothing}

\* Sequence numbers are given in turn and, with no more messages than numbers,
\* never twice: what is on its way with a number is of the message that has it,
\* if there still is one.
Numbering ==
  /\ Given \in Nat /\ ipmi_seq = Given % Seqs
  /\ \A m \in Msgs : Numbered(m) => seq[m] < Given
  /\ \A r \in OnWire : r.seq < Given
  /\ \A m, n \in Msgs : Numbered(m) /\ Numbered(n) /\ seq[m] = seq[n] => m = n
  /\ \A m \in Msgs : \A r \in OnWire : Numbered(m) /\ seq[m] = r.seq => id[m] = r.id

Numbers == messages <= Seqs => Numbering /\ ~mixed

\* What holds as long as no message was thrown out to make room for itself.
Sound == Types /\ Locals /\ QueuesOK /\ Places /\ Counted /\ Waits /\ Numbers

\* The inductive invariant: that takes more CPUs than the queue has places.
BtInv ==
  /\ max_queue \in Nat
  /\ selfout => Cardinality(CPUs) > max_queue
  /\ selfout \/ Sound

\* A nonempty set of natural numbers has a least element, which is its Min.
LEMMA MinFacts ==
  ASSUME NEW S, S \subseteq Nat, S # {}
  PROVE  Min(S) \in S /\ \A y \in S : Min(S) <= y
<1>1. PICK x \in S : \A y \in S : ~(<<y, x>> \in OpToRel(<, Nat))
  BY NatLessThanWellFounded, WFMin
<1>2. \A y \in S : x <= y
  <2>1. \A y \in Nat : y < x => <<y, x>> \in OpToRel(<, Nat)
    BY DEF OpToRel
  <2>2. \A y \in Nat : ~(y < x) => x <= y
    OBVIOUS
  <2> QED
    BY <1>1, <2>1, <2>2
<1> QED
  BY <1>2 DEF Min

\* One sequence behind another.
LEMMA ConcatFacts ==
  ASSUME NEW T, NEW x \in Seq(T), NEW y \in Seq(T)
  PROVE  /\ x \o y \in Seq(T) /\ Len(x \o y) = Len(x) + Len(y)
         /\ Len(x) \in Nat /\ Len(y) \in Nat
         /\ \A i \in 1..Len(x) + Len(y) :
              (x \o y)[i] = IF i <= Len(x) THEN x[i] ELSE y[i - Len(x)]
OBVIOUS

\* list_del() of a message that is queued takes out its one link.
LEMMA RemoveLinked ==
  ASSUME NEW T, NEW s \in Seq(T), NEW t, \E i \in 1..Len(s) : s[i] = t
  PROVE  \E k \in 1..Len(s) :
           /\ s[k] = t
           /\ RemoveFirst(s, t) \in Seq(T)
           /\ Len(RemoveFirst(s, t)) = Len(s) - 1
           /\ \A i \in 1..Len(s) - 1 :
                RemoveFirst(s, t)[i] = IF i < k THEN s[i] ELSE s[i + 1]
<1> DEFINE I == {i \in 1..Len(s) : s[i] = t}
           k == Min(I)
<1>1. k \in I
  <2>1. I \subseteq Nat /\ I # {}
    OBVIOUS
  <2> HIDE DEF I
  <2> QED
    BY <2>1, MinFacts
<1>2. SelectInSeq(s, LAMBDA v : v = t) = k
  BY DEF SelectInSeq
<1>3. RemoveFirst(s, t) = SubSeq(s, 1, k - 1) \o SubSeq(s, k + 1, Len(s))
  BY <1>2 DEF RemoveFirst, RemoveAt
<1> HIDE DEF k
<1>4. k \in 1..Len(s) /\ s[k] = t
  BY <1>1
<1> HIDE DEF I
<1> DEFINE a == SubSeq(s, 1, k - 1)
           b == SubSeq(s, k + 1, Len(s))
<1>5. /\ a \in Seq(T) /\ Len(a) = k - 1 /\ \A i \in 1..k - 1 : a[i] = s[i]
      /\ b \in Seq(T) /\ Len(b) = Len(s) - k /\ \A i \in 1..Len(s) - k : b[i] = s[k + i]
  BY <1>4
<1> HIDE DEF a, b
<1>6. /\ a \o b \in Seq(T) /\ Len(a \o b) = Len(s) - 1
      /\ \A i \in 1..Len(s) - 1 : (a \o b)[i] = IF i < k THEN a[i] ELSE b[(i + 1) - k]
  <2>1. /\ a \o b \in Seq(T) /\ Len(a \o b) = Len(a) + Len(b) /\ Len(a) \in Nat /\ Len(b) \in Nat
        /\ \A i \in 1..Len(a) + Len(b) :
             (a \o b)[i] = IF i <= Len(a) THEN a[i] ELSE b[i - Len(a)]
    BY <1>5, ConcatFacts
  <2>2. Len(a) + Len(b) = Len(s) - 1
    BY <1>4, <1>5
  <2>3. \A i \in 1..Len(s) - 1 : (i <= Len(a) <=> i < k) /\ i - Len(a) = (i + 1) - k
    BY <1>4, <1>5
  <2> QED
    BY <2>1, <2>2, <2>3
<1>7. \A i \in 1..Len(s) - 1 : (a \o b)[i] = IF i < k THEN s[i] ELSE s[i + 1]
  <2> TAKE i \in 1..Len(s) - 1
  <2>1. CASE i < k
    BY <1>4, <1>5, <1>6, <2>1
  <2>2. CASE ~(i < k)
    <3>1. (i + 1) - k \in 1..Len(s) - k /\ k + ((i + 1) - k) = i + 1
      BY <1>4, <2>2
    <3> QED
      BY <1>5, <1>6, <2>2, <3>1
  <2> QED
    BY <2>1, <2>2
<1> QED
  BY <1>3, <1>4, <1>6, <1>7 DEF a, b

\* The messages of a queue.
LEMMA ToSetSeq ==
  ASSUME NEW T, NEW s \in Seq(T)
  PROVE  /\ ToSet(s) = {s[i] : i \in 1..Len(s)} /\ ToSet(s) \subseteq T
         /\ Len(s) \in Nat
         /\ s = <<>> <=> ToSet(s) = {}
<1>1. DOMAIN s = 1..Len(s) /\ Len(s) \in Nat /\ \A i \in 1..Len(s) : s[i] \in T
  OBVIOUS
<1>2. ToSet(s) = {s[i] : i \in 1..Len(s)}
  BY <1>1 DEF ToSet
<1>3. s # <<>> => 1 \in 1..Len(s)
  BY <1>1
<1>4. s = <<>> => Len(s) = 0
  OBVIOUS
<1> QED
  BY <1>1, <1>2, <1>3, <1>4

\* list_del() leaves the other messages.
LEMMA RemoveFacts ==
  ASSUME NEW T, NEW s \in Seq(T), NEW t, Distinct(s)
  PROVE  /\ RemoveFirst(s, t) \in Seq(T) /\ Distinct(RemoveFirst(s, t))
         /\ ToSet(RemoveFirst(s, t)) = ToSet(s) \ {t}
         /\ Len(RemoveFirst(s, t)) = IF t \in ToSet(s) THEN Len(s) - 1 ELSE Len(s)
<1> DEFINE r == RemoveFirst(s, t)
<1>1. CASE \E i \in 1..Len(s) : s[i] = t
  <2>1. PICK k \in 1..Len(s) : /\ s[k] = t /\ r \in Seq(T) /\ Len(r) = Len(s) - 1
                               /\ \A i \in 1..Len(s) - 1 :
                                    r[i] = IF i < k THEN s[i] ELSE s[i + 1]
    BY <1>1, RemoveLinked
  <2> HIDE DEF r
  <2> DEFINE p(i) == IF i < k THEN i ELSE i + 1
  <2>2. \A i \in 1..Len(r) : p(i) \in 1..Len(s) /\ p(i) # k /\ r[i] = s[p(i)]
    BY <2>1
  <2>3. \A i, j \in 1..Len(r) : (i < j => p(i) < p(j)) /\ (p(i) = p(j) => i = j)
    BY <2>1
  <2>4. ASSUME NEW x \in 1..Len(s), x # k PROVE \E i \in 1..Len(r) : p(i) = x
    <3>1. CASE x < k
      BY <2>1, <3>1
    <3>2. CASE x > k
      <4>1. x - 1 \in 1..Len(r) /\ p(x - 1) = x
        BY <2>1, <3>2
      <4> QED
        BY <4>1
    <3> QED
      BY <2>4, <3>1, <3>2
  <2> HIDE DEF p
  <2>5. Distinct(r)
    <3> SUFFICES ASSUME NEW i \in 1..Len(r), NEW j \in 1..Len(r), r[i] = r[j] PROVE i = j
      BY DEF Distinct
    <3>1. s[p(i)] = s[p(j)] /\ p(i) \in 1..Len(s) /\ p(j) \in 1..Len(s)
      BY <2>2
    <3>2. p(i) = p(j)
      BY <3>1 DEF Distinct
    <3> QED
      BY <2>3, <3>2
  <2>6. \A i \in 1..Len(r) : r[i] # t
    BY <2>1, <2>2 DEF Distinct
  <2>7. ToSet(r) = ToSet(s) \ {t}
    <3>1. ToSet(r) = {r[i] : i \in 1..Len(r)} /\ ToSet(s) = {s[i] : i \in 1..Len(s)}
      BY <2>1, ToSetSeq
    <3>2. ToSet(r) \subseteq ToSet(s) \ {t}
      BY <2>2, <2>6, <3>1
    <3>3. ASSUME NEW x \in 1..Len(s), s[x] # t PROVE s[x] \in ToSet(r)
      <4>1. PICK i \in 1..Len(r) : p(i) = x
        BY <2>1, <2>4, <3>3
      <4> QED
        BY <2>2, <3>1, <4>1
    <3> QED
      BY <3>1, <3>2, <3>3
  <2>8. t \in ToSet(s)
    BY <2>1, ToSetSeq
  <2> QED
    BY <2>1, <2>5, <2>7, <2>8 DEF r
<1>2. CASE ~\E i \in 1..Len(s) : s[i] = t
  <2>1. r = s
    BY <1>2 DEF RemoveFirst
  <2>2. ToSet(s) = ToSet(s) \ {t} /\ t \notin ToSet(s)
    BY <1>2, ToSetSeq
  <2> QED
    BY <2>1, <2>2
<1> QED
  BY <1>1, <1>2

\* Adding to the end of a list what is not on it.
LEMMA AppendFacts ==
  ASSUME NEW T, NEW s \in Seq(T), NEW t \in T, t \notin ToSet(s), Distinct(s)
  PROVE  /\ Append(s, t) \in Seq(T) /\ Distinct(Append(s, t))
         /\ ToSet(Append(s, t)) = ToSet(s) \cup {t}
         /\ Len(Append(s, t)) = Len(s) + 1
<1>1. /\ Append(s, t) \in Seq(T) /\ Len(Append(s, t)) = Len(s) + 1 /\ Len(s) \in Nat
      /\ Append(s, t)[Len(s) + 1] = t /\ \A i \in 1..Len(s) : Append(s, t)[i] = s[i]
  OBVIOUS
<1>2. \A i \in 1..Len(s) : s[i] # t
  BY ToSetSeq
<1>3. Distinct(Append(s, t))
  BY <1>1, <1>2 DEF Distinct
<1>4. /\ ToSet(Append(s, t)) = {Append(s, t)[i] : i \in 1..Len(s) + 1}
      /\ ToSet(s) = {s[i] : i \in 1..Len(s)}
  <2>1. ToSet(Append(s, t)) = {Append(s, t)[i] : i \in 1..Len(Append(s, t))}
    BY <1>1, ToSetSeq
  <2> QED
    BY <1>1, <2>1, ToSetSeq
<1>5. 1..Len(s) + 1 = 1..Len(s) \cup {Len(s) + 1}
  BY <1>1
<1> QED
  BY <1>1, <1>3, <1>4, <1>5

-----------------------------------------------------------------------------
(* The queues and the counters. *)

\* Queued messages are messages.
LEMMA QueuedMsgs ==
  ASSUME Types
  PROVE  /\ Queued \subseteq Msgs /\ ToSet(msgq) \subseteq Msgs /\ ToSet(msgq_sync) \subseteq Msgs
         /\ Len(msgq) \in Nat /\ Len(msgq_sync) \in Nat
<1>1. msgq \in Seq(Msgs) /\ msgq_sync \in Seq(Msgs)
  BY DEF Types
<1> QED
  BY <1>1, ToSetSeq DEF Queued

\* A message leaves the queue it is in.
LEMMA Unlink ==
  ASSUME Types, QueuesOK, NEW m \in Queued,
         msgq' = RemoveFirst(msgq, m), msgq_sync' = RemoveFirst(msgq_sync, m),
         inflight' = IF m = inflight THEN NoMsg ELSE inflight
  PROVE  /\ QueuesOK' /\ msgq' \in Seq(Msgs) /\ msgq_sync' \in Seq(Msgs)
         /\ Queued' = Queued \ {m}
         /\ Len(msgq)' + Len(msgq_sync)' = (Len(msgq) + Len(msgq_sync)) - 1
         /\ inflight' \in Msgs \cup {NoMsg}
<1>1. /\ msgq \in Seq(Msgs) /\ msgq_sync \in Seq(Msgs) /\ Distinct(msgq) /\ Distinct(msgq_sync)
      /\ ToSet(msgq) \cap ToSet(msgq_sync) = {} /\ inflight \in Msgs \cup {NoMsg}
      /\ inflight # NoMsg => inflight \in Queued
  BY DEF Types, QueuesOK
<1>2. Len(msgq) \in Nat /\ Len(msgq_sync) \in Nat
  BY QueuedMsgs
<1>3. /\ msgq' \in Seq(Msgs) /\ Distinct(msgq') /\ ToSet(msgq') = ToSet(msgq) \ {m}
      /\ Len(msgq') = IF m \in ToSet(msgq) THEN Len(msgq) - 1 ELSE Len(msgq)
  BY <1>1, RemoveFacts
<1>4. /\ msgq_sync' \in Seq(Msgs) /\ Distinct(msgq_sync')
      /\ ToSet(msgq_sync') = ToSet(msgq_sync) \ {m}
      /\ Len(msgq_sync') = IF m \in ToSet(msgq_sync) THEN Len(msgq_sync) - 1 ELSE Len(msgq_sync)
  BY <1>1, RemoveFacts
<1>5. Queued' = ToSet(msgq') \cup ToSet(msgq_sync') /\ Queued = ToSet(msgq) \cup ToSet(msgq_sync)
  BY DEF Queued
<1>6. Queued' = Queued \ {m}
  BY <1>3, <1>4, <1>5
<1>7. Len(msgq') + Len(msgq_sync') = (Len(msgq) + Len(msgq_sync)) - 1
  <2>1. \/ m \in ToSet(msgq) /\ m \notin ToSet(msgq_sync)
        \/ m \notin ToSet(msgq) /\ m \in ToSet(msgq_sync)
    BY <1>1, <1>5
  <2>2. \/ Len(msgq') = Len(msgq) - 1 /\ Len(msgq_sync') = Len(msgq_sync)
        \/ Len(msgq') = Len(msgq) /\ Len(msgq_sync') = Len(msgq_sync) - 1
    BY <1>3, <1>4, <2>1
  <2> QED
    BY <1>2, <2>2
<1>8. inflight' \in Msgs \cup {NoMsg} /\ (inflight' # NoMsg => inflight' \in Queued')
  BY <1>1, <1>6
<1>9. ToSet(msgq') \cap ToSet(msgq_sync') = {}
  BY <1>1, <1>3, <1>4
<1> QED
  BY <1>3, <1>4, <1>6, <1>7, <1>8, <1>9 DEF QueuesOK

\* A message is put at the end of a queue.
LEMMA Linked ==
  ASSUME Types, QueuesOK, NEW m \in Msgs, m \notin Queued, NEW h,
         msgq' = IF h THEN msgq ELSE Append(msgq, m),
         msgq_sync' = IF h THEN Append(msgq_sync, m) ELSE msgq_sync,
         inflight' = inflight
  PROVE  /\ QueuesOK' /\ msgq' \in Seq(Msgs) /\ msgq_sync' \in Seq(Msgs)
         /\ Queued' = Queued \cup {m}
         /\ Len(msgq)' + Len(msgq_sync)' = (Len(msgq) + Len(msgq_sync)) + 1
<1>1. /\ msgq \in Seq(Msgs) /\ msgq_sync \in Seq(Msgs) /\ Distinct(msgq) /\ Distinct(msgq_sync)
      /\ ToSet(msgq) \cap ToSet(msgq_sync) = {}
      /\ inflight # NoMsg => inflight \in Queued
  BY DEF Types, QueuesOK
<1>2. Len(msgq) \in Nat /\ Len(msgq_sync) \in Nat
  BY QueuedMsgs
<1>3. Queued' = ToSet(msgq') \cup ToSet(msgq_sync') /\ Queued = ToSet(msgq) \cup ToSet(msgq_sync)
  BY DEF Queued
<1>4. m \notin ToSet(msgq) /\ m \notin ToSet(msgq_sync)
  BY <1>3
<1>5. /\ Append(msgq, m) \in Seq(Msgs) /\ Distinct(Append(msgq, m))
      /\ ToSet(Append(msgq, m)) = ToSet(msgq) \cup {m} /\ Len(Append(msgq, m)) = Len(msgq) + 1
  BY <1>1, <1>4, AppendFacts
<1>6. /\ Append(msgq_sync, m) \in Seq(Msgs) /\ Distinct(Append(msgq_sync, m))
      /\ ToSet(Append(msgq_sync, m)) = ToSet(msgq_sync) \cup {m}
      /\ Len(Append(msgq_sync, m)) = Len(msgq_sync) + 1
  BY <1>1, <1>4, AppendFacts
<1>7. \/ msgq' = msgq /\ msgq_sync' = Append(msgq_sync, m)
      \/ msgq' = Append(msgq, m) /\ msgq_sync' = msgq_sync
  OBVIOUS
<1>8. /\ msgq' \in Seq(Msgs) /\ msgq_sync' \in Seq(Msgs)
      /\ Distinct(msgq') /\ Distinct(msgq_sync')
  BY <1>1, <1>5, <1>6, <1>7
<1>9. Queued' = Queued \cup {m} /\ ToSet(msgq') \cap ToSet(msgq_sync') = {}
  BY <1>1, <1>3, <1>4, <1>5, <1>6, <1>7
<1>10. Len(msgq') + Len(msgq_sync') = (Len(msgq) + Len(msgq_sync)) + 1
  BY <1>2, <1>5, <1>6, <1>7
<1>11. inflight' # NoMsg => inflight' \in Queued'
  BY <1>1, <1>9
<1> QED
  BY <1>8, <1>9, <1>10, <1>11 DEF QueuesOK

\* What Counted and Numbers count is finite.
LEMMA Counters ==
  /\ Waiting \subseteq CPUs /\ IsFiniteSet(Waiting) /\ Cardinality(Waiting) \in Nat
  /\ Unnumbered \subseteq CPUs /\ IsFiniteSet(Unnumbered) /\ Cardinality(Unnumbered) \in Nat
  /\ IsFiniteSet(CPUs) /\ Cardinality(CPUs) \in Nat
<1>1. IsFiniteSet(CPUs)
  BY IpmiBtAssumption
<1>2. Waiting \subseteq CPUs /\ Unnumbered \subseteq CPUs
  BY DEF Waiting, Unnumbered
<1> QED
  BY <1>1, <1>2, FS_Subset, FS_CardinalityType

\* One CPU more or less.
LEMMA OneMore ==
  ASSUME NEW S, IsFiniteSet(S), NEW x
  PROVE  /\ Cardinality(S) \in Nat
         /\ x \notin S => Cardinality(S \cup {x}) = Cardinality(S) + 1
         /\ x \in S => Cardinality(S \ {x}) = Cardinality(S) - 1 /\ Cardinality(S) >= 1
<1>1. Cardinality(S) \in Nat /\ (Cardinality(S) = 0 <=> S = {})
  BY FS_CardinalityType, FS_EmptySet
<1>2. x \notin S => Cardinality(S \cup {x}) = Cardinality(S) + 1
  BY FS_AddElement
<1>3. x \in S => Cardinality(S \ {x}) = Cardinality(S) - 1
  BY FS_RemoveElement
<1>4. x \in S => Cardinality(S) >= 1
  BY <1>1
<1> QED
  BY <1>1, <1>2, <1>3, <1>4

\* The queue that is too long has a message to throw out, unless m is to make
\* room for itself.
LEMMA VictimQueued ==
  ASSUME Types, NEW m \in Msgs, Victim(m) # m
  PROVE  Victim(m) \in Queued
<1>1. msgq \in Seq(Msgs) /\ msgq_sync \in Seq(Msgs)
  BY DEF Types
<1>2. ASSUME NEW s \in Seq(Msgs), s # <<>> PROVE Last(s) \in ToSet(s)
  <2>1. Len(s) \in 1..Len(s)
    BY <1>2
  <2> QED
    BY <2>1, ToSetSeq DEF Last
<1>3. CASE msgq # <<>>
  BY <1>1, <1>2, <1>3 DEF Victim, Queued
<1>4. CASE msgq = <<>>
  <2>1. msgq_sync # <<>>
    BY <1>4 DEF Victim
  <2> QED
    BY <1>1, <1>2, <1>4, <2>1 DEF Victim, Queued
<1> QED
  BY <1>3, <1>4

\* That takes as many CPUs as the queue has places, all waiting to link, and c.
LEMMA NoRoom ==
  ASSUME Types, Counted, NEW c \in CPUs, c \notin Waiting, queue_len >= max_queue,
         NEW m, m \notin Queued, Victim(m) = m
  PROVE  Cardinality(CPUs) > max_queue
<1>1. msgq = <<>> /\ msgq_sync = <<>>
  <2>1. msgq \in Seq(Msgs) /\ msgq_sync \in Seq(Msgs)
    BY DEF Types
  <2>2. ASSUME NEW s \in Seq(Msgs), s # <<>> PROVE Last(s) \in ToSet(s)
    <3>1. Len(s) \in 1..Len(s)
      BY <2>2
    <3> QED
      BY <3>1, ToSetSeq DEF Last
  <2>3. CASE msgq # <<>>
    BY <2>1, <2>2, <2>3 DEF Victim, Queued
  <2>4. CASE msgq = <<>> /\ msgq_sync # <<>>
    BY <2>1, <2>2, <2>4 DEF Victim, Queued
  <2> QED
    BY <2>3, <2>4
<1>2. Cardinality(Waiting) >= max_queue
  <2>1. Len(msgq) = 0 /\ Len(msgq_sync) = 0 /\ Cardinality(Waiting) \in Nat
    BY <1>1, Counters
  <2>2. queue_len = Cardinality(Waiting)
    BY <2>1 DEF Counted
  <2> QED
    BY <2>2
<1>3. Waiting \subseteq CPUs \ {c} /\ IsFiniteSet(CPUs) /\ Cardinality(CPUs) \in Nat
  BY Counters
<1>4. IsFiniteSet(CPUs \ {c}) /\ Cardinality(CPUs \ {c}) = Cardinality(CPUs) - 1
  BY <1>3, FS_RemoveElement
<1>5. Cardinality(Waiting) <= Cardinality(CPUs \ {c})
  BY <1>3, <1>4, FS_Subset
<1>6. max_queue \in Nat /\ Cardinality(Waiting) \in Nat
  BY Counters DEF Types
<1> QED
  BY <1>2, <1>3, <1>4, <1>5, <1>6

-----------------------------------------------------------------------------
(* The parts of the invariant that few steps change. *)

\* No message moves.
LEMMA PlacesKept ==
  ASSUME Types, Places, UNCHANGED <<id, new>>, Queued' = Queued,
         \A c \in CPUs, m \in Msgs : Done(c, m)' <=> Done(c, m)
  PROVE  Places'
BY DEF Places

\* No number is given: a message may lose its own, and what is new on the
\* wire has the number of the message it is of.
LEMMA NumbersKept ==
  ASSUME Types, Numbers, messages' = messages, messages <= Seqs /\ ~mixed => ~mixed',
         ipmi_seq' = ipmi_seq, Given' = Given,
         \A m \in Msgs : Numbered(m)' => Numbered(m) /\ seq'[m] = seq[m] /\ id'[m] = id[m],
         \A r \in OnWire' : \/ r \in OnWire
                            \/ \E m \in Msgs : Numbered(m) /\ r.id = id[m] /\ r.seq = seq[m]
  PROVE  Numbers'
<1> SUFFICES ASSUME messages <= Seqs PROVE Numbering'
  BY DEF Numbers
<1>0. Numbering
  BY DEF Numbers
<1>1. Given' \in Nat /\ ipmi_seq' = Given' % Seqs
  BY <1>0 DEF Numbering
<1>2. \A m \in Msgs : Numbered(m)' => seq'[m] < Given'
  BY <1>0 DEF Numbering
<1>3. \A r \in OnWire' : r.seq < Given'
  BY <1>0 DEF Numbering
<1>4. \A m, n \in Msgs : Numbered(m)' /\ Numbered(n)' /\ seq'[m] = seq'[n] => m = n
  BY <1>0 DEF Numbering
<1>5. ASSUME NEW m \in Msgs, NEW r \in OnWire', Numbered(m)', seq'[m] = r.seq
      PROVE  id'[m] = r.id
  <2>1. Numbered(m) /\ seq[m] = r.seq /\ id'[m] = id[m]
    BY <1>5
  <2>2. CASE r \in OnWire
    BY <1>0, <2>1, <2>2 DEF Numbering
  <2>3. CASE \E n \in Msgs : Numbered(n) /\ r.id = id[n] /\ r.seq = seq[n]
    BY <1>0, <2>1, <2>3 DEF Numbering
  <2> QED
    BY <2>2, <2>3
<1> QED
  BY <1>1, <1>2, <1>3, <1>4, <1>5 DEF Numbering

\* The next number is given to message m: nothing has it yet.
LEMMA NumbersGiven ==
  ASSUME Types, Numbers, UNCHANGED <<messages, mixed>>, NEW m \in Msgs, Given < messages,
         Given' = Given + 1, seq' = Set(seq, m, ipmi_seq), ipmi_seq' = (ipmi_seq + 1) % Seqs,
         ~Numbered(m), OnWire' = OnWire,
         \A n \in Msgs : n # m /\ Numbered(n)' => Numbered(n) /\ id'[n] = id[n]
  PROVE  Numbers'
<1> SUFFICES ASSUME messages <= Seqs PROVE Numbering'
  BY DEF Numbers
<1>0. Numbering
  BY DEF Numbers
<1>1. ipmi_seq = Given /\ Given \in Nat /\ Seqs \in Nat /\ Given' \in Nat
  <2>1. Given \in Nat /\ ipmi_seq = Given % Seqs /\ Seqs \in Nat /\ messages \in Nat
    BY <1>0, IpmiBtAssumption DEF Numbering, Types
  <2>2. Given % Seqs = Given
    BY <2>1
  <2> QED
    BY <2>1, <2>2
<1>2. seq \in [Msgs -> 0..Seqs - 1] /\ \A r \in OnWire : r.seq \in Int
  <2>1. \A r \in OnWire : r \in Requests
    BY DEF Types, OnWire
  <2> QED
    BY <2>1 DEF Types, Requests
<1>3. seq'[m] = Given /\ \A n \in Msgs : n # m => seq'[n] = seq[n]
  BY <1>1, <1>2 DEF Set
<1>4. ipmi_seq' = Given' % Seqs
  BY <1>1
<1>5. /\ \A n \in Msgs : Numbered(n) => seq[n] < Given
      /\ \A r \in OnWire : r.seq < Given
      /\ \A n, k \in Msgs : Numbered(n) /\ Numbered(k) /\ seq[n] = seq[k] => n = k
      /\ \A n \in Msgs : \A r \in OnWire : Numbered(n) /\ seq[n] = r.seq => id[n] = r.id
  BY <1>0 DEF Numbering
<1>6. \A n \in Msgs : seq[n] \in Int
  BY <1>2
<1>7. \A n \in Msgs : Numbered(n)' => seq'[n] < Given'
  BY <1>1, <1>3, <1>5, <1>6
<1>8. \A r \in OnWire' : r.seq < Given'
  BY <1>1, <1>2, <1>5
<1>9. \A n, k \in Msgs : Numbered(n)' /\ Numbered(k)' /\ seq'[n] = seq'[k] => n = k
  <2> SUFFICES ASSUME NEW n \in Msgs, NEW k \in Msgs, Numbered(n)', Numbered(k)',
                      seq'[n] = seq'[k]
               PROVE  n = k
    OBVIOUS
  <2>1. CASE n # m /\ k # m
    BY <1>3, <1>5, <2>1
  <2>2. CASE n = m /\ k # m
    BY <1>1, <1>3, <1>5, <1>6, <2>2
  <2>3. CASE n # m /\ k = m
    BY <1>1, <1>3, <1>5, <1>6, <2>3
  <2> QED
    BY <2>1, <2>2, <2>3
<1>10. ASSUME NEW n \in Msgs, NEW r \in OnWire', Numbered(n)', seq'[n] = r.seq
       PROVE  id'[n] = r.id
  <2>1. r \in OnWire /\ r.seq < Given /\ r.seq \in Int
    BY <1>2, <1>5
  <2>2. n # m
    BY <1>1, <1>3, <1>10, <2>1
  <2> QED
    BY <1>3, <1>5, <1>10, <2>1, <2>2
<1> QED
  BY <1>1, <1>4, <1>7, <1>8, <1>9, <1>10 DEF Numbering

-----------------------------------------------------------------------------
(* Steps that move no message. *)

\* A CPU goes from one place to another and has no message in hand.
LEMMA PlainMove ==
  ASSUME Types, Locals, Places, Counted, NEW c \in CPUs, NEW w \in Plain, pc[c] \in Plain,
         pc' = [pc EXCEPT ![c] = w],
         UNCHANGED <<msgq, msgq_sync, queue_len, new, old, then, id>>
  PROVE  /\ Locals' /\ Places' /\ Counted' /\ Queued' = Queued /\ Unnumbered' = Unnumbered
         /\ \A m \in Msgs : Numbered(m)' <=> Numbered(m)
         /\ pc' \in [CPUs -> Where]
<1>1. pc \in [CPUs -> Where] /\ pc' \in [CPUs -> Where]
  BY DEF Types, Where
<1>2. pc'[c] = w /\ \A d \in CPUs : d # c => pc'[d] = pc[d]
  BY <1>1
<1>3. \A d \in CPUs : \/ pc'[d] = pc[d]
                      \/ pc'[d] \in Plain /\ pc[d] \in Plain
  BY <1>2
<1>4. \A d \in CPUs : \A x \in {"done", "compare", "add", "link", "sync"} :
        pc'[d] = x <=> pc[d] = x
  BY <1>3 DEF Plain
<1>5. Locals'
  BY <1>4 DEF Locals
<1>6. Queued' = Queued
  BY DEF Queued
<1>7. \A d \in CPUs, m \in Msgs : Done(d, m)' <=> Done(d, m)
  BY <1>4 DEF Done
<1>8. Places'
  BY <1>6, <1>7, PlacesKept
<1>9. Waiting' = Waiting /\ Unnumbered' = Unnumbered
  BY <1>4 DEF Waiting, Unnumbered
<1>10. Counted'
  BY <1>9 DEF Counted
<1>11. \A m \in Msgs : Numbered(m)' <=> Numbered(m)
  BY <1>4, <1>6 DEF Numbered
<1> QED
  BY <1>1, <1>5, <1>6, <1>8, <1>9, <1>10, <1>11

\* A count stays in its eight bits.
LEMMA Modulo ==
  /\ Counts \in Nat \ {0} /\ 0 \in 0..Counts - 1
  /\ \A n \in Nat : n % Counts \in 0..Counts - 1
<1>1. Counts \in Nat \ {0}
  BY IpmiBtAssumption
<1> QED
  BY <1>1

\* What is sent has the number of its message.
LEMMA Sent ==
  ASSUME Types, NEW m \in Queued,
         fifo' = [id |-> id[m], seq |-> seq[m]], UNCHANGED <<work, b2h>>
  PROVE  \A r \in OnWire' : \/ r \in OnWire
                            \/ \E n \in Msgs : Numbered(n) /\ r.id = id[n] /\ r.seq = seq[n]
<1>1. m \in Msgs /\ Numbered(m)
  BY QueuedMsgs DEF Numbered
<1>2. \A r \in OnWire' : r \in OnWire \/ r = fifo'
  BY DEF OnWire
<1>3. fifo'.id = id[m] /\ fifo'.seq = seq[m]
  OBVIOUS
<1> QED
  BY <1>1, <1>2, <1>3

\* A request that is sent is well formed: its message is in use.
LEMMA SentType ==
  ASSUME Types, Places, NEW m \in Queued
  PROVE  [id |-> id[m], seq |-> seq[m]] \in Requests
<1>1. m \in Msgs /\ id[m] > 0 /\ id[m] \in -1..messages /\ seq[m] \in 0..Seqs - 1
  BY QueuedMsgs DEF Types, Places
<1>2. messages \in Nat
  BY IpmiBtAssumption DEF Types
<1>3. id[m] \in 1..messages
  BY <1>1, <1>2
<1> QED
  BY <1>1, <1>3 DEF Requests

\* bt_send_and_unlock.
LEMMA SendStep ==
  ASSUME Sound, NEW c \in CPUs, bt_send_and_unlock(c)
  PROVE  Sound'
<1>0. Types /\ Locals /\ QueuesOK /\ Places /\ Counted /\ Waits /\ Numbers
  BY DEF Sound
<1>1. /\ UNCHANGED <<msgq, msgq_sync, queue_len, new, old, then, id>>
      /\ UNCHANGED <<ipmi_seq, seq, sync_msg, b2h, work, own, made, mixed, max_queue, trouble,
                     messages>>
      /\ pc[c] = "send" /\ lock' = NoCpu
  BY DEF bt_send_and_unlock, At, ghost, frozen
<1>2. PICK w \in Plain : pc' = [pc EXCEPT ![c] = w] /\ (w = "wait" => own[c] # NoMsg)
  BY DEF bt_send_and_unlock, Goto, Plain
<1>3. pc[c] \in Plain
  BY <1>1 DEF Plain
<1>4. /\ Locals' /\ Places' /\ Counted' /\ Queued' = Queued /\ Unnumbered' = Unnumbered
      /\ \A m \in Msgs : Numbered(m)' <=> Numbered(m)
      /\ pc' \in [CPUs -> Where]
  BY <1>0, <1>1, <1>2, <1>3, PlainMove
<1>5. /\ inflight' = inflight \/ (inflight' = Top /\ Top # NoMsg)
      /\ \/ UNCHANGED <<fifo, send_count>>
         \/ /\ Top # NoMsg
            /\ fifo' = [id |-> id[Top], seq |-> seq[Top]]
            /\ send_count' = Set(send_count, Top, 1 % Counts)
  BY DEF bt_send_and_unlock, Send
<1>6. Top # NoMsg => Top \in Queued /\ Top \in Msgs
  <2>1. msgq \in Seq(Msgs) /\ msgq_sync \in Seq(Msgs)
    BY <1>0 DEF Types
  <2>2. ASSUME NEW s \in Seq(Msgs), s # <<>> PROVE Head(s) \in ToSet(s)
    <3>1. Head(s) = s[1] /\ 1 \in 1..Len(s)
      BY <2>2
    <3> QED
      BY <3>1, ToSetSeq
  <2>3. Top # NoMsg => Top \in Queued
    BY <2>1, <2>2 DEF Top, Queued
  <2> QED
    BY <1>0, <2>3, QueuedMsgs
<1> HIDE DEF Top
<1>7. /\ inflight' \in Msgs \cup {NoMsg}
      /\ fifo' \in Requests \cup {Nothing}
      /\ send_count' \in [Msgs -> 0..Counts - 1]
  <2>1. inflight' \in Msgs \cup {NoMsg}
    BY <1>0, <1>5, <1>6 DEF Types
  <2>2. fifo' \in Requests \cup {Nothing}
    BY <1>0, <1>5, <1>6, SentType DEF Types
  <2>3. send_count \in [Msgs -> 0..Counts - 1] /\ 1 % Counts \in 0..Counts - 1
    BY <1>0, Modulo DEF Types
  <2>4. send_count' \in [Msgs -> 0..Counts - 1]
    BY <1>5, <1>6, <2>3 DEF Set
  <2> QED
    BY <2>1, <2>2, <2>4
<1>8. Types'
  BY <1>0, <1>1, <1>4, <1>7 DEF Types, Requests
<1>9. QueuesOK'
  BY <1>0, <1>1, <1>4, <1>5, <1>6 DEF QueuesOK
<1>10. Waits'
  <2>1. pc'[c] = w /\ \A d \in CPUs : d # c => pc'[d] = pc[d]
    BY <1>0, <1>2 DEF Types
  <2>2. w # "compare"
    BY DEF Plain
  <2> QED
    BY <1>0, <1>1, <1>2, <2>1, <2>2 DEF Waits
<1>11. Numbers'
  <2>1. \A r \in OnWire' : \/ r \in OnWire
                           \/ \E m \in Msgs : Numbered(m) /\ r.id = id[m] /\ r.seq = seq[m]
    <3>1. CASE fifo' = fifo
      BY <1>1, <3>1 DEF OnWire
    <3>2. CASE Top # NoMsg /\ fifo' = [id |-> id[Top], seq |-> seq[Top]]
      BY <1>0, <1>1, <1>6, <3>2, Sent
    <3> QED
      BY <1>5, <3>1, <3>2
  <2>2. Given' = Given
    BY <1>1, <1>4 DEF Given
  <2> QED
    BY <1>0, <1>1, <1>4, <2>1, <2>2, NumbersKept
<1> QED
  BY <1>0, <1>1, <1>4, <1>8, <1>9, <1>10, <1>11 DEF Sound

\* A part of bt_poll that has nothing to complete: c goes on to another part,
\* and what is on the wire was there before.
LEMMA PollMove ==
  ASSUME Sound, NEW c \in CPUs, NEW w \in Plain \ {"wait"}, pc[c] \in Plain,
         pc' = [pc EXCEPT ![c] = w],
         UNCHANGED <<msgq, msgq_sync, inflight, queue_len, new, old, then, own, id, made, mixed>>,
         UNCHANGED <<ipmi_seq, seq, sync_msg, max_queue, trouble, messages>>,
         lock' \in CPUs \cup {NoCpu},
         send_count' \in [Msgs -> 0..Counts - 1],
         fifo' \in Requests \cup {Nothing}, b2h' \in Requests \cup {Nothing},
         work' \subseteq Requests,
         \A r \in OnWire' : \/ r \in OnWire
                            \/ \E m \in Msgs : Numbered(m) /\ r.id = id[m] /\ r.seq = seq[m]
  PROVE  Sound'
<1>0. Types /\ Locals /\ QueuesOK /\ Places /\ Counted /\ Waits /\ Numbers
  BY DEF Sound
<1>1. /\ Locals' /\ Places' /\ Counted' /\ Queued' = Queued /\ Unnumbered' = Unnumbered
      /\ \A m \in Msgs : Numbered(m)' <=> Numbered(m)
      /\ pc' \in [CPUs -> Where]
  BY <1>0, PlainMove
<1>2. Types'
  BY <1>0, <1>1 DEF Types, Requests
<1>3. QueuesOK'
  BY <1>0, <1>1 DEF QueuesOK
<1>4. Waits'
  <2>1. pc'[c] = w /\ \A d \in CPUs : d # c => pc'[d] = pc[d]
    BY <1>0 DEF Types
  <2>2. w # "compare" /\ w # "wait"
    BY DEF Plain
  <2> QED
    BY <1>0, <2>1, <2>2 DEF Waits
<1>5. Given' = Given
  BY <1>1 DEF Given
<1>6. Numbers'
  BY <1>0, <1>1, <1>5, NumbersKept
<1> QED
  BY <1>0, <1>1, <1>2, <1>3, <1>4, <1>6 DEF Sound

\* ipmi_queue_msg_sync, waiting.
LEMMA SyncWaitStep ==
  ASSUME Sound, NEW c \in CPUs, sync_wait(c)
  PROVE  Sound'
<1>0. Types /\ Locals /\ QueuesOK /\ Places /\ Counted /\ Waits /\ Numbers
  BY DEF Sound
<1>1. /\ UNCHANGED <<msgq, msgq_sync, inflight, queue_len, lock, new, old, then, id>>
      /\ UNCHANGED <<ipmi_seq, seq, send_count, sync_msg, fifo, b2h, work, made, mixed, max_queue,
                     trouble, messages>>
      /\ pc[c] = "wait"
  BY DEF sync_wait, At, queues, fields, sync, wire, ghost, frozen
<1>2. PICK w \in Plain \ {"wait"} : pc' = [pc EXCEPT ![c] = w]
  BY DEF sync_wait, Goto, Plain
<1>3. own' = own \/ own' = [own EXCEPT ![c] = NoMsg]
  BY DEF sync_wait, Set
<1>4. pc[c] \in Plain
  BY <1>1 DEF Plain
<1>5. /\ Locals' /\ Places' /\ Counted' /\ Queued' = Queued /\ Unnumbered' = Unnumbered
      /\ \A m \in Msgs : Numbered(m)' <=> Numbered(m)
      /\ pc' \in [CPUs -> Where]
  BY <1>0, <1>1, <1>2, <1>4, PlainMove
<1>6. own' \in [CPUs -> Msgs \cup {NoMsg}]
  BY <1>0, <1>3 DEF Types
<1>7. Types'
  BY <1>0, <1>1, <1>5, <1>6 DEF Types, Requests
<1>8. QueuesOK'
  BY <1>0, <1>1, <1>5 DEF QueuesOK
<1>9. Waits'
  <2>1. pc'[c] = w /\ \A d \in CPUs : d # c => pc'[d] = pc[d]
    BY <1>0, <1>2 DEF Types
  <2>2. w # "compare" /\ w # "wait"
    BY DEF Plain
  <2>3. \A d \in CPUs : own'[d] = own[d] \/ (d = c /\ own'[d] = NoMsg)
    BY <1>0, <1>3 DEF Types
  <2> QED
    BY <1>0, <1>1, <2>1, <2>2, <2>3 DEF Waits
<1>10. Numbers'
  <2>1. Given' = Given /\ OnWire' = OnWire
    BY <1>1, <1>5 DEF Given, OnWire
  <2> QED
    BY <1>0, <1>1, <1>5, <2>1, NumbersKept
<1> QED
  BY <1>0, <1>1, <1>5, <1>7, <1>8, <1>9, <1>10 DEF Sound

\* The parts of bt_poll.
LEMMA AfterPlain == AfterExpire \in Plain \ {"wait"} /\ AfterResp \in Plain \ {"wait"}
<1>1. {"sms", "send", "expire"} \subseteq Plain \ {"wait"}
  BY DEF Plain
<1>2. AfterExpire \in {"sms", "send"}
  BY DEF AfterExpire
<1>3. AfterResp \in {"sms", "send", "expire"}
  BY <1>2 DEF AfterResp
<1> QED
  BY <1>1, <1>2, <1>3

\* bt_reset_interface.
LEMMA ResetStep ==
  ASSUME Sound, NEW c \in CPUs, bt_reset(c)
  PROVE  Sound'
<1>1. /\ UNCHANGED <<msgq, msgq_sync, inflight, queue_len, new, old, then, own, id, made, mixed>>
      /\ UNCHANGED <<ipmi_seq, seq, send_count, sync_msg, max_queue, trouble, messages>>
      /\ lock' = c /\ fifo' = Nothing /\ b2h' = Nothing /\ pc[c] = "reset"
      /\ work' = work \/ work' = {}
  BY DEF bt_reset, At, queues, fields, sync, locals, ghost, frozen
<1>2. PICK w \in Plain \ {"wait"} : pc' = [pc EXCEPT ![c] = w]
  BY AfterPlain DEF bt_reset, Goto
<1>3. pc[c] \in Plain
  BY <1>1 DEF Plain
<1>4. /\ send_count' \in [Msgs -> 0..Counts - 1] /\ work' \subseteq Requests
      /\ lock' \in CPUs \cup {NoCpu}
  BY <1>1 DEF Sound, Types
<1>5. \A r \in OnWire' : r \in OnWire
  BY <1>1 DEF OnWire
<1> QED
  BY <1>1, <1>2, <1>3, <1>4, <1>5, PollMove

-----------------------------------------------------------------------------
(* Steps that complete a message. *)

\* No message has the address of none.
LEMMA NoMsgFact == NoMsg \notin Msgs
BY DEF NoMsg, Msgs

\* bt_get_resp or bt_expire_old_msg takes message m out of its queue, drops
\* the lock and is about to call the function that frees it.
LEMMA CompleteMove ==
  ASSUME Sound, NEW c \in CPUs, NEW m \in Queued, NEW next \in {"expire", "reset"},
         pc[c] \in Plain, Complete(c, m, next), queue_len' = queue_len - 1,
         UNCHANGED <<new, own, id, made, ipmi_seq, seq, send_count, sync_msg, fifo, work>>,
         UNCHANGED <<max_queue, trouble, messages>>,
         b2h' = b2h \/ b2h' = Nothing, messages <= Seqs /\ ~mixed => ~mixed'
  PROVE  Sound'
<1>0. Types /\ Locals /\ QueuesOK /\ Places /\ Counted /\ Waits /\ Numbers
  BY DEF Sound
<1>1. /\ msgq' = RemoveFirst(msgq, m) /\ msgq_sync' = RemoveFirst(msgq_sync, m)
      /\ inflight' = IF m = inflight THEN NoMsg ELSE inflight
      /\ lock' = NoCpu /\ old' = [old EXCEPT ![c] = m] /\ then' = [then EXCEPT ![c] = next]
      /\ pc' = [pc EXCEPT ![c] = "done"]
  BY DEF Complete, Goto, Set
<1>2. /\ QueuesOK' /\ msgq' \in Seq(Msgs) /\ msgq_sync' \in Seq(Msgs)
      /\ Queued' = Queued \ {m}
      /\ Len(msgq)' + Len(msgq_sync)' = (Len(msgq) + Len(msgq_sync)) - 1
      /\ inflight' \in Msgs \cup {NoMsg}
  BY <1>0, <1>1, Unlink
<1>3. /\ pc'[c] = "done" /\ old'[c] = m /\ then'[c] = next
      /\ \A d \in CPUs : d # c => pc'[d] = pc[d] /\ old'[d] = old[d] /\ then'[d] = then[d]
  BY <1>0, <1>1 DEF Types
<1>4. m \in Msgs /\ m # NoMsg
  BY <1>0, QueuedMsgs, NoMsgFact
<1>5. /\ pc' \in [CPUs -> Where] /\ old' \in [CPUs -> Msgs \cup {NoMsg}]
      /\ then' \in [CPUs -> {"idle", "link", "expire", "reset"}]
  BY <1>0, <1>1, <1>4 DEF Types, Where
<1>6. /\ pc[c] \notin {"done", "compare", "add", "link", "sync"}
      /\ then[c] = "idle" /\ new[c] = NoMsg
  BY <1>0 DEF Plain, Locals
<1>7. Locals'
  <2> SUFFICES ASSUME NEW d \in CPUs
               PROVE  /\ then'[d] # "idle" <=> pc'[d] \in {"done", "compare"}
                      /\ old'[d] # NoMsg <=> pc'[d] \in {"done", "compare"}
                      /\ new'[d] # NoMsg <=> pc'[d] \in {"sync", "add", "link"} \/ then'[d] = "link"
    BY DEF Locals
  <2>1. CASE d = c
    BY <1>3, <1>4, <1>6, <2>1
  <2>2. CASE d # c
    BY <1>0, <1>3, <2>2 DEF Locals
  <2> QED
    BY <2>1, <2>2
<1>8. \A d \in CPUs, k \in Msgs : Done(d, k)' <=> Done(d, k) \/ (d = c /\ k = m)
  BY <1>3, <1>6 DEF Done
<1>9. Places'
  <2> SUFFICES ASSUME NEW k \in Msgs
               PROVE  /\ id'[k] > 0 <=> k \in Queued' \/ \E d \in CPUs : new'[d] = k \/ Done(d, k)'
                      /\ \A d, e \in CPUs :
                           /\ ~(k \in Queued' /\ new'[d] = k) /\ ~(k \in Queued' /\ Done(d, k)')
                           /\ ~(new'[d] = k /\ Done(e, k)')
                           /\ new'[d] = k /\ new'[e] = k => d = e
                           /\ Done(d, k)' /\ Done(e, k)' => d = e
    BY DEF Places
  <2>1. CASE k = m
    BY <1>0, <1>2, <1>8, <2>1 DEF Places
  <2>2. CASE k # m
    BY <1>0, <1>2, <1>8, <2>2 DEF Places
  <2> QED
    BY <2>1, <2>2
<1>10. Waiting' = Waiting /\ Unnumbered' = Unnumbered
  BY <1>3, <1>6 DEF Waiting, Unnumbered
<1>11. Counted' /\ queue_len' \in 0..max_queue
  <2>1. Len(msgq)' \in Nat /\ Len(msgq_sync)' \in Nat
    BY <1>2
  <2>2. Cardinality(Waiting) \in Nat /\ queue_len \in 0..max_queue /\ max_queue \in Nat
    BY <1>0, Counters DEF Types
  <2>3. Len(msgq) \in Nat /\ Len(msgq_sync) \in Nat
    BY <1>0, QueuedMsgs
  <2>4. queue_len = (Len(msgq) + Len(msgq_sync)) + Cardinality(Waiting)
    BY <1>0 DEF Counted
  <2>5. queue_len' = (Len(msgq)' + Len(msgq_sync)') + Cardinality(Waiting')
    BY <1>2, <1>10, <2>1, <2>2, <2>3, <2>4
  <2>6. queue_len' \in 0..max_queue
    BY <1>10, <2>1, <2>2, <2>5
  <2> QED
    BY <2>5, <2>6 DEF Counted
<1>12. Types'
  <2>1. b2h' \in Requests \cup {Nothing}
    BY <1>0 DEF Types
  <2> QED
    BY <1>0, <1>1, <1>2, <1>5, <1>11, <2>1 DEF Types, Requests
<1>13. Waits'
  <2>1. "reuse" \notin trouble => \A d \in CPUs : d # c /\ pc[d] = "compare" => id[old[d]] = -1
    BY <1>0 DEF Waits
  <2> QED
    BY <1>0, <1>3, <2>1 DEF Waits
<1>14. Numbers'
  <2>1. \A k \in Msgs : Numbered(k)' => Numbered(k)
    <3> SUFFICES ASSUME NEW k \in Msgs, Numbered(k)' PROVE Numbered(k)
      OBVIOUS
    <3>1. CASE k \in Queued'
      BY <1>2, <3>1 DEF Numbered
    <3>2. CASE k \notin Queued'
      <4>1. PICK d \in CPUs : new'[d] = k /\ pc'[d] \notin {"sync", "add"}
        BY <3>2 DEF Numbered
      <4>2. d # c
        BY <1>6, <4>1, NoMsgFact
      <4> QED
        BY <1>3, <4>1, <4>2 DEF Numbered
    <3> QED
      BY <3>1, <3>2
  <2>2. \A r \in OnWire' : r \in OnWire
    BY DEF OnWire
  <2>3. Given' = Given
    BY <1>10 DEF Given
  <2> QED
    BY <1>0, <2>1, <2>2, <2>3, NumbersKept
<1> QED
  BY <1>2, <1>7, <1>9, <1>11, <1>12, <1>13, <1>14 DEF Sound

\* bt_get_resp.
LEMMA RespStep ==
  ASSUME Sound, NEW c \in CPUs, bt_get_resp(c)
  PROVE  Sound'
<1>0. Types /\ QueuesOK /\ Numbers
  BY DEF Sound
<1>1. /\ UNCHANGED <<new, own, id, made, ipmi_seq, seq, send_count, sync_msg, work>>
      /\ UNCHANGED <<max_queue, trouble, messages>> /\ b2h' = Nothing
      /\ pc[c] \in Plain
  BY DEF bt_get_resp, At, sync, frozen, Plain
<1>2. CASE /\ b2h # Nothing /\ Expected
           /\ mixed' = (mixed \/ b2h.id # id[inflight])
           /\ Complete(c, inflight, "expire") /\ queue_len' = queue_len - 1 /\ fifo' = fifo
  <2>1. inflight # NoMsg /\ seq[inflight] = b2h.seq
    BY <1>2 DEF Expected
  <2>2. inflight \in Queued /\ inflight \in Msgs
    BY <1>0, <2>1, QueuedMsgs DEF QueuesOK
  <2>3. b2h \in OnWire /\ Numbered(inflight)
    BY <1>2, <2>2 DEF OnWire, Numbered
  <2>4. messages <= Seqs => id[inflight] = b2h.id
    BY <1>0, <2>1, <2>2, <2>3 DEF Numbers, Numbering
  <2>5. messages <= Seqs /\ ~mixed => ~mixed'
    BY <1>2, <2>4
  <2> QED
    BY <1>1, <1>2, <2>2, <2>5, CompleteMove
<1>3. CASE /\ UNCHANGED <<msgq, msgq_sync, inflight, queue_len, old, then, mixed>>
           /\ fifo' = fifo \/ fifo' = Nothing
           /\ lock' = c /\ Goto(c, AfterResp)
  <2>1. PICK w \in Plain \ {"wait"} : pc' = [pc EXCEPT ![c] = w]
    BY <1>3, AfterPlain DEF Goto
  <2>2. /\ send_count' \in [Msgs -> 0..Counts - 1] /\ work' \subseteq Requests
        /\ lock' \in CPUs \cup {NoCpu} /\ fifo' \in Requests \cup {Nothing}
    BY <1>0, <1>1, <1>3 DEF Types
  <2>3. \A r \in OnWire' : r \in OnWire
    BY <1>1, <1>3 DEF OnWire
  <2> QED
    BY <1>1, <1>3, <2>1, <2>2, <2>3, PollMove
<1> QED
  BY <1>2, <1>3 DEF bt_get_resp, queues

\* bt_expire_old_msg.
LEMMA ExpireStep ==
  ASSUME Sound, NEW c \in CPUs, bt_expire_old_msg(c)
  PROVE  Sound'
<1>0. Types /\ QueuesOK /\ Places /\ Numbers
  BY DEF Sound
<1>1. /\ UNCHANGED <<new, own, id, made, mixed, ipmi_seq, seq, sync_msg, b2h, work>>
      /\ UNCHANGED <<max_queue, trouble, messages>>
      /\ pc[c] \in Plain
  BY DEF bt_expire_old_msg, At, sync, ghost, frozen, Plain
<1>2. inflight # NoMsg => inflight \in Queued /\ inflight \in Msgs
  BY <1>0, QueuedMsgs DEF QueuesOK
<1>3. CASE /\ inflight # NoMsg /\ Complete(c, inflight, "reset")
           /\ queue_len' = queue_len - 1 /\ UNCHANGED <<send_count, fifo>>
  BY <1>0, <1>1, <1>2, <1>3, CompleteMove
<1>4. CASE /\ UNCHANGED <<msgq, msgq_sync, inflight, queue_len, old, then>>
           /\ lock' = c /\ Goto(c, AfterExpire)
           /\ \/ UNCHANGED <<send_count, fifo>>
              \/ /\ inflight # NoMsg
                 /\ \/ Send(inflight, 2 % Counts)
                    \/ /\ send_count' = Set(send_count, inflight,
                                              (send_count[inflight] + 1) % Counts)
                       /\ fifo' = fifo
  <2>1. PICK w \in Plain \ {"wait"} : pc' = [pc EXCEPT ![c] = w]
    BY <1>4, AfterPlain DEF Goto
  <2>2. \/ fifo' = fifo
        \/ inflight \in Queued /\ fifo' = [id |-> id[inflight], seq |-> seq[inflight]]
    BY <1>2, <1>4 DEF Send
  <2>3. send_count' \in [Msgs -> 0..Counts - 1]
    <3>1. send_count \in [Msgs -> 0..Counts - 1] /\ 2 % Counts \in 0..Counts - 1
      BY <1>0, Modulo DEF Types
    <3>2. \/ send_count' = send_count
          \/ /\ inflight \in Msgs
             /\ \/ send_count' = [send_count EXCEPT ![inflight] = 2 % Counts]
                \/ send_count' = [send_count EXCEPT ![inflight] =
                                                      (send_count[inflight] + 1) % Counts]
      BY <1>2, <1>4 DEF Send, Set
    <3>3. inflight \in Msgs => (send_count[inflight] + 1) % Counts \in 0..Counts - 1
      <4>1. inflight \in Msgs => send_count[inflight] + 1 \in Nat
        BY <3>1, Modulo
      <4> QED
        BY <4>1, Modulo
    <3> QED
      BY <3>1, <3>2, <3>3
  <2>4. work' \subseteq Requests /\ b2h' \in Requests \cup {Nothing} /\ lock' \in CPUs \cup {NoCpu}
    BY <1>0, <1>1, <1>4 DEF Types
  <2>5. fifo' \in Requests \cup {Nothing}
    BY <1>0, <2>2, SentType DEF Types
  <2>6. \A r \in OnWire' : \/ r \in OnWire
                           \/ \E m \in Msgs : Numbered(m) /\ r.id = id[m] /\ r.seq = seq[m]
    <3>1. CASE fifo' = fifo
      BY <1>1, <3>1 DEF OnWire
    <3>2. CASE inflight \in Queued /\ fifo' = [id |-> id[inflight], seq |-> seq[inflight]]
      BY <1>0, <1>1, <3>2, Sent
    <3> QED
      BY <2>2, <3>1, <3>2
  <2> QED
    BY <1>1, <1>4, <2>1, <2>3, <2>4, <2>5, <2>6, PollMove
<1> QED
  BY <1>3, <1>4 DEF bt_expire_old_msg, queues

-----------------------------------------------------------------------------
(* Steps that make and queue a message. *)

\* Message m is c's alone: nobody else has it and it is in no queue; it has no
\* sequence number.
Alone(c, m) ==
  /\ m \notin Queued
  /\ \A d \in CPUs : ~Done(d, m) /\ (d # c => new[d] # m)

\* What making a message does.
LEMMA MakeFacts ==
  ASSUME Types, Places, NEW c \in CPUs, NEW m \in Msgs, Make(m)
  PROVE  /\ Alone(c, m) /\ new[c] # m
         /\ id' \in [Msgs -> -1..messages] /\ id'[m] > 0
         /\ \A k \in Msgs : k # m => id'[k] = id[k]
         /\ \A k \in Msgs : id[k] = -1 => id'[k] = -1
         /\ made' = made + 1 /\ made' \in 0..messages /\ made < messages
<1>1. /\ id[m] = 0 /\ made' = made + 1 /\ id' = [id EXCEPT ![m] = made + 1] /\ made < messages
      /\ id \in [Msgs -> -1..messages] /\ made \in 0..messages /\ messages \in Nat
  BY IpmiBtAssumption DEF Make, Set, Types
<1>2. made + 1 \in 1..messages
  BY <1>1
<1>3. id' \in [Msgs -> -1..messages] /\ id'[m] > 0 /\ \A k \in Msgs : k # m => id'[k] = id[k]
  BY <1>1, <1>2
<1>4. ~(id[m] > 0)
  BY <1>1
<1>5. Alone(c, m) /\ new[c] # m
  BY <1>4 DEF Places, Alone
<1>6. \A k \in Msgs : id[k] = -1 => id'[k] = -1
  BY <1>1, <1>3
<1> QED
  BY <1>1, <1>2, <1>3, <1>5, <1>6

\* c has message m to queue: one that it made before, or one that it makes now.
Adding(c, m) ==
  \/ pc[c] = "add" /\ new[c] = m /\ UNCHANGED <<id, made>>
  \/ pc[c] = "idle" /\ Make(m)

\* What the two have in common.
LEMMA AddingFacts ==
  ASSUME Sound, NEW c \in CPUs, NEW m \in Msgs, Adding(c, m)
  PROVE  /\ Alone(c, m) /\ new[c] \in {m, NoMsg} /\ ~Numbered(m)
         /\ pc[c] \in {"add", "idle"} /\ then[c] = "idle"
         /\ id' \in [Msgs -> -1..messages] /\ id'[m] > 0
         /\ \A k \in Msgs : k # m => id'[k] = id[k]
         /\ \A k \in Msgs : id[k] = -1 => id'[k] = -1
         /\ made' \in 0..messages
         /\ Given < messages
         /\ Unnumbered' = Unnumbered \ {c} => Given' = Given + 1
<1>0. Types /\ Locals /\ Places /\ Numbers
  BY DEF Sound
<1>1. /\ Cardinality(Unnumbered) \in Nat /\ IsFiniteSet(Unnumbered) /\ made \in 0..messages
      /\ messages \in Nat /\ Given = made - Cardinality(Unnumbered)
      /\ Given' = made' - Cardinality(Unnumbered')
  BY <1>0, Counters, IpmiBtAssumption DEF Types, Given
<1>2. CASE pc[c] = "add" /\ new[c] = m /\ UNCHANGED <<id, made>>
  <2>1. id \in [Msgs -> -1..messages] /\ id[m] > 0
    BY <1>0, <1>2 DEF Types, Places
  <2>2. Alone(c, m)
    BY <1>0, <1>2 DEF Places, Alone
  <2>3. ~Numbered(m)
    BY <1>0, <1>2, <2>2 DEF Alone, Numbered
  <2>4. then[c] = "idle"
    BY <1>0, <1>2 DEF Locals
  <2>5. c \in Unnumbered
    BY <1>2 DEF Unnumbered
  <2>6. /\ Cardinality(Unnumbered \ {c}) = Cardinality(Unnumbered) - 1
        /\ Cardinality(Unnumbered) >= 1
    BY <1>1, <2>5, OneMore
  <2>7. Given < messages /\ (Unnumbered' = Unnumbered \ {c} => Given' = Given + 1)
    <3> DEFINE u == Cardinality(Unnumbered)
    <3>1. Unnumbered' = Unnumbered \ {c} => Given' = made - (u - 1)
      BY <1>1, <1>2, <2>6
    <3>2. u \in Nat /\ u >= 1 /\ Given = made - u /\ made \in Nat /\ made <= messages
      BY <1>1, <2>6
    <3> HIDE DEF u
    <3>3. made - (u - 1) = (made - u) + 1 /\ made - u < messages
      BY <1>1, <3>2
    <3> QED
      BY <3>1, <3>2, <3>3
  <2> QED
    BY <1>1, <1>2, <2>1, <2>2, <2>3, <2>4, <2>7
<1>3. CASE pc[c] = "idle" /\ Make(m)
  <2>1. /\ Alone(c, m) /\ new[c] # m
        /\ id' \in [Msgs -> -1..messages] /\ id'[m] > 0
        /\ \A k \in Msgs : k # m => id'[k] = id[k]
        /\ \A k \in Msgs : id[k] = -1 => id'[k] = -1
        /\ made' = made + 1 /\ made' \in 0..messages /\ made < messages
    BY <1>0, <1>3, MakeFacts
  <2>2. then[c] = "idle" /\ new[c] = NoMsg
    BY <1>0, <1>3 DEF Locals
  <2>3. ~Numbered(m)
    BY <2>1 DEF Alone, Numbered
  <2>4. c \notin Unnumbered
    BY <1>3 DEF Unnumbered
  <2>5. Unnumbered \ {c} = Unnumbered
    BY <2>4
  <2>6. Given < messages /\ (Unnumbered' = Unnumbered \ {c} => Given' = Given + 1)
    BY <1>1, <2>1, <2>5
  <2> QED
    BY <1>3, <2>1, <2>2, <2>3, <2>6
<1> QED
  BY <1>2, <1>3 DEF Adding

\* c puts message m into a queue.
LEMMA LinkMove ==
  ASSUME Types, Locals, QueuesOK, Places, NEW c \in CPUs, NEW m \in Msgs, NEW h,
         pc[c] \in {"add", "idle", "link"}, then[c] = "idle", Alone(c, m), new[c] \in {m, NoMsg},
         id' \in [Msgs -> -1..messages], id'[m] > 0, \A k \in Msgs : k # m => id'[k] = id[k],
         Link(c, m, h), UNCHANGED <<inflight, old, then>>
  PROVE  /\ Locals' /\ QueuesOK' /\ Places'
         /\ msgq' \in Seq(Msgs) /\ msgq_sync' \in Seq(Msgs)
         /\ Len(msgq)' + Len(msgq_sync)' = (Len(msgq) + Len(msgq_sync)) + 1
         /\ pc' \in [CPUs -> Where] /\ new' \in [CPUs -> Msgs \cup {NoMsg}]
         /\ Waiting' = Waiting \ {c} /\ Unnumbered' = Unnumbered \ {c}
         /\ \A k \in Msgs : k # m => (Numbered(k)' => Numbered(k))
         /\ pc'[c] = "send" /\ \A d \in CPUs : d # c => pc'[d] = pc[d]
<1>1. /\ msgq' = IF h THEN msgq ELSE Append(msgq, m)
      /\ msgq_sync' = IF h THEN Append(msgq_sync, m) ELSE msgq_sync
      /\ new' = [new EXCEPT ![c] = NoMsg] /\ pc' = [pc EXCEPT ![c] = "send"]
  BY DEF Link, Goto, Set
<1>2. m \notin Queued
  BY DEF Alone
<1>3. /\ QueuesOK' /\ msgq' \in Seq(Msgs) /\ msgq_sync' \in Seq(Msgs)
      /\ Queued' = Queued \cup {m}
      /\ Len(msgq)' + Len(msgq_sync)' = (Len(msgq) + Len(msgq_sync)) + 1
  BY <1>1, <1>2, Linked
<1>4. /\ pc'[c] = "send" /\ new'[c] = NoMsg
      /\ \A d \in CPUs : d # c => pc'[d] = pc[d] /\ new'[d] = new[d]
      /\ pc' \in [CPUs -> Where] /\ new' \in [CPUs -> Msgs \cup {NoMsg}]
  BY <1>1 DEF Types, Where, Plain
<1>5. old[c] = NoMsg
  BY DEF Locals
<1>6. Locals'
  <2> SUFFICES ASSUME NEW d \in CPUs
               PROVE  /\ then'[d] # "idle" <=> pc'[d] \in {"done", "compare"}
                      /\ old'[d] # NoMsg <=> pc'[d] \in {"done", "compare"}
                      /\ new'[d] # NoMsg <=> pc'[d] \in {"sync", "add", "link"} \/ then'[d] = "link"
    BY DEF Locals
  <2>1. CASE d = c
    BY <1>4, <1>5, <2>1
  <2>2. CASE d # c
    BY <1>4, <2>2 DEF Locals
  <2> QED
    BY <2>1, <2>2
<1>7. \A d \in CPUs, k \in Msgs : Done(d, k)' <=> Done(d, k)
  BY <1>4 DEF Done
<1>8. Places'
  <2> SUFFICES ASSUME NEW k \in Msgs
               PROVE  /\ id'[k] > 0 <=> k \in Queued' \/ \E d \in CPUs : new'[d] = k \/ Done(d, k)'
                      /\ \A d, e \in CPUs :
                           /\ ~(k \in Queued' /\ new'[d] = k) /\ ~(k \in Queued' /\ Done(d, k)')
                           /\ ~(new'[d] = k /\ Done(e, k)')
                           /\ new'[d] = k /\ new'[e] = k => d = e
                           /\ Done(d, k)' /\ Done(e, k)' => d = e
    BY DEF Places
  <2>1. \A d \in CPUs : new'[d] = k <=> new[d] = k /\ d # c
    BY <1>4, NoMsgFact
  <2>2. CASE k = m
    <3>1. \A d \in CPUs : new'[d] # k /\ ~Done(d, k)'
      BY <1>7, <2>1, <2>2 DEF Alone
    <3> QED
      BY <1>3, <2>2, <3>1
  <2>3. CASE k # m
    <3>1. new[c] # k
      BY <2>3, NoMsgFact
    <3>2. \A d \in CPUs : new'[d] = k <=> new[d] = k
      BY <2>1, <3>1
    <3>3. (k \in Queued' <=> k \in Queued) /\ id'[k] = id[k]
      BY <1>3, <2>3
    <3> QED
      BY <1>7, <3>2, <3>3 DEF Places
  <2> QED
    BY <2>2, <2>3
<1>9. Waiting' = Waiting \ {c} /\ Unnumbered' = Unnumbered \ {c}
  BY <1>4 DEF Waiting, Unnumbered
<1>10. ASSUME NEW k \in Msgs, k # m, Numbered(k)' PROVE Numbered(k)
  <2>1. CASE k \in Queued'
    BY <1>3, <1>10, <2>1 DEF Numbered
  <2>2. CASE k \notin Queued'
    <3>1. PICK d \in CPUs : new'[d] = k /\ pc'[d] \notin {"sync", "add"}
      BY <1>10, <2>2 DEF Numbered
    <3>2. d # c
      BY <1>4, <3>1, NoMsgFact
    <3> QED
      BY <1>4, <3>1, <3>2 DEF Numbered
  <2> QED
    BY <2>1, <2>2
<1> QED
  BY <1>3, <1>4, <1>6, <1>8, <1>9, <1>10

\* bt_add_msg with a place in the queue.
LEMMA AddRoom ==
  ASSUME Sound, NEW c \in CPUs, NEW m \in Msgs, NEW h, Adding(c, m), Add(c, m, h),
         queue_len < max_queue, queue_len' = queue_len + 1, Link(c, m, h),
         UNCHANGED <<inflight, old, then>>
  PROVE  Sound'
<1>0. Types /\ Locals /\ QueuesOK /\ Places /\ Counted /\ Waits /\ Numbers
  BY DEF Sound
<1>1. /\ seq' = Set(seq, m, ipmi_seq) /\ ipmi_seq' = (ipmi_seq + 1) % Seqs /\ lock' = c
      /\ UNCHANGED <<send_count, sync_msg, fifo, b2h, work, own, mixed, max_queue, trouble,
                     messages>>
  BY DEF Add, Link, sync, wire, frozen
<1>2. /\ Alone(c, m) /\ new[c] \in {m, NoMsg} /\ ~Numbered(m)
      /\ pc[c] \in {"add", "idle"} /\ then[c] = "idle"
      /\ id' \in [Msgs -> -1..messages] /\ id'[m] > 0
      /\ \A k \in Msgs : k # m => id'[k] = id[k]
      /\ \A k \in Msgs : id[k] = -1 => id'[k] = -1
      /\ made' \in 0..messages
      /\ Given < messages
      /\ Unnumbered' = Unnumbered \ {c} => Given' = Given + 1
  BY AddingFacts
<1>3. /\ Locals' /\ QueuesOK' /\ Places'
      /\ msgq' \in Seq(Msgs) /\ msgq_sync' \in Seq(Msgs)
      /\ Len(msgq)' + Len(msgq_sync)' = (Len(msgq) + Len(msgq_sync)) + 1
      /\ pc' \in [CPUs -> Where] /\ new' \in [CPUs -> Msgs \cup {NoMsg}]
      /\ Waiting' = Waiting \ {c} /\ Unnumbered' = Unnumbered \ {c}
      /\ \A k \in Msgs : k # m => (Numbered(k)' => Numbered(k))
      /\ pc'[c] = "send" /\ \A d \in CPUs : d # c => pc'[d] = pc[d]
  BY <1>0, <1>2, LinkMove
<1>4. Waiting' = Waiting
  BY <1>2, <1>3 DEF Waiting
<1>5. Counted' /\ queue_len' \in 0..max_queue
  <2>1. Cardinality(Waiting) \in Nat /\ queue_len \in 0..max_queue /\ max_queue \in Nat
    BY <1>0, Counters, IpmiBtAssumption DEF Types
  <2>2. Len(msgq) \in Nat /\ Len(msgq_sync) \in Nat
    BY <1>0, QueuedMsgs
  <2>3. queue_len = (Len(msgq) + Len(msgq_sync)) + Cardinality(Waiting)
    BY <1>0 DEF Counted
  <2>4. queue_len' = (Len(msgq)' + Len(msgq_sync)') + Cardinality(Waiting')
    <3> DEFINE n == Len(msgq) + Len(msgq_sync)
               u == Cardinality(Waiting)
    <3>1. n \in Nat /\ u \in Nat /\ queue_len = n + u
      BY <2>1, <2>2, <2>3
    <3>2. Len(msgq)' + Len(msgq_sync)' = n + 1 /\ Cardinality(Waiting') = u
      BY <1>3, <1>4
    <3> HIDE DEF n, u
    <3>3. (n + u) + 1 = (n + 1) + u
      BY <3>1
    <3> QED
      BY <3>1, <3>2, <3>3
  <2>5. queue_len' \in 0..max_queue
    BY <2>1
  <2> QED
    BY <2>4, <2>5 DEF Counted
<1>6. ipmi_seq' \in 0..Seqs - 1 /\ seq' \in [Msgs -> 0..Seqs - 1]
  <2>1. /\ ipmi_seq \in 0..Seqs - 1 /\ Seqs \in Nat /\ Seqs > 0 /\ seq \in [Msgs -> 0..Seqs - 1]
    BY <1>0, IpmiBtAssumption DEF Types
  <2>2. (ipmi_seq + 1) % Seqs \in 0..Seqs - 1
    BY <2>1
  <2> QED
    BY <1>1, <2>1, <2>2 DEF Set
<1>7. Types'
  BY <1>0, <1>1, <1>2, <1>3, <1>5, <1>6 DEF Types, Requests
<1>8. Waits'
  <2>1. pc'[c] \notin {"compare", "wait"}
    BY <1>3
  <2>2. \A d \in CPUs : /\ own[d] # NoMsg => own[d] \in Msgs
                        /\ pc[d] = "compare" => old[d] \in Msgs
    BY <1>0 DEF Types, Locals
  <2> QED
    BY <1>0, <1>1, <1>2, <1>3, <2>1, <2>2 DEF Waits
<1>9. Numbers'
  <2>1. OnWire' = OnWire
    BY <1>1 DEF OnWire
  <2> QED
    BY <1>0, <1>1, <1>2, <1>3, <2>1, NumbersGiven
<1> QED
  BY <1>0, <1>1, <1>3, <1>5, <1>7, <1>8, <1>9 DEF Sound

\* bt_add_msg with the queue full: the last message of msgq, or else
\* of msgq_sync, is thrown out and completed before the new one is linked.
LEMMA AddFull ==
  ASSUME Sound, NEW c \in CPUs, NEW m \in Msgs, NEW h, Adding(c, m), Add(c, m, h),
         queue_len >= max_queue, queue_len' = queue_len, Complete(c, Victim(m), "link"),
         new' = Set(new, c, m), Victim(m) # m
  PROVE  Sound'
<1>0. Types /\ Locals /\ QueuesOK /\ Places /\ Counted /\ Waits /\ Numbers
  BY DEF Sound
<1>1. /\ seq' = Set(seq, m, ipmi_seq) /\ ipmi_seq' = (ipmi_seq + 1) % Seqs
      /\ UNCHANGED <<send_count, sync_msg, fifo, b2h, work, own, mixed, max_queue, trouble,
                     messages>>
  BY DEF Add, sync, wire, frozen
<1>2. /\ Alone(c, m) /\ new[c] \in {m, NoMsg} /\ ~Numbered(m)
      /\ pc[c] \in {"add", "idle"} /\ then[c] = "idle"
      /\ id' \in [Msgs -> -1..messages] /\ id'[m] > 0
      /\ \A k \in Msgs : k # m => id'[k] = id[k]
      /\ \A k \in Msgs : id[k] = -1 => id'[k] = -1
      /\ made' \in 0..messages
      /\ Given < messages
      /\ Unnumbered' = Unnumbered \ {c} => Given' = Given + 1
  BY AddingFacts
<1> DEFINE v == Victim(m)
<1>3. c \notin Waiting
  BY <1>2 DEF Waiting
<1>4. v \in Queued /\ v \in Msgs /\ v # NoMsg /\ v # m
  <2>1. v \in Queued
    BY <1>0, VictimQueued
  <2> QED
    BY <1>0, <1>2, <2>1, QueuedMsgs, NoMsgFact DEF Alone
<1>5. /\ msgq' = RemoveFirst(msgq, v) /\ msgq_sync' = RemoveFirst(msgq_sync, v)
      /\ inflight' = IF v = inflight THEN NoMsg ELSE inflight
      /\ lock' = NoCpu /\ old' = [old EXCEPT ![c] = v] /\ then' = [then EXCEPT ![c] = "link"]
      /\ pc' = [pc EXCEPT ![c] = "done"] /\ new' = [new EXCEPT ![c] = m]
  BY DEF Complete, Goto, Set
<1> HIDE DEF v
<1>6. /\ QueuesOK' /\ msgq' \in Seq(Msgs) /\ msgq_sync' \in Seq(Msgs)
      /\ Queued' = Queued \ {v}
      /\ Len(msgq)' + Len(msgq_sync)' = (Len(msgq) + Len(msgq_sync)) - 1
      /\ inflight' \in Msgs \cup {NoMsg}
  BY <1>0, <1>4, <1>5, Unlink
<1>7. /\ pc'[c] = "done" /\ old'[c] = v /\ then'[c] = "link" /\ new'[c] = m
      /\ \A d \in CPUs : d # c => /\ pc'[d] = pc[d] /\ old'[d] = old[d]
                                  /\ then'[d] = then[d] /\ new'[d] = new[d]
  BY <1>0, <1>5 DEF Types
<1>8. /\ pc' \in [CPUs -> Where] /\ old' \in [CPUs -> Msgs \cup {NoMsg}]
      /\ then' \in [CPUs -> {"idle", "link", "expire", "reset"}]
      /\ new' \in [CPUs -> Msgs \cup {NoMsg}]
  BY <1>0, <1>4, <1>5 DEF Types, Where
<1>9. Locals'
  <2> SUFFICES ASSUME NEW d \in CPUs
               PROVE  /\ then'[d] # "idle" <=> pc'[d] \in {"done", "compare"}
                      /\ old'[d] # NoMsg <=> pc'[d] \in {"done", "compare"}
                      /\ new'[d] # NoMsg <=> pc'[d] \in {"sync", "add", "link"} \/ then'[d] = "link"
    BY DEF Locals
  <2>1. CASE d = c
    BY <1>4, <1>7, <2>1, NoMsgFact
  <2>2. CASE d # c
    BY <1>0, <1>7, <2>2 DEF Locals
  <2> QED
    BY <2>1, <2>2
<1>10. \A d \in CPUs, k \in Msgs : Done(d, k)' <=> Done(d, k) \/ (d = c /\ k = v)
  BY <1>2, <1>7 DEF Done
<1>11. Places'
  <2> SUFFICES ASSUME NEW k \in Msgs
               PROVE  /\ id'[k] > 0 <=> k \in Queued' \/ \E d \in CPUs : new'[d] = k \/ Done(d, k)'
                      /\ \A d, e \in CPUs :
                           /\ ~(k \in Queued' /\ new'[d] = k) /\ ~(k \in Queued' /\ Done(d, k)')
                           /\ ~(new'[d] = k /\ Done(e, k)')
                           /\ new'[d] = k /\ new'[e] = k => d = e
                           /\ Done(d, k)' /\ Done(e, k)' => d = e
    BY DEF Places
  <2>1. CASE k = m
    <3>1. k \notin Queued' /\ \A d \in CPUs : ~Done(d, k)' /\ (new'[d] = k <=> d = c)
      BY <1>2, <1>4, <1>6, <1>7, <1>10, <2>1 DEF Alone
    <3> QED
      BY <1>2, <2>1, <3>1
  <2>2. CASE k # m
    <3>1. new[c] # k /\ id'[k] = id[k]
      BY <1>2, <2>2, NoMsgFact
    <3>2. \A d \in CPUs : new'[d] = k <=> new[d] = k
      BY <1>7, <2>2, <3>1
    <3>3. CASE k = v
      BY <1>0, <1>4, <1>6, <1>10, <3>1, <3>2, <3>3 DEF Places
    <3>4. CASE k # v
      BY <1>0, <1>6, <1>10, <3>1, <3>2, <3>4 DEF Places
    <3> QED
      BY <3>3, <3>4
  <2> QED
    BY <2>1, <2>2
<1>12. Waiting' = Waiting \cup {c} /\ Unnumbered' = Unnumbered \ {c}
  BY <1>7 DEF Waiting, Unnumbered
<1>13. Counted' /\ queue_len' \in 0..max_queue
  <2>1. /\ Cardinality(Waiting) \in Nat /\ queue_len \in 0..max_queue /\ max_queue \in Nat
        /\ Cardinality(Waiting \cup {c}) = Cardinality(Waiting) + 1
    BY <1>0, <1>3, Counters, OneMore DEF Types
  <2>2. Len(msgq) \in Nat /\ Len(msgq_sync) \in Nat
    BY <1>0, QueuedMsgs
  <2>3. queue_len = (Len(msgq) + Len(msgq_sync)) + Cardinality(Waiting)
    BY <1>0 DEF Counted
  <2>4. queue_len' = (Len(msgq)' + Len(msgq_sync)') + Cardinality(Waiting')
    BY <1>6, <1>12, <2>1, <2>2, <2>3
  <2> QED
    BY <2>1, <2>4 DEF Counted
<1>14. ipmi_seq' \in 0..Seqs - 1 /\ seq' \in [Msgs -> 0..Seqs - 1]
  <2>1. /\ ipmi_seq \in 0..Seqs - 1 /\ Seqs \in Nat /\ Seqs > 0 /\ seq \in [Msgs -> 0..Seqs - 1]
    BY <1>0, IpmiBtAssumption DEF Types
  <2>2. (ipmi_seq + 1) % Seqs \in 0..Seqs - 1
    BY <2>1
  <2> QED
    BY <1>1, <2>1, <2>2 DEF Set
<1>15. Types'
  BY <1>0, <1>1, <1>2, <1>5, <1>6, <1>8, <1>13, <1>14 DEF Types, Requests
<1>16. Waits'
  <2>1. pc'[c] \notin {"compare", "wait"}
    BY <1>7
  <2>2. \A d \in CPUs : /\ own[d] # NoMsg => own[d] \in Msgs
                        /\ pc[d] = "compare" => old[d] \in Msgs
    BY <1>0 DEF Types, Locals
  <2> QED
    BY <1>0, <1>1, <1>2, <1>7, <2>1, <2>2 DEF Waits
<1>17. Numbers'
  <2>1. OnWire' = OnWire
    BY <1>1 DEF OnWire
  <2>2. ASSUME NEW k \in Msgs, k # m, Numbered(k)' PROVE Numbered(k)
    <3>1. CASE k \in Queued'
      BY <1>6, <3>1 DEF Numbered
    <3>2. CASE k \notin Queued'
      <4>1. PICK d \in CPUs : new'[d] = k /\ pc'[d] \notin {"sync", "add"}
        BY <2>2, <3>2 DEF Numbered
      <4>2. d # c
        BY <1>7, <2>2, <4>1
      <4> QED
        BY <1>7, <4>1, <4>2 DEF Numbered
    <3> QED
      BY <3>1, <3>2
  <2> QED
    BY <1>0, <1>1, <1>2, <1>12, <2>1, <2>2, NumbersGiven
<1> QED
  BY <1>0, <1>1, <1>6, <1>9, <1>11, <1>13, <1>15, <1>16, <1>17 DEF Sound

\* Either way.
LEMMA AddStep ==
  ASSUME Sound, NEW c \in CPUs, NEW m \in Msgs, NEW h, Adding(c, m), Add(c, m, h), ~selfout'
  PROVE  Sound'
<1>1. CASE /\ queue_len < max_queue /\ queue_len' = queue_len + 1 /\ Link(c, m, h)
           /\ UNCHANGED <<inflight, old, then>>
  BY <1>1, AddRoom
<1>2. CASE /\ queue_len >= max_queue /\ queue_len' = queue_len /\ Complete(c, Victim(m), "link")
           /\ new' = Set(new, c, m) /\ Victim(m) # m
  BY <1>2, AddFull
<1> QED
  BY <1>1, <1>2 DEF Add

\* ipmi_queue_msg and ipmi_queue_msg_head.
LEMMA QueueStep ==
  ASSUME Sound, NEW c \in CPUs, ipmi_queue_msg(c), ~selfout'
  PROVE  Sound'
<1>1. PICK m \in Msgs, h \in BOOLEAN : Make(m) /\ Add(c, m, h)
  BY DEF ipmi_queue_msg
<1>2. Adding(c, m)
  BY <1>1 DEF ipmi_queue_msg, At, Adding
<1> QED
  BY <1>1, <1>2, AddStep

\* bt_add_msg of a message that was made before.
LEMMA AddMsgStep ==
  ASSUME Sound, NEW c \in CPUs, bt_add_msg(c), ~selfout'
  PROVE  Sound'
<1>1. pc[c] = "add" /\ Add(c, new[c], head[c]) /\ UNCHANGED <<id, made>>
  BY DEF bt_add_msg, At
<1>2. new[c] \in Msgs
  BY <1>1 DEF Sound, Types, Locals
<1>3. Adding(c, new[c])
  BY <1>1 DEF Adding
<1> QED
  BY <1>1, <1>2, <1>3, AddStep

\* bt_add_msg after it threw out another message.
LEMMA LinkStep ==
  ASSUME Sound, NEW c \in CPUs, bt_link(c)
  PROVE  Sound'
<1>0. Types /\ Locals /\ QueuesOK /\ Places /\ Counted /\ Waits /\ Numbers
  BY DEF Sound
<1> DEFINE m == new[c]
<1>1. /\ pc[c] = "link" /\ Link(c, m, head[c]) /\ lock' = c
      /\ UNCHANGED <<inflight, queue_len, ipmi_seq, seq, send_count, sync_msg, fifo, b2h, work, old,
                     then, own, id, made, mixed, max_queue, trouble, messages>>
  BY DEF bt_link, Link, At, fields, sync, wire, ghost, frozen
<1>2. then[c] = "idle" /\ m \in Msgs
  BY <1>0, <1>1 DEF Locals, Types
<1>3. Alone(c, m) /\ id[m] > 0
  BY <1>0, <1>2 DEF Places, Alone
<1>4. id' \in [Msgs -> -1..messages] /\ id'[m] > 0 /\ \A k \in Msgs : k # m => id'[k] = id[k]
  BY <1>0, <1>1, <1>3 DEF Types
<1> HIDE DEF m
<1>5. new[c] \in {m, NoMsg}
  BY DEF m
<1>6. /\ Locals' /\ QueuesOK' /\ Places'
      /\ msgq' \in Seq(Msgs) /\ msgq_sync' \in Seq(Msgs)
      /\ Len(msgq)' + Len(msgq_sync)' = (Len(msgq) + Len(msgq_sync)) + 1
      /\ pc' \in [CPUs -> Where] /\ new' \in [CPUs -> Msgs \cup {NoMsg}]
      /\ Waiting' = Waiting \ {c} /\ Unnumbered' = Unnumbered \ {c}
      /\ \A k \in Msgs : k # m => (Numbered(k)' => Numbered(k))
      /\ pc'[c] = "send" /\ \A d \in CPUs : d # c => pc'[d] = pc[d]
  BY <1>0, <1>1, <1>2, <1>3, <1>4, <1>5, LinkMove
<1>7. Counted'
  <2>1. c \in Waiting
    BY <1>1 DEF Waiting
  <2>2. Cardinality(Waiting) \in Nat /\ Cardinality(Waiting \ {c}) = Cardinality(Waiting) - 1
    BY <2>1, Counters, OneMore
  <2>3. Len(msgq) \in Nat /\ Len(msgq_sync) \in Nat
    BY <1>0, QueuedMsgs
  <2>4. queue_len = (Len(msgq) + Len(msgq_sync)) + Cardinality(Waiting)
    BY <1>0 DEF Counted
  <2>5. queue_len = (Len(msgq)' + Len(msgq_sync)') + Cardinality(Waiting')
    BY <1>6, <2>2, <2>3, <2>4
  <2> QED
    BY <1>1, <2>5 DEF Counted
<1>8. Types'
  BY <1>0, <1>1, <1>6 DEF Types, Requests
<1>9. Waits'
  <2>1. pc'[c] \notin {"compare", "wait"}
    BY <1>6
  <2> QED
    BY <1>0, <1>1, <1>6, <2>1 DEF Waits
<1>10. Numbers'
  <2>1. Numbered(m)
    BY <1>1 DEF Numbered, m
  <2>2. \A k \in Msgs : Numbered(k)' => Numbered(k)
    BY <1>6, <2>1
  <2>3. Unnumbered' = Unnumbered
    BY <1>1, <1>6 DEF Unnumbered
  <2>4. Given' = Given /\ OnWire' = OnWire
    BY <1>1, <2>3 DEF Given, OnWire
  <2> QED
    BY <1>0, <1>1, <2>2, <2>4, NumbersKept
<1> QED
  BY <1>0, <1>1, <1>6, <1>7, <1>8, <1>9, <1>10 DEF Sound

\* c makes a message that it will queue later.
LEMMA MakeMove ==
  ASSUME Sound, NEW c \in CPUs, NEW m \in Msgs, NEW w \in {"sync", "add"}, Make(m),
         pc[c] \in {"idle", "sms"}, pc' = [pc EXCEPT ![c] = w], new' = [new EXCEPT ![c] = m],
         UNCHANGED <<msgq, msgq_sync, inflight, queue_len, old, then, own, mixed>>,
         UNCHANGED <<ipmi_seq, seq, send_count, sync_msg, fifo, b2h, work, max_queue, trouble,
                     messages>>,
         lock' \in CPUs \cup {NoCpu}
  PROVE  Sound'
<1>0. Types /\ Locals /\ QueuesOK /\ Places /\ Counted /\ Waits /\ Numbers
  BY DEF Sound
<1>1. /\ Alone(c, m) /\ new[c] # m
      /\ id' \in [Msgs -> -1..messages] /\ id'[m] > 0
      /\ \A k \in Msgs : k # m => id'[k] = id[k]
      /\ \A k \in Msgs : id[k] = -1 => id'[k] = -1
      /\ made' = made + 1 /\ made' \in 0..messages /\ made < messages
  BY <1>0, MakeFacts
<1>2. /\ pc'[c] = w /\ new'[c] = m
      /\ \A d \in CPUs : d # c => pc'[d] = pc[d] /\ new'[d] = new[d]
      /\ pc' \in [CPUs -> Where] /\ new' \in [CPUs -> Msgs \cup {NoMsg}]
  BY <1>0 DEF Types, Where, Plain
<1>3. then[c] = "idle" /\ old[c] = NoMsg /\ new[c] = NoMsg
  BY <1>0 DEF Locals
<1>4. Locals'
  <2> SUFFICES ASSUME NEW d \in CPUs
               PROVE  /\ then'[d] # "idle" <=> pc'[d] \in {"done", "compare"}
                      /\ old'[d] # NoMsg <=> pc'[d] \in {"done", "compare"}
                      /\ new'[d] # NoMsg <=> pc'[d] \in {"sync", "add", "link"} \/ then'[d] = "link"
    BY DEF Locals
  <2>1. CASE d = c
    BY <1>2, <1>3, <2>1, NoMsgFact
  <2>2. CASE d # c
    BY <1>0, <1>2, <2>2 DEF Locals
  <2> QED
    BY <2>1, <2>2
<1>5. \A d \in CPUs, k \in Msgs : Done(d, k)' <=> Done(d, k)
  BY <1>2 DEF Done
<1>6. Queued' = Queued
  BY DEF Queued
<1>7. Places'
  <2> SUFFICES ASSUME NEW k \in Msgs
               PROVE  /\ id'[k] > 0 <=> k \in Queued' \/ \E d \in CPUs : new'[d] = k \/ Done(d, k)'
                      /\ \A d, e \in CPUs :
                           /\ ~(k \in Queued' /\ new'[d] = k) /\ ~(k \in Queued' /\ Done(d, k)')
                           /\ ~(new'[d] = k /\ Done(e, k)')
                           /\ new'[d] = k /\ new'[e] = k => d = e
                           /\ Done(d, k)' /\ Done(e, k)' => d = e
    BY DEF Places
  <2>1. CASE k = m
    <3>1. k \notin Queued' /\ \A d \in CPUs : ~Done(d, k)' /\ (new'[d] = k <=> d = c)
      BY <1>1, <1>2, <1>5, <1>6, <2>1 DEF Alone
    <3> QED
      BY <1>1, <2>1, <3>1
  <2>2. CASE k # m
    <3>1. new[c] # k /\ id'[k] = id[k]
      BY <1>1, <1>3, <2>2, NoMsgFact
    <3>2. \A d \in CPUs : new'[d] = k <=> new[d] = k
      BY <1>2, <2>2, <3>1
    <3> QED
      BY <1>0, <1>5, <1>6, <3>1, <3>2 DEF Places
  <2> QED
    BY <2>1, <2>2
<1>8. Waiting' = Waiting /\ Unnumbered' = Unnumbered \cup {c} /\ c \notin Unnumbered
  BY <1>2 DEF Waiting, Unnumbered
<1>9. Counted'
  BY <1>0, <1>8 DEF Counted
<1>10. Types'
  BY <1>0, <1>1, <1>2 DEF Types, Requests
<1>11. QueuesOK'
  BY <1>0, <1>6 DEF QueuesOK
<1>12. Waits'
  <2>1. pc'[c] \notin {"compare", "wait"}
    BY <1>2
  <2>2. \A d \in CPUs : /\ own[d] # NoMsg => own[d] \in Msgs
                        /\ pc[d] = "compare" => old[d] \in Msgs
    BY <1>0 DEF Types, Locals
  <2> QED
    BY <1>0, <1>1, <1>2, <2>1, <2>2 DEF Waits
<1>13. Numbers'
  <2>1. ASSUME NEW k \in Msgs, Numbered(k)' PROVE Numbered(k) /\ k # m
    <3>1. CASE k \in Queued'
      BY <1>1, <1>6, <3>1 DEF Numbered, Alone
    <3>2. CASE k \notin Queued'
      <4>1. PICK d \in CPUs : new'[d] = k /\ pc'[d] \notin {"sync", "add"}
        BY <2>1, <3>2 DEF Numbered
      <4>2. d # c
        BY <1>2, <4>1
      <4> QED
        BY <1>1, <1>2, <4>1, <4>2 DEF Numbered, Alone
    <3> QED
      BY <3>1, <3>2
  <2>2. OnWire' = OnWire
    BY DEF OnWire
  <2>3. Given' = Given
    <3>1. /\ Cardinality(Unnumbered) \in Nat
          /\ Cardinality(Unnumbered \cup {c}) = Cardinality(Unnumbered) + 1
      BY <1>8, Counters, OneMore
    <3>2. made \in Nat
      BY <1>0, IpmiBtAssumption DEF Types
    <3>3. (made + 1) - (Cardinality(Unnumbered) + 1) = made - Cardinality(Unnumbered)
      BY <3>1, <3>2
    <3> QED
      BY <1>1, <1>8, <3>1, <3>3 DEF Given
  <2> QED
    BY <1>0, <1>1, <2>1, <2>2, <2>3, NumbersKept
<1> QED
  BY <1>0, <1>4, <1>7, <1>9, <1>10, <1>11, <1>12, <1>13 DEF Sound

\* ipmi_queue_msg_sync, making its message.
LEMMA MakeSyncStep ==
  ASSUME Sound, NEW c \in CPUs, make_sync(c)
  PROVE  Sound'
<1>1. PICK m \in Msgs : Make(m) /\ new' = [new EXCEPT ![c] = m]
  BY DEF make_sync, Set
<1>2. /\ pc[c] = "idle" /\ pc' = [pc EXCEPT ![c] = "sync"]
      /\ UNCHANGED <<msgq, msgq_sync, inflight, queue_len, lock, old, then, own, mixed>>
      /\ UNCHANGED <<ipmi_seq, seq, send_count, sync_msg, fifo, b2h, work, max_queue, trouble,
                     messages>>
  BY DEF make_sync, At, Goto, queues, fields, sync, wire, frozen
<1>3. lock' \in CPUs \cup {NoCpu}
  BY <1>2 DEF Sound, Types
<1> QED
  BY <1>1, <1>2, <1>3, MakeMove

\* bt_poll on SMS attention.
LEMMA SmsStep ==
  ASSUME Sound, NEW c \in CPUs, bt_sms(c)
  PROVE  Sound'
<1>1. /\ pc[c] = "sms" /\ lock' = NoCpu
      /\ UNCHANGED <<msgq, msgq_sync, inflight, queue_len, old, then, own, mixed>>
      /\ UNCHANGED <<ipmi_seq, seq, send_count, sync_msg, fifo, b2h, work, max_queue, trouble,
                     messages>>
  BY DEF bt_sms, At, queues, fields, sync, frozen
<1>2. CASE \E m \in Msgs : Make(m) /\ new' = Set(new, c, m) /\ Goto(c, "add")
  <2>1. PICK m \in Msgs : Make(m) /\ new' = [new EXCEPT ![c] = m]
    BY <1>2 DEF Set
  <2>2. pc' = [pc EXCEPT ![c] = "add"]
    BY <1>2 DEF Goto
  <2> QED
    BY <1>1, <2>1, <2>2, MakeMove
<1>3. CASE Goto(c, "send") /\ UNCHANGED <<id, made, new>>
  <2>1. pc' = [pc EXCEPT ![c] = "send"] /\ "send" \in Plain \ {"wait"} /\ pc[c] \in Plain
    BY <1>1, <1>3 DEF Goto, Plain
  <2>2. /\ send_count' \in [Msgs -> 0..Counts - 1] /\ work' \subseteq Requests
        /\ lock' \in CPUs \cup {NoCpu} /\ fifo' \in Requests \cup {Nothing}
        /\ b2h' \in Requests \cup {Nothing}
    BY <1>1 DEF Sound, Types
  <2>3. OnWire' = OnWire
    BY <1>1 DEF OnWire
  <2> QED
    BY <1>1, <1>3, <2>1, <2>2, <2>3, PollMove
<1> QED
  BY <1>2, <1>3 DEF bt_sms

-----------------------------------------------------------------------------
(* Completing a message, outside of the lock. *)

\* The message is freed.
LEMMA CallbackStep ==
  ASSUME Sound, NEW c \in CPUs, callback(c)
  PROVE  Sound'
<1>0. Types /\ Locals /\ QueuesOK /\ Places /\ Counted /\ Waits /\ Numbers
  BY DEF Sound
<1> DEFINE m == old[c]
<1>1. /\ pc[c] = "done" /\ pc' = [pc EXCEPT ![c] = "compare"]
      /\ UNCHANGED <<msgq, msgq_sync, inflight, queue_len, lock, ipmi_seq, sync_msg, fifo, b2h,
                     work, new, old, then, own, made, mixed, max_queue, trouble, messages>>
  BY DEF callback, At, Goto, queues, sync, wire, locals, frozen
<1>2. /\ id' = [id EXCEPT ![m] = IF "reuse" \in trouble THEN 0 ELSE -1]
      /\ seq' = [seq EXCEPT ![m] = 0] /\ send_count' = [send_count EXCEPT ![m] = 0]
  BY DEF callback, Set
<1>3. m \in Msgs
  BY <1>0, <1>1 DEF Locals, Types
<1>4. Done(c, m)
  BY <1>1 DEF Done
<1> HIDE DEF m
<1>5. pc'[c] = "compare" /\ \A d \in CPUs : d # c => pc'[d] = pc[d]
  BY <1>0, <1>1 DEF Types
<1>6. /\ id'[m] \in {0, -1} /\ ("reuse" \notin trouble => id'[m] = -1)
      /\ \A k \in Msgs : k # m => id'[k] = id[k] /\ seq'[k] = seq[k]
  BY <1>0, <1>2, <1>3 DEF Types
<1>7. m \notin Queued /\ \A d \in CPUs : new[d] # m /\ (Done(d, m) <=> d = c)
  BY <1>0, <1>3, <1>4 DEF Places
<1>8. \A d \in CPUs, k \in Msgs : Done(d, k)' <=> Done(d, k) /\ d # c
  BY <1>1, <1>5 DEF Done
<1>9. \A k \in Msgs : Done(c, k) => k = m
  BY DEF Done, m
<1>10. Queued' = Queued
  BY <1>1 DEF Queued
<1>11. Places'
  <2> SUFFICES ASSUME NEW k \in Msgs
               PROVE  /\ id'[k] > 0 <=> k \in Queued' \/ \E d \in CPUs : new'[d] = k \/ Done(d, k)'
                      /\ \A d, e \in CPUs :
                           /\ ~(k \in Queued' /\ new'[d] = k) /\ ~(k \in Queued' /\ Done(d, k)')
                           /\ ~(new'[d] = k /\ Done(e, k)')
                           /\ new'[d] = k /\ new'[e] = k => d = e
                           /\ Done(d, k)' /\ Done(e, k)' => d = e
    BY DEF Places
  <2>1. CASE k = m
    <3>1. k \notin Queued' /\ \A d \in CPUs : ~Done(d, k)' /\ new'[d] # k
      BY <1>1, <1>7, <1>8, <1>10, <2>1
    <3>2. ~(id'[k] > 0)
      BY <1>6, <2>1
    <3> QED
      BY <3>1, <3>2
  <2>2. CASE k # m
    <3>1. \A d \in CPUs : Done(d, k)' <=> Done(d, k)
      BY <1>8, <1>9, <2>2
    <3>2. id'[k] = id[k]
      BY <1>6, <2>2
    <3> QED
      BY <1>0, <1>1, <1>10, <3>1, <3>2 DEF Places
  <2> QED
    BY <2>1, <2>2
<1>12. Locals'
  BY <1>0, <1>1, <1>5 DEF Locals
<1>13. Waiting' = Waiting /\ Unnumbered' = Unnumbered
  BY <1>1, <1>5 DEF Waiting, Unnumbered
<1>14. Counted'
  BY <1>0, <1>1, <1>13 DEF Counted
<1>15. Types'
  <2>1. pc' \in [CPUs -> Where]
    BY <1>0, <1>1 DEF Types, Where
  <2>2. -1 \in -1..messages /\ 0 \in -1..messages /\ 0 \in 0..Seqs - 1
        /\ 0 \in 0..Counts - 1
    BY <1>0, IpmiBtAssumption, Modulo DEF Types
  <2>3. id' \in [Msgs -> -1..messages]
    BY <1>0, <1>2, <2>2 DEF Types
  <2>4. seq' \in [Msgs -> 0..Seqs - 1] /\ send_count' \in [Msgs -> 0..Counts - 1]
    BY <1>0, <1>2, <2>2 DEF Types
  <2> QED
    BY <1>0, <1>1, <2>1, <2>3, <2>4 DEF Types, Requests
<1>16. QueuesOK'
  BY <1>0, <1>1, <1>10 DEF QueuesOK
<1>17. Waits'
  <2>1. "reuse" \notin trouble => \A k \in Msgs : id[k] = -1 => id'[k] = -1
    BY <1>6
  <2>2. \A d \in CPUs : /\ own[d] # NoMsg => own[d] \in Msgs
                        /\ pc[d] = "compare" => old[d] \in Msgs
    BY <1>0 DEF Types, Locals
  <2>3. old'[c] = m
    BY <1>1 DEF m
  <2>4. ASSUME "reuse" \notin trouble', NEW d \in CPUs
        PROVE  /\ pc'[d] = "compare" => id'[old'[d]] = -1
               /\ own'[d] # NoMsg => sync_msg' = own'[d] \/ id'[own'[d]] = -1
               /\ pc'[d] = "wait" => own'[d] # NoMsg
    <3>0. "reuse" \notin trouble
      BY <1>1, <2>4
    <3>1. pc'[d] = "compare" => id'[old'[d]] = -1
      BY <1>0, <1>1, <1>5, <1>6, <2>1, <2>2, <2>3, <3>0 DEF Waits
    <3>2. own'[d] # NoMsg => sync_msg' = own'[d] \/ id'[own'[d]] = -1
      BY <1>0, <1>1, <2>1, <2>2, <3>0 DEF Waits
    <3>3. pc'[d] = "wait" => own'[d] # NoMsg
      BY <1>0, <1>1, <1>5, <3>0 DEF Waits
    <3> QED
      BY <3>1, <3>2, <3>3
  <2> QED
    BY <2>4 DEF Waits
<1>18. Numbers'
  <2>1. ASSUME NEW k \in Msgs, Numbered(k)' PROVE Numbered(k) /\ k # m
    <3>1. CASE k \in Queued'
      BY <1>7, <1>10, <3>1 DEF Numbered
    <3>2. CASE k \notin Queued'
      <4>1. PICK d \in CPUs : new'[d] = k /\ pc'[d] \notin {"sync", "add"}
        BY <2>1, <3>2 DEF Numbered
      <4>2. pc[d] \notin {"sync", "add"} /\ new[d] = k
        BY <1>1, <1>5, <4>1
      <4> QED
        BY <1>7, <4>2 DEF Numbered
    <3> QED
      BY <3>1, <3>2
  <2>2. OnWire' = OnWire /\ Given' = Given
    BY <1>1, <1>13 DEF OnWire, Given
  <2> QED
    BY <1>0, <1>1, <1>6, <2>1, <2>2, NumbersKept
<1> QED
  BY <1>0, <1>1, <1>11, <1>12, <1>14, <1>15, <1>16, <1>17, <1>18 DEF Sound

\* sync_msg is compared with the message that was freed.
LEMMA CmdDoneStep ==
  ASSUME Sound, NEW c \in CPUs, cmd_done(c)
  PROVE  Sound'
<1>0. Types /\ Locals /\ QueuesOK /\ Places /\ Counted /\ Waits /\ Numbers
  BY DEF Sound
<1> DEFINE w == then[c]
<1>1. /\ pc[c] = "compare" /\ pc' = [pc EXCEPT ![c] = w]
      /\ old' = [old EXCEPT ![c] = NoMsg] /\ then' = [then EXCEPT ![c] = "idle"]
      /\ UNCHANGED <<msgq, msgq_sync, inflight, queue_len, lock, ipmi_seq, seq, send_count, fifo,
                     b2h, work, new, own, id, made, mixed, max_queue, trouble, messages>>
  BY DEF cmd_done, At, Goto, Set, queues, fields, wire, ghost, frozen
<1>2. sync_msg' = IF sync_msg = old[c] THEN NoMsg ELSE sync_msg
  BY DEF cmd_done
<1>3. w \in {"link", "expire", "reset"}
  BY <1>0, <1>1 DEF Locals, Types
<1>4. /\ pc'[c] = then[c] /\ old'[c] = NoMsg /\ then'[c] = "idle"
      /\ \A d \in CPUs : d # c => pc'[d] = pc[d] /\ old'[d] = old[d] /\ then'[d] = then[d]
      /\ then' \in [CPUs -> {"idle", "link", "expire", "reset"}]
      /\ old' \in [CPUs -> Msgs \cup {NoMsg}]
  BY <1>0, <1>1 DEF Types
<1>5. pc' \in [CPUs -> Where]
  <2>1. w \in Where
    BY <1>3 DEF Where, Plain
  <2> HIDE DEF w
  <2> QED
    BY <1>0, <1>1, <2>1 DEF Types
<1>6. Locals'
  <2> SUFFICES ASSUME NEW d \in CPUs
               PROVE  /\ then'[d] # "idle" <=> pc'[d] \in {"done", "compare"}
                      /\ old'[d] # NoMsg <=> pc'[d] \in {"done", "compare"}
                      /\ new'[d] # NoMsg <=> pc'[d] \in {"sync", "add", "link"} \/ then'[d] = "link"
    BY DEF Locals
  <2>1. CASE d = c
    <3>1. new[c] # NoMsg <=> then[c] = "link"
      BY <1>0, <1>1 DEF Locals
    <3> QED
      BY <1>1, <1>3, <1>4, <2>1, <3>1
  <2>2. CASE d # c
    BY <1>0, <1>1, <1>4, <2>2 DEF Locals
  <2> QED
    BY <2>1, <2>2
<1>7. \A d \in CPUs, k \in Msgs : Done(d, k)' <=> Done(d, k)
  BY <1>1, <1>3, <1>4 DEF Done
<1>8. Queued' = Queued
  BY <1>1 DEF Queued
<1>9. Places'
  BY <1>0, <1>1, <1>7, <1>8, PlacesKept
<1>10. Waiting' = Waiting
  <2>1. \A d \in CPUs : pc'[d] = "link" \/ then'[d] = "link" <=> pc[d] = "link" \/ then[d] = "link"
    BY <1>1, <1>3, <1>4
  <2> QED
    BY <2>1 DEF Waiting
<1>11. Unnumbered' = Unnumbered
  <2>1. \A d \in CPUs : pc'[d] \in {"sync", "add"} <=> pc[d] \in {"sync", "add"}
    BY <1>1, <1>3, <1>4
  <2> QED
    BY <2>1 DEF Unnumbered
<1>12. Counted'
  BY <1>0, <1>1, <1>10 DEF Counted
<1>13. Types'
  BY <1>0, <1>1, <1>4, <1>5 DEF Types, Requests
<1>14. QueuesOK'
  BY <1>0, <1>1, <1>8 DEF QueuesOK
<1>15. Waits'
  <2> SUFFICES ASSUME "reuse" \notin trouble', NEW d \in CPUs
               PROVE  /\ pc'[d] = "compare" => id'[old'[d]] = -1
                      /\ own'[d] # NoMsg => sync_msg' = own'[d] \/ id'[own'[d]] = -1
                      /\ pc'[d] = "wait" => own'[d] # NoMsg
    BY DEF Waits
  <2>1. "reuse" \notin trouble
    BY <1>1
  <2>2. /\ pc[d] = "compare" => id[old[d]] = -1
        /\ own[d] # NoMsg => sync_msg = own[d] \/ id[own[d]] = -1
        /\ pc[d] = "wait" => own[d] # NoMsg
        /\ id[old[c]] = -1
    BY <1>0, <1>1, <2>1 DEF Waits
  <2>3. pc'[d] = "compare" => id'[old'[d]] = -1
    BY <1>1, <1>3, <1>4, <2>2
  <2>4. own'[d] # NoMsg => sync_msg' = own'[d] \/ id'[own'[d]] = -1
    BY <1>1, <1>2, <2>2
  <2>5. pc'[d] = "wait" => own'[d] # NoMsg
    BY <1>1, <1>3, <1>4, <2>2
  <2> QED
    BY <2>3, <2>4, <2>5
<1>16. Numbers'
  <2>1. \A k \in Msgs : Numbered(k)' <=> Numbered(k)
    <3>1. \A d \in CPUs : pc'[d] \in {"sync", "add"} <=> pc[d] \in {"sync", "add"}
      BY <1>1, <1>3, <1>4
    <3> QED
      BY <1>1, <1>8, <3>1 DEF Numbered
  <2>2. OnWire' = OnWire /\ Given' = Given
    BY <1>1, <1>11 DEF OnWire, Given
  <2> QED
    BY <1>0, <1>1, <2>1, <2>2, NumbersKept
<1> QED
  BY <1>0, <1>1, <1>6, <1>9, <1>12, <1>13, <1>14, <1>15, <1>16 DEF Sound

\* ipmi_queue_msg_sync, once the last synchronous message is done.
LEMMA SyncStep ==
  ASSUME Sound, NEW c \in CPUs, ipmi_queue_msg_sync(c)
  PROVE  Sound'
<1>0. Types /\ Locals /\ QueuesOK /\ Places /\ Counted /\ Waits /\ Numbers
  BY DEF Sound
<1>1. /\ pc[c] = "sync" /\ pc' = [pc EXCEPT ![c] = "add"] /\ sync_msg = NoMsg
      /\ sync_msg' = new[c] /\ own' = [own EXCEPT ![c] = new[c]]
      /\ UNCHANGED <<msgq, msgq_sync, inflight, queue_len, lock, ipmi_seq, seq, send_count, fifo,
                     b2h, work, new, old, then, id, made, mixed, max_queue, trouble, messages>>
  BY DEF ipmi_queue_msg_sync, At, Goto, Set, queues, wire, ghost, frozen
<1>2. /\ pc'[c] = "add" /\ own'[c] = new[c]
      /\ \A d \in CPUs : d # c => pc'[d] = pc[d] /\ own'[d] = own[d]
      /\ own' \in [CPUs -> Msgs \cup {NoMsg}]
  BY <1>0, <1>1 DEF Types
<1>3. pc' \in [CPUs -> Where]
  BY <1>0, <1>1 DEF Types, Where
<1>4. Locals'
  BY <1>0, <1>1, <1>2 DEF Locals
<1>5. \A d \in CPUs, k \in Msgs : Done(d, k)' <=> Done(d, k)
  BY <1>1, <1>2 DEF Done
<1>6. Queued' = Queued
  BY <1>1 DEF Queued
<1>7. Places'
  BY <1>0, <1>1, <1>5, <1>6, PlacesKept
<1>8. Waiting' = Waiting /\ Unnumbered' = Unnumbered
  BY <1>1, <1>2 DEF Waiting, Unnumbered
<1>9. Counted'
  BY <1>0, <1>1, <1>8 DEF Counted
<1>10. Types'
  BY <1>0, <1>1, <1>2, <1>3 DEF Types, Requests
<1>11. QueuesOK'
  BY <1>0, <1>1, <1>6 DEF QueuesOK
<1>12. Waits'
  BY <1>0, <1>1, <1>2 DEF Waits
<1>13. Numbers'
  <2>1. \A k \in Msgs : Numbered(k)' => Numbered(k)
    BY <1>1, <1>2, <1>6 DEF Numbered
  <2>2. OnWire' = OnWire /\ Given' = Given
    BY <1>1, <1>8 DEF OnWire, Given
  <2> QED
    BY <1>0, <1>1, <2>1, <2>2, NumbersKept
<1> QED
  BY <1>0, <1>1, <1>4, <1>7, <1>9, <1>10, <1>11, <1>12, <1>13 DEF Sound

-----------------------------------------------------------------------------
(* The BMC, the time and the theorems. *)

\* What the BMC does: it moves requests and answers about, or loses them.
LEMMA BmcStep ==
  ASSUME Sound, bmc_take \/ bmc_respond \/ bmc_attention \/ tick \/ UNCHANGED vars
  PROVE  Sound'
<1>0. Types /\ Locals /\ QueuesOK /\ Places /\ Counted /\ Waits /\ Numbers
  BY DEF Sound
<1>1. /\ UNCHANGED <<msgq, msgq_sync, inflight, queue_len, lock, pc, new, old, then, own>>
      /\ UNCHANGED <<id, made, mixed, ipmi_seq, seq, send_count, sync_msg, fifo, max_queue, trouble,
                     messages>>
  BY DEF bmc_take, bmc_respond, bmc_attention, tick, vars, moving, queues, fields, sync, wire,
         locals, ghost, frozen
<1>2. /\ \A r \in OnWire' : r \in OnWire
      /\ work' \subseteq Requests /\ b2h' \in Requests \cup {Nothing}
  <2>1. /\ work \subseteq Requests /\ b2h \in Requests \cup {Nothing}
        /\ fifo \in Requests \cup {Nothing}
    BY <1>0 DEF Types
  <2>2. CASE bmc_take
    BY <1>1, <2>1, <2>2 DEF bmc_take, OnWire
  <2>3. CASE bmc_respond
    <3>1. PICK r \in work : b2h' = r /\ work' = work \ {r}
      BY <2>3 DEF bmc_respond
    <3> QED
      BY <1>1, <2>1, <3>1 DEF OnWire
  <2>4. CASE bmc_attention \/ tick \/ UNCHANGED vars
    <3>1. UNCHANGED <<work, b2h>>
      BY <2>4 DEF bmc_attention, tick, vars, moving, wire
    <3> QED
      BY <1>1, <2>1, <3>1 DEF OnWire
  <2> QED
    BY <2>2, <2>3, <2>4
<1>3. Queued' = Queued /\ Waiting' = Waiting /\ Unnumbered' = Unnumbered
  BY <1>1 DEF Queued, Waiting, Unnumbered
<1>4. \A c \in CPUs, m \in Msgs : Done(c, m)' <=> Done(c, m)
  BY <1>1 DEF Done
<1>5. Places'
  BY <1>0, <1>1, <1>3, <1>4, PlacesKept
<1>6. Types'
  BY <1>0, <1>1, <1>2 DEF Types, Requests
<1>7. Locals' /\ QueuesOK' /\ Counted' /\ Waits'
  BY <1>0, <1>1, <1>3 DEF Locals, QueuesOK, Counted, Waits
<1>8. Numbers'
  <2>1. \A k \in Msgs : Numbered(k)' <=> Numbered(k)
    BY <1>1, <1>3 DEF Numbered
  <2>2. Given' = Given
    BY <1>1, <1>3 DEF Given
  <2> QED
    BY <1>0, <1>1, <1>2, <2>1, <2>2, NumbersKept
<1> QED
  BY <1>0, <1>1, <1>5, <1>6, <1>7, <1>8 DEF Sound

\* At the start there is no message.
LEMMA BtInit == Init => BtInv
<1> SUFFICES ASSUME Init PROVE BtInv
  OBVIOUS
<1>1. PICK s \in Settings : /\ max_queue = s.max_queue /\ messages = s.messages
                            /\ trouble = s.trouble
  BY DEF Init
<1>2. max_queue \in Nat /\ messages \in Nat \ {0} /\ Seqs \in Nat \ {0}
  BY <1>1, IpmiBtAssumption
<1>3. 0 \in 0..Seqs - 1 /\ 0 \in -1..messages /\ 0 \in 0..Counts - 1 /\ 0 \in 0..messages
      /\ 0 \in 0..max_queue
  BY <1>2, Modulo
<1>4. Types
  <2>1. "idle" \in Where
    BY DEF Where, Plain
  <2> QED
    BY <1>2, <1>3, <2>1 DEF Init, Types
<1>5. Queued = {} /\ Distinct(msgq) /\ Distinct(msgq_sync)
      /\ ToSet(msgq) \cap ToSet(msgq_sync) = {}
  <2>1. msgq = <<>> /\ msgq_sync = <<>>
    BY DEF Init
  <2>2. ToSet(<<>>) = {} /\ Distinct(<<>>)
    BY DEF ToSet, Distinct
  <2> QED
    BY <2>1, <2>2 DEF Queued
<1>6. QueuesOK
  BY <1>5 DEF QueuesOK, Init
<1>7. Locals
  BY DEF Init, Locals
<1>8. \A c \in CPUs : pc[c] = "idle" /\ new[c] = NoMsg /\ then[c] = "idle" /\ own[c] = NoMsg
  BY DEF Init
<1>9. Places
  <2>1. \A m \in Msgs : ~(id[m] > 0)
    BY DEF Init
  <2>2. \A c \in CPUs, m \in Msgs : ~Done(c, m) /\ new[c] # m
    BY <1>8, NoMsgFact DEF Done
  <2> QED
    BY <1>5, <2>1, <2>2 DEF Places
<1>10. Waiting = {} /\ Unnumbered = {}
  BY <1>8 DEF Waiting, Unnumbered
<1>11. Counted
  <2>1. Len(msgq) = 0 /\ Len(msgq_sync) = 0 /\ queue_len = 0
    BY DEF Init
  <2> QED
    BY <1>10, <2>1, FS_EmptySet DEF Counted
<1>12. Waits
  BY <1>8 DEF Waits
<1>13. Given = 0
  <2>1. made = 0 /\ Cardinality({}) = 0
    BY FS_EmptySet DEF Init
  <2> QED
    BY <1>10, <2>1 DEF Given
<1>14. Numbers
  <2>1. \A m \in Msgs : ~Numbered(m)
    BY <1>5, <1>8, NoMsgFact DEF Numbered
  <2>2. OnWire = {}
    BY DEF Init, OnWire
  <2>3. ipmi_seq = 0 /\ 0 % Seqs = 0
    BY <1>2 DEF Init
  <2> QED
    BY <1>13, <2>1, <2>2, <2>3 DEF Init, Numbers, Numbering
<1>15. Sound
  BY <1>4, <1>6, <1>7, <1>9, <1>11, <1>12, <1>14 DEF Sound
<1> QED
  BY <1>2, <1>15 DEF BtInv, Init

\* Only adding a message throws one out to make room for itself.
LEMMA OnlyAdding ==
  /\ \A c \in CPUs : Work(c) /\ ~bt_add_msg(c) => selfout' = selfout
  /\ \A c \in CPUs : make_sync(c) => selfout' = selfout
  /\ bmc_take \/ bmc_respond \/ bmc_attention \/ tick \/ UNCHANGED vars => selfout' = selfout
<1>1. ASSUME NEW c \in CPUs, Work(c), ~bt_add_msg(c) PROVE selfout' = selfout
  BY <1>1 DEF Work, callback, cmd_done, bt_send_and_unlock, bt_link, ipmi_queue_msg_sync, sync_wait,
              bt_get_resp, bt_expire_old_msg, bt_reset, bt_sms, ghost
<1>2. ASSUME NEW c \in CPUs, make_sync(c) PROVE selfout' = selfout
  BY <1>2 DEF make_sync
<1>3. ASSUME bmc_take \/ bmc_respond \/ bmc_attention \/ tick \/ UNCHANGED vars
      PROVE  selfout' = selfout
  BY <1>3 DEF bmc_take, bmc_respond, bmc_attention, tick, vars, moving, ghost
<1> QED
  BY <1>1, <1>2, <1>3

\* Once thrown out, a message has been; the length of the queue is what it is.
LEMMA StaysOut ==
  ASSUME [Next]_vars
  PROVE  max_queue' = max_queue /\ (selfout => selfout')
<1>1. max_queue' = max_queue
  <2>1. ASSUME NEW c \in CPUs, Work(c) PROVE max_queue' = max_queue
    BY <2>1 DEF Work, callback, cmd_done, bt_send_and_unlock, bt_add_msg, Add, bt_link,
                ipmi_queue_msg_sync, sync_wait, bt_get_resp, bt_expire_old_msg, bt_reset, bt_sms,
                frozen
  <2>2. ASSUME NEW c \in CPUs, ipmi_queue_msg(c) \/ make_sync(c) PROVE max_queue' = max_queue
    BY <2>2 DEF ipmi_queue_msg, make_sync, Add, frozen
  <2>3. CASE bmc_take \/ bmc_respond \/ bmc_attention \/ tick \/ UNCHANGED vars
    BY <2>3 DEF bmc_take, bmc_respond, bmc_attention, tick, vars, moving, frozen
  <2> QED
    BY <2>1, <2>2, <2>3 DEF Next
<1>2. ASSUME NEW c \in CPUs, NEW m, NEW h, Add(c, m, h), selfout PROVE selfout'
  <2>1. selfout' = selfout \/ selfout' = (selfout \/ Victim(m) = m)
    BY <1>2 DEF Add
  <2>2. CASE selfout' = selfout
    BY <1>2, <2>2
  <2>3. CASE selfout' = (selfout \/ Victim(m) = m)
    BY <1>2, <2>3
  <2> QED
    BY <2>1, <2>2, <2>3
<1>3. ASSUME NEW c \in CPUs, selfout, bt_add_msg(c) \/ ipmi_queue_msg(c) PROVE selfout'
  BY <1>2, <1>3 DEF bt_add_msg, ipmi_queue_msg
<1>4. CASE \E c \in CPUs : bt_add_msg(c) \/ ipmi_queue_msg(c)
  BY <1>1, <1>3, <1>4
<1>5. CASE ~\E c \in CPUs : bt_add_msg(c) \/ ipmi_queue_msg(c)
  <2>1. selfout' = selfout
    BY <1>5, OnlyAdding DEF Next
  <2> QED
    BY <1>1, <2>1
<1> QED
  BY <1>4, <1>5

\* A message is thrown out to make room for itself only if all places of the
\* queue are with CPUs that have yet to link.
LEMMA ThrownOut ==
  ASSUME Sound, ~selfout, [Next]_vars, selfout'
  PROVE  Cardinality(CPUs) > max_queue
<1>0. Types /\ Counted
  BY DEF Sound
<1>1. ASSUME NEW c \in CPUs, NEW m \in Msgs, NEW h, Adding(c, m), Add(c, m, h)
      PROVE  Cardinality(CPUs) > max_queue
  <2>1. queue_len >= max_queue /\ Victim(m) = m
    BY <1>1 DEF Add
  <2>2. Alone(c, m) /\ pc[c] \in {"add", "idle"} /\ then[c] = "idle"
    BY <1>1, AddingFacts
  <2>3. c \notin Waiting /\ m \notin Queued
    BY <2>2 DEF Waiting, Alone
  <2> QED
    BY <1>0, <2>1, <2>3, NoRoom
<1>2. ASSUME NEW c \in CPUs, bt_add_msg(c) PROVE Cardinality(CPUs) > max_queue
  <2>1. pc[c] = "add" /\ Add(c, new[c], head[c]) /\ UNCHANGED <<id, made>>
    BY <1>2 DEF bt_add_msg, At
  <2>2. new[c] \in Msgs
    BY <2>1 DEF Sound, Types, Locals
  <2>3. Adding(c, new[c])
    BY <2>1 DEF Adding
  <2> QED
    BY <1>1, <2>1, <2>2, <2>3
<1>3. ASSUME NEW c \in CPUs, ipmi_queue_msg(c) PROVE Cardinality(CPUs) > max_queue
  <2>1. PICK m \in Msgs, h \in BOOLEAN : Make(m) /\ Add(c, m, h)
    BY <1>3 DEF ipmi_queue_msg
  <2>2. Adding(c, m)
    BY <1>3, <2>1 DEF ipmi_queue_msg, At, Adding
  <2> QED
    BY <1>1, <2>1, <2>2
<1>4. \E c \in CPUs : bt_add_msg(c) \/ ipmi_queue_msg(c)
  BY OnlyAdding DEF Next
<1> QED
  BY <1>2, <1>3, <1>4

\* Every other step keeps all that holds.
LEMMA SoundStep ==
  ASSUME Sound, [Next]_vars, ~selfout'
  PROVE  Sound'
<1>1. ASSUME NEW c \in CPUs, Work(c) PROVE Sound'
  BY <1>1, CallbackStep, CmdDoneStep, SendStep, AddMsgStep, LinkStep, SyncStep, SyncWaitStep,
     RespStep, ExpireStep, ResetStep, SmsStep DEF Work
<1>2. ASSUME NEW c \in CPUs, ipmi_queue_msg(c) \/ make_sync(c) PROVE Sound'
  BY <1>2, QueueStep, MakeSyncStep
<1> QED
  BY <1>1, <1>2, BmcStep DEF Next

\* Every step keeps the invariant.
LEMMA BtStep == BtInv /\ [Next]_vars => BtInv'
<1> SUFFICES ASSUME BtInv, [Next]_vars PROVE BtInv'
  OBVIOUS
<1>1. max_queue' = max_queue /\ (selfout => selfout')
  BY StaysOut
<1>2. selfout' => Cardinality(CPUs) > max_queue'
  BY <1>1, ThrownOut DEF BtInv
<1>3. selfout' \/ Sound'
  BY <1>1, SoundStep DEF BtInv
<1> QED
  BY <1>1, <1>2, <1>3 DEF BtInv

\* The inductive invariant holds always: every message is in one place, and
\* sequence numbers identify messages, as long as none makes room for itself;
\* for that there must be more CPUs than places in the queue.
THEOREM BtInvariant == Spec => []BtInv
<1> QED
  BY BtInit, BtStep, PTL DEF Spec

\* A sequence that has no element twice, behind another one without any of its
\* elements, is injective.
LEMMA Injective ==
  ASSUME NEW T, NEW x \in Seq(T), NEW y \in Seq(T), Distinct(x), Distinct(y),
         ToSet(x) \cap ToSet(y) = {}
  PROVE  IsInjective(x \o y)
<1> DEFINE z == x \o y
<1>1. /\ z \in Seq(T) /\ Len(z) = Len(x) + Len(y) /\ Len(x) \in Nat /\ Len(y) \in Nat
      /\ \A i \in 1..Len(x) + Len(y) : z[i] = IF i <= Len(x) THEN x[i] ELSE y[i - Len(x)]
  BY ConcatFacts
<1>2. DOMAIN z = 1..Len(z)
  BY <1>1
<1> HIDE DEF z
<1>3. \A i \in 1..Len(z) : \/ i \in 1..Len(x) /\ z[i] = x[i]
                           \/ i - Len(x) \in 1..Len(y) /\ z[i] = y[i - Len(x)]
                              /\ i = Len(x) + (i - Len(x))
  BY <1>1
<1>4. \A a \in 1..Len(x), b \in 1..Len(y) : x[a] # y[b]
  <2>1. \A a \in 1..Len(x) : x[a] \in ToSet(x)
    BY ToSetSeq
  <2>2. \A b \in 1..Len(y) : y[b] \in ToSet(y)
    BY ToSetSeq
  <2> QED
    BY <2>1, <2>2
<1>5. ASSUME NEW i \in 1..Len(z), NEW j \in 1..Len(z), z[i] = z[j] PROVE i = j
  <2>1. CASE i \in 1..Len(x) /\ z[i] = x[i]
    <3>1. j \in 1..Len(x) /\ z[j] = x[j]
      BY <1>3, <1>4, <1>5, <2>1
    <3> QED
      BY <1>5, <2>1, <3>1 DEF Distinct
  <2>2. CASE i - Len(x) \in 1..Len(y) /\ z[i] = y[i - Len(x)] /\ i = Len(x) + (i - Len(x))
    <3>1. j - Len(x) \in 1..Len(y) /\ z[j] = y[j - Len(x)] /\ j = Len(x) + (j - Len(x))
      BY <1>3, <1>4, <1>5, <2>2
    <3>2. i - Len(x) = j - Len(x)
      BY <1>5, <2>2, <3>1 DEF Distinct
    <3> QED
      BY <2>2, <3>1, <3>2
  <2> QED
    BY <1>3, <2>1, <2>2
<1> QED
  BY <1>2, <1>5 DEF IsInjective, z

\* The invariant gives the count of the places.
LEMMA OnePlaceHolds == BtInv => OnePlace
<1> SUFFICES ASSUME BtInv, Sound PROVE OnePlace
  BY DEF BtInv, OnePlace
<1>0. Types /\ QueuesOK /\ Places /\ Counted
  BY DEF Sound
<1>1. TypeOK
  BY <1>0 DEF Types, TypeOK, Requests
<1>2. IsInjective(msgq \o msgq_sync) /\ (inflight # NoMsg => inflight \in Queued)
  BY <1>0, Injective DEF Types, QueuesOK
<1>3. queue_len = Len(msgq) + Len(msgq_sync)
                    + Cardinality({c \in CPUs : pc[c] = "link" \/ then[c] = "link"})
  BY <1>0 DEF Counted, Waiting
<1>4. ASSUME NEW m \in Msgs
      PROVE  (IF m \in Queued THEN 1 ELSE 0)
               + Cardinality({c \in CPUs : new[c] = m})
               + Cardinality({c \in CPUs : pc[c] = "done" /\ old[c] = m})
             = (IF id[m] > 0 THEN 1 ELSE 0)
  <2> DEFINE N == {c \in CPUs : new[c] = m}
             D == {c \in CPUs : Done(c, m)}
  <2>1. D = {c \in CPUs : pc[c] = "done" /\ old[c] = m}
    BY DEF Done
  <2>2. /\ \A c, d \in N : c = d
        /\ \A c, d \in D : c = d
        /\ m \in Queued => N = {} /\ D = {}
        /\ N # {} => D = {}
        /\ id[m] > 0 <=> m \in Queued \/ N # {} \/ D # {}
    BY <1>0 DEF Places
  <2> HIDE DEF N, D
  <2>3. ASSUME NEW S, \A c, d \in S : c = d
        PROVE  Cardinality(S) = IF S = {} THEN 0 ELSE 1
    <3>1. CASE S = {}
      BY <3>1, FS_EmptySet
    <3>2. CASE S # {}
      <4>1. PICK x : S = {x}
        BY <2>3, <3>2
      <4> QED
        BY <3>2, <4>1, FS_Singleton
    <3> QED
      BY <3>1, <3>2
  <2>4. /\ Cardinality(N) = IF N = {} THEN 0 ELSE 1
        /\ Cardinality(D) = IF D = {} THEN 0 ELSE 1
    BY <2>2, <2>3
  <2>5. (IF m \in Queued THEN 1 ELSE 0) + Cardinality(N) + Cardinality(D)
        = (IF id[m] > 0 THEN 1 ELSE 0)
    BY <2>2, <2>4
  <2> QED
    BY <2>1, <2>5 DEF N
<1> QED
  BY <1>1, <1>2, <1>3, <1>4 DEF OnePlace, BtInv

\* Every message is in exactly one place, though bt.lock is dropped in the
\* middle of bt_add_msg, bt_get_resp and bt_expire_old_msg, unless bt_add_msg
\* has completed the message it was to add; and it does not do that with no more
\* CPUs than BT_MAX_QUEUE_LEN.
THEOREM MessageInOnePlace == Spec => []OnePlace
<1> QED
  BY BtInvariant, OnePlaceHolds, PTL

\* A message is completed with its own response, as long as there are not more
\* messages than numbers: the number in it was given to one message only.
THEOREM MessageGetsItsResponse == Spec => []OwnResponse
<1>1. BtInv => OwnResponse
  BY DEF BtInv, Sound, Numbers, OwnResponse
<1> QED
  BY <1>1, BtInvariant, PTL

\* ipmi_queue_msg_sync returns only when its message was completed, if the
\* address of a message is not used again before its ipmi_cmd_done is over and
\* bt_add_msg has not completed the message it was to add.
THEOREM SyncReturnsDone == Spec => []SyncDone
<1>1. BtInv => SyncDone
  BY DEF BtInv, Sound, Waits, SyncDone
<1> QED
  BY <1>1, BtInvariant, PTL
=============================================================================
