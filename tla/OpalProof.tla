----------------------------- MODULE OpalProof ------------------------------
(***************************************************************************)
(* Proofs about the OPAL interface, for any set of CPUs: the message queue *)
(* and the event word (OpalMsg), for every pool and every number of        *)
(* messages, and then quiescing (Quiesce).                                 *)
(***************************************************************************)
EXTENDS OpalMsg, Quiesce, FiniteSetTheorems, WellFoundedInduction, TLAPS

QueueLocks == {"opal_msg_lock", "msgq_lock"}
Statuses == {"none", "OPAL_SUCCESS", "OPAL_PARTIAL"}
Updating == {"update", "store"}

\* The queue that a lock protects, and its bit in opal_pending_events.
Queue(l) == IF l = "opal_msg_lock" THEN msg_pending_list ELSE msgq
Bit(l) == IF l = "opal_msg_lock" THEN Msg ELSE Recv

\* The types of all that the properties depend on.
Calls == [lock : QueueLocks \cup {"none"}, event : Events, on : BOOLEAN,
          store : SUBSET Events, e : 0..Entries, id : 0..MaxMsgs,
          status : Statuses]

MsgTypes ==
  /\ TypeOK
  /\ msgq \in Seq(Nat) /\ call \in [CPUs -> Calls] /\ pool \in Nat
  /\ queued \in 0..MaxMsgs /\ responses \in Nat
  /\ got \in Seq(Nat) /\ called \subseteq Nat \X Statuses

\* A CPU in opal_update_pending_evt holds the lock of the queue whose bit it updates, and
\* evt_lock from the moment the new word is computed until it is stored; nobody else holds
\* them.
LocksOK ==
  \A c \in CPUs :
    /\ \A l \in QueueLocks : holder[l] = c <=> at[c] \in Updating /\ call[c].lock = l
    /\ at[c] \in Updating => call[c].lock \in QueueLocks /\ call[c].event = Bit(call[c].lock)
    /\ holder["evt_lock"] = c <=> at[c] = "store"

\* Unless a lock is held its bit says whether the queue is empty; a CPU that holds it is
\* about to make the bit say so, and the word it is about to store differs from the present
\* one in that bit only.
BitsOK ==
  /\ \A l \in QueueLocks : Free(l) => (Bit(l) \in opal_pending_events <=> Queue(l) # <<>>)
  /\ \A c \in CPUs : at[c] \in Updating => (call[c].on <=> Queue(call[c].lock) # <<>>)
  /\ \A c \in CPUs : at[c] = "store" => call[c].store = NewEvents(c)

Distinct(s) == \A i, j \in 1..Len(s) : s[i] = s[j] => i = j

\* Messages are pending in the order in which they were queued.
Rising(f, s) == \A i, j \in 1..Len(s) : i < j => f[s[i]].id < f[s[j]].id

\* The linked entries that go back to the free list.
Plain == {e \in Linked : ~entry[e].extended}

\* No entry is linked twice, none of the extended ones is free, only messages that are long
\* are in extended ones, and all of the pool is linked.
EntriesOK ==
  /\ Distinct(msg_free_list) /\ Distinct(msg_pending_list)
  /\ ToSet(msg_free_list) \cap ToSet(msg_pending_list) = {}
  /\ \A e \in ToSet(msg_free_list) : ~entry[e].extended
  /\ \A e \in ToSet(msg_pending_list) : entry[e].kind = "async" => ~entry[e].extended
  /\ Cardinality(Plain) >= pool

Waiting == {entry[e].id : e \in ToSet(msg_pending_list)}
Given == ToSet(got) \cup checked \cup lost
Apart == ToSet(got) \cap (checked \cup lost) = {} /\ checked \cap lost = {}
Due == {c \in CPUs : call[c].id # 0}

\* What is pending and what was taken are all that was queued, each once and in
\* order; nothing pending is older than what opal_get_msg has returned.
OrderOK ==
  /\ Rising(entry, msg_pending_list)
  /\ \A i, j \in 1..Len(got) : i < j => got[i] < got[j]
  /\ \A x \in ToSet(got), y \in Waiting : x < y
  /\ Apart /\ Waiting \cap Given = {}
  /\ Waiting \cup Given = 1..queued

\* The consumed callback of a message that the host has got was called or a CPU is on its
\* way to it, and not both, nor two CPUs.
DueOK ==
  /\ \A c \in CPUs : /\ at[c] \in {"os", "opal"} => call[c].id = 0
                     /\ at[c] = "callback" => call[c].id # 0
  /\ \A c, d \in Due : call[c].id = call[d].id => c = d
  /\ \A c \in Due : \A x \in called : x[1] # call[c].id
  /\ Given = {x[1] : x \in called} \cup {call[c].id : c \in Due}
  /\ IsFiniteSet(called) /\ IsFiniteSet(Due)
  /\ Cardinality(called) + Cardinality(Due) = Cardinality(Given)

\* The inductive invariant.
MsgInv == MsgTypes /\ LocksOK /\ BitsOK /\ EntriesOK /\ OrderOK /\ DueOK

\* A nonempty set of natural numbers has a least element, which is its Min.
LEMMA MinFacts ==
  ASSUME NEW S, S \subseteq Nat, S # {}
  PROVE  Min(S) \in S /\ \A y \in S : Min(S) <= y
<1>1. PICK x \in S : \A y \in S : ~(<<y, x>> \in OpToRel(<, Nat))
  BY NatLessThanWellFounded, WFMin
<1>2. \A y \in S : x <= y
  <2>1. \A y \in Nat : y < x => <<y, x>> \in OpToRel(<, Nat)
    BY DEF OpToRel
  <2>2. \A y \in Nat : ~(y < x) => x <= y
    OBVIOUS
  <2> QED
    BY <1>1, <2>1, <2>2
<1> QED
  BY <1>2 DEF Min

\* One sequence behind another.
LEMMA ConcatFacts ==
  ASSUME NEW T, NEW x \in Seq(T), NEW y \in Seq(T)
  PROVE  /\ x \o y \in Seq(T) /\ Len(x \o y) = Len(x) + Len(y)
         /\ Len(x) \in Nat /\ Len(y) \in Nat
         /\ \A i \in 1..Len(x) + Len(y) :
              (x \o y)[i] = IF i <= Len(x) THEN x[i] ELSE y[i - Len(x)]
OBVIOUS

\* list_del() of a message that is queued takes out its one link.
LEMMA RemoveLinked ==
  ASSUME NEW T, NEW s \in Seq(T), NEW t, \E i \in 1..Len(s) : s[i] = t
  PROVE  \E k \in 1..Len(s) :
           /\ s[k] = t
           /\ RemoveFirst(s, t) \in Seq(T)
           /\ Len(RemoveFirst(s, t)) = Len(s) - 1
           /\ \A i \in 1..Len(s) - 1 :
                RemoveFirst(s, t)[i] = IF i < k THEN s[i] ELSE s[i + 1]
<1> DEFINE I == {i \in 1..Len(s) : s[i] = t}
           k == Min(I)
<1>1. k \in I
  <2>1. I \subseteq Nat /\ I # {}
    OBVIOUS
  <2> HIDE DEF I
  <2> QED
    BY <2>1, MinFacts
<1>2. SelectInSeq(s, LAMBDA v : v = t) = k
  BY DEF SelectInSeq
<1>3. RemoveFirst(s, t) = SubSeq(s, 1, k - 1) \o SubSeq(s, k + 1, Len(s))
  BY <1>2 DEF RemoveFirst, RemoveAt
<1> HIDE DEF k
<1>4. k \in 1..Len(s) /\ s[k] = t
  BY <1>1
<1> HIDE DEF I
<1> DEFINE a == SubSeq(s, 1, k - 1)
           b == SubSeq(s, k + 1, Len(s))
<1>5. /\ a \in Seq(T) /\ Len(a) = k - 1 /\ \A i \in 1..k - 1 : a[i] = s[i]
      /\ b \in Seq(T) /\ Len(b) = Len(s) - k /\ \A i \in 1..Len(s) - k : b[i] = s[k + i]
  BY <1>4
<1> HIDE DEF a, b
<1>6. /\ a \o b \in Seq(T) /\ Len(a \o b) = Len(s) - 1
      /\ \A i \in 1..Len(s) - 1 : (a \o b)[i] = IF i < k THEN a[i] ELSE b[(i + 1) - k]
  <2>1. /\ a \o b \in Seq(T) /\ Len(a \o b) = Len(a) + Len(b) /\ Len(a) \in Nat /\ Len(b) \in Nat
        /\ \A i \in 1..Len(a) + Len(b) :
             (a \o b)[i] = IF i <= Len(a) THEN a[i] ELSE b[i - Len(a)]
    BY <1>5, ConcatFacts
  <2>2. Len(a) + Len(b) = Len(s) - 1
    BY <1>4, <1>5
  <2>3. \A i \in 1..Len(s) - 1 : (i <= Len(a) <=> i < k) /\ i - Len(a) = (i + 1) - k
    BY <1>4, <1>5
  <2> QED
    BY <2>1, <2>2, <2>3
<1>7. \A i \in 1..Len(s) - 1 : (a \o b)[i] = IF i < k THEN s[i] ELSE s[i + 1]
  <2> TAKE i \in 1..Len(s) - 1
  <2>1. CASE i < k
    BY <1>4, <1>5, <1>6, <2>1
  <2>2. CASE ~(i < k)
    <3>1. (i + 1) - k \in 1..Len(s) - k /\ k + ((i + 1) - k) = i + 1
      BY <1>4, <2>2
    <3> QED
      BY <1>5, <1>6, <2>2, <3>1
  <2> QED
    BY <2>1, <2>2
<1> QED
  BY <1>3, <1>4, <1>6, <1>7 DEF a, b

\* The messages of a queue.
LEMMA ToSetSeq ==
  ASSUME NEW T, NEW s \in Seq(T)
  PROVE  /\ ToSet(s) = {s[i] : i \in 1..Len(s)} /\ ToSet(s) \subseteq T
         /\ Len(s) \in Nat
         /\ s = <<>> <=> ToSet(s) = {}
<1>1. DOMAIN s = 1..Len(s) /\ Len(s) \in Nat /\ \A i \in 1..Len(s) : s[i] \in T
  OBVIOUS
<1>2. ToSet(s) = {s[i] : i \in 1..Len(s)}
  BY <1>1 DEF ToSet
<1>3. s # <<>> => 1 \in 1..Len(s)
  BY <1>1
<1>4. s = <<>> => Len(s) = 0
  OBVIOUS
<1> QED
  BY <1>1, <1>2, <1>3, <1>4

\* list_del() leaves the other messages.
LEMMA RemoveFacts ==
  ASSUME NEW T, NEW s \in Seq(T), NEW t, Distinct(s)
  PROVE  /\ RemoveFirst(s, t) \in Seq(T) /\ Distinct(RemoveFirst(s, t))
         /\ ToSet(RemoveFirst(s, t)) = ToSet(s) \ {t}
         /\ Len(RemoveFirst(s, t)) = IF t \in ToSet(s) THEN Len(s) - 1 ELSE Len(s)
<1> DEFINE r == RemoveFirst(s, t)
<1>1. CASE \E i \in 1..Len(s) : s[i] = t
  <2>1. PICK k \in 1..Len(s) : /\ s[k] = t /\ r \in Seq(T) /\ Len(r) = Len(s) - 1
                               /\ \A i \in 1..Len(s) - 1 :
                                    r[i] = IF i < k THEN s[i] ELSE s[i + 1]
    BY <1>1, RemoveLinked
  <2> HIDE DEF r
  <2> DEFINE p(i) == IF i < k THEN i ELSE i + 1
  <2>2. \A i \in 1..Len(r) : p(i) \in 1..Len(s) /\ p(i) # k /\ r[i] = s[p(i)]
    BY <2>1
  <2>3. \A i, j \in 1..Len(r) : (i < j => p(i) < p(j)) /\ (p(i) = p(j) => i = j)
    BY <2>1
  <2>4. ASSUME NEW x \in 1..Len(s), x # k PROVE \E i \in 1..Len(r) : p(i) = x
    <3>1. CASE x < k
      BY <2>1, <3>1
    <3>2. CASE x > k
      <4>1. x - 1 \in 1..Len(r) /\ p(x - 1) = x
        BY <2>1, <3>2
      <4> QED
        BY <4>1
    <3> QED
      BY <2>4, <3>1, <3>2
  <2> HIDE DEF p
  <2>5. Distinct(r)
    <3> SUFFICES ASSUME NEW i \in 1..Len(r), NEW j \in 1..Len(r), r[i] = r[j] PROVE i = j
      BY DEF Distinct
    <3>1. s[p(i)] = s[p(j)] /\ p(i) \in 1..Len(s) /\ p(j) \in 1..Len(s)
      BY <2>2
    <3>2. p(i) = p(j)
      BY <3>1 DEF Distinct
    <3> QED
      BY <2>3, <3>2
  <2>6. \A i \in 1..Len(r) : r[i] # t
    BY <2>1, <2>2 DEF Distinct
  <2>7. ToSet(r) = ToSet(s) \ {t}
    <3>1. ToSet(r) = {r[i] : i \in 1..Len(r)} /\ ToSet(s) = {s[i] : i \in 1..Len(s)}
      BY <2>1, ToSetSeq
    <3>2. ToSet(r) \subseteq ToSet(s) \ {t}
      BY <2>2, <2>6, <3>1
    <3>3. ASSUME NEW x \in 1..Len(s), s[x] # t PROVE s[x] \in ToSet(r)
      <4>1. PICK i \in 1..Len(r) : p(i) = x
        BY <2>1, <2>4, <3>3
      <4> QED
        BY <2>2, <3>1, <4>1
    <3> QED
      BY <3>1, <3>2, <3>3
  <2>8. t \in ToSet(s)
    BY <2>1, ToSetSeq
  <2> QED
    BY <2>1, <2>5, <2>7, <2>8 DEF r
<1>2. CASE ~\E i \in 1..Len(s) : s[i] = t
  <2>1. r = s
    BY <1>2 DEF RemoveFirst
  <2>2. ToSet(s) = ToSet(s) \ {t} /\ t \notin ToSet(s)
    BY <1>2, ToSetSeq
  <2> QED
    BY <2>1, <2>2
<1> QED
  BY <1>1, <1>2

\* Adding to the end of a list what is not on it.
LEMMA AppendFacts ==
  ASSUME NEW T, NEW s \in Seq(T), NEW t \in T, t \notin ToSet(s), Distinct(s)
  PROVE  /\ Append(s, t) \in Seq(T) /\ Distinct(Append(s, t))
         /\ ToSet(Append(s, t)) = ToSet(s) \cup {t}
         /\ Len(Append(s, t)) = Len(s) + 1
<1>1. /\ Append(s, t) \in Seq(T) /\ Len(Append(s, t)) = Len(s) + 1 /\ Len(s) \in Nat
      /\ Append(s, t)[Len(s) + 1] = t /\ \A i \in 1..Len(s) : Append(s, t)[i] = s[i]
  OBVIOUS
<1>2. \A i \in 1..Len(s) : s[i] # t
  BY ToSetSeq
<1>3. Distinct(Append(s, t))
  BY <1>1, <1>2 DEF Distinct
<1>4. /\ ToSet(Append(s, t)) = {Append(s, t)[i] : i \in 1..Len(s) + 1}
      /\ ToSet(s) = {s[i] : i \in 1..Len(s)}
  <2>1. ToSet(Append(s, t)) = {Append(s, t)[i] : i \in 1..Len(Append(s, t))}
    BY <1>1, ToSetSeq
  <2> QED
    BY <1>1, <2>1, ToSetSeq
<1>5. 1..Len(s) + 1 = 1..Len(s) \cup {Len(s) + 1}
  BY <1>1
<1> QED
  BY <1>1, <1>3, <1>4, <1>5

\* r is what is left of s, in the same order, when some elements are taken out.
Thinned(r, s) ==
  \E p \in [1..Len(r) -> 1..Len(s)] :
    /\ \A i, j \in 1..Len(r) : i < j => p[i] < p[j]
    /\ \A i \in 1..Len(r) : r[i] = s[p[i]]

\* list_pop().
LEMMA PopFacts ==
  ASSUME NEW T, NEW s \in Seq(T), s # <<>>, Distinct(s)
  PROVE  /\ Tail(s) \in Seq(T) /\ Distinct(Tail(s)) /\ Thinned(Tail(s), s)
         /\ ToSet(Tail(s)) = ToSet(s) \ {Head(s)} /\ Head(s) \in ToSet(s) /\ Head(s) = s[1]
         /\ 1 \in 1..Len(s)
<1> DEFINE r == Tail(s)
<1>1. /\ r \in Seq(T) /\ Len(s) \in Nat /\ Len(r) = Len(s) - 1 /\ Head(s) = s[1]
      /\ 1 \in 1..Len(s) /\ \A i \in 1..Len(s) - 1 : r[i] = s[i + 1]
  OBVIOUS
<1> HIDE DEF r
<1> DEFINE p == [i \in 1..Len(r) |-> i + 1]
<1>2. /\ p \in [1..Len(r) -> 1..Len(s)]
      /\ \A i, j \in 1..Len(r) : i < j => p[i] < p[j]
      /\ \A i \in 1..Len(r) : r[i] = s[p[i]]
  BY <1>1
<1>3. Thinned(r, s)
  BY <1>2 DEF Thinned
<1>4. Distinct(r)
  <2> SUFFICES ASSUME NEW i \in 1..Len(r), NEW j \in 1..Len(r), r[i] = r[j] PROVE i = j
    BY DEF Distinct
  <2>1. i + 1 \in 1..Len(s) /\ j + 1 \in 1..Len(s) /\ s[i + 1] = s[j + 1]
    BY <1>1
  <2>2. i + 1 = j + 1
    BY <2>1 DEF Distinct
  <2> QED
    BY <2>2
<1>5. ToSet(r) = {r[i] : i \in 1..Len(r)} /\ ToSet(s) = {s[i] : i \in 1..Len(s)}
  BY <1>1, ToSetSeq
<1>6. ToSet(r) \subseteq ToSet(s) \ {Head(s)}
  <2> SUFFICES ASSUME NEW i \in 1..Len(r) PROVE r[i] \in ToSet(s) /\ r[i] # s[1]
    BY <1>1, <1>5
  <2>1. i + 1 \in 1..Len(s) /\ r[i] = s[i + 1] /\ i + 1 # 1
    BY <1>1
  <2> QED
    BY <1>1, <1>5, <2>1 DEF Distinct
<1>7. ToSet(s) \ {Head(s)} \subseteq ToSet(r)
  <2> SUFFICES ASSUME NEW i \in 1..Len(s), s[i] # s[1] PROVE s[i] \in ToSet(r)
    BY <1>1, <1>5
  <2>1. i - 1 \in 1..Len(r) /\ r[i - 1] = s[i]
    BY <1>1
  <2> QED
    BY <1>5, <2>1
<1>8. Head(s) \in ToSet(s)
  BY <1>1, <1>5
<1> QED
  BY <1>1, <1>3, <1>4, <1>6, <1>7, <1>8 DEF r

\* list_del() of an element of the list.
LEMMA DelFacts ==
  ASSUME NEW T, NEW s \in Seq(T), Distinct(s), NEW t \in ToSet(s)
  PROVE  /\ RemoveFirst(s, t) \in Seq(T) /\ Distinct(RemoveFirst(s, t))
         /\ Thinned(RemoveFirst(s, t), s) /\ ToSet(RemoveFirst(s, t)) = ToSet(s) \ {t}
<1>1. \E i \in 1..Len(s) : s[i] = t
  BY ToSetSeq
<1> DEFINE r == RemoveFirst(s, t)
<1>2. PICK k \in 1..Len(s) : /\ s[k] = t /\ r \in Seq(T) /\ Len(r) = Len(s) - 1
                             /\ \A i \in 1..Len(s) - 1 :
                                  r[i] = IF i < k THEN s[i] ELSE s[i + 1]
  BY <1>1, RemoveLinked
<1> HIDE DEF r
<1> DEFINE p == [i \in 1..Len(r) |-> IF i < k THEN i ELSE i + 1]
<1>3. /\ p \in [1..Len(r) -> 1..Len(s)]
      /\ \A i, j \in 1..Len(r) : i < j => p[i] < p[j]
      /\ \A i \in 1..Len(r) : r[i] = s[p[i]]
  BY <1>2
<1>4. Thinned(r, s)
  BY <1>3 DEF Thinned
<1> QED
  BY <1>4, RemoveFacts DEF r

\* list_add().
LEMMA PushFacts ==
  ASSUME NEW T, NEW s \in Seq(T), NEW t \in T, t \notin ToSet(s), Distinct(s)
  PROVE  /\ Cons(t, s) \in Seq(T) /\ Distinct(Cons(t, s))
         /\ ToSet(Cons(t, s)) = ToSet(s) \cup {t}
<1> DEFINE a == <<t>>
           r == Cons(t, s)
<1>0. r = a \o s
  BY DEF Cons
<1>1. a \in Seq(T) /\ Len(a) = 1 /\ a[1] = t
  OBVIOUS
<1> HIDE DEF a, r
<1>2. /\ r \in Seq(T) /\ Len(r) = 1 + Len(s) /\ Len(s) \in Nat
      /\ \A i \in 1..1 + Len(s) : r[i] = IF i <= 1 THEN a[i] ELSE s[i - 1]
  <2>1. /\ a \o s \in Seq(T) /\ Len(a \o s) = Len(a) + Len(s) /\ Len(s) \in Nat
        /\ \A i \in 1..Len(a) + Len(s) :
             (a \o s)[i] = IF i <= Len(a) THEN a[i] ELSE s[i - Len(a)]
    BY <1>1, ConcatFacts
  <2> QED
    BY <1>0, <1>1, <2>1
<1>3. r[1] = t /\ 1 \in 1..Len(r) /\ \A i \in 1..Len(s) : i + 1 \in 1..Len(r) /\ r[i + 1] = s[i]
  BY <1>1, <1>2
<1>4. \A i \in 1..Len(r) : i = 1 \/ (i - 1 \in 1..Len(s) /\ r[i] = s[i - 1])
  BY <1>2
<1>5. \A i \in 1..Len(s) : s[i] # t
  BY ToSetSeq
<1>6. Distinct(r)
  <2> SUFFICES ASSUME NEW i \in 1..Len(r), NEW j \in 1..Len(r), r[i] = r[j] PROVE i = j
    BY DEF Distinct
  <2>1. CASE i = 1 \/ j = 1
    BY <1>3, <1>4, <1>5, <2>1
  <2>2. CASE i # 1 /\ j # 1
    <3>1. i - 1 \in 1..Len(s) /\ j - 1 \in 1..Len(s) /\ s[i - 1] = s[j - 1]
      BY <1>4, <2>2
    <3>2. i - 1 = j - 1
      BY <3>1 DEF Distinct
    <3> QED
      BY <3>2
  <2> QED
    BY <2>1, <2>2
<1>7. ToSet(r) = {r[i] : i \in 1..Len(r)} /\ ToSet(s) = {s[i] : i \in 1..Len(s)}
  BY <1>2, ToSetSeq
<1>8. ToSet(r) \subseteq ToSet(s) \cup {t}
  <2>1. \A i \in 1..Len(r) : r[i] = t \/ r[i] \in ToSet(s)
    BY <1>3, <1>4, <1>7
  <2> QED
    BY <1>7, <2>1
<1>9. ToSet(s) \cup {t} \subseteq ToSet(r)
  BY <1>3, <1>7
<1> QED
  BY <1>2, <1>6, <1>8, <1>9 DEF r

\* Taking out messages leaves the order of the others.
LEMMA ThinnedRising ==
  ASSUME NEW T, NEW s \in Seq(T), NEW r \in Seq(T), Thinned(r, s), NEW f, NEW g, Rising(f, s),
         \A e \in ToSet(r) : g[e].id = f[e].id
  PROVE  Rising(g, r)
<1> SUFFICES ASSUME NEW i \in 1..Len(r), NEW j \in 1..Len(r), i < j PROVE g[r[i]].id < g[r[j]].id
  BY DEF Rising
<1>1. PICK p \in [1..Len(r) -> 1..Len(s)] :
        /\ \A k, l \in 1..Len(r) : k < l => p[k] < p[l]
        /\ \A k \in 1..Len(r) : r[k] = s[p[k]]
  BY DEF Thinned
<1>2. p[i] < p[j] /\ p[i] \in 1..Len(s) /\ p[j] \in 1..Len(s)
  BY <1>1
<1>3. f[s[p[i]]].id < f[s[p[j]]].id
  BY <1>2 DEF Rising
<1>4. r[i] \in ToSet(r) /\ r[j] \in ToSet(r)
  BY ToSetSeq
<1>5. g[r[i]].id = f[s[p[i]]].id /\ g[r[j]].id = f[s[p[j]]].id
  BY <1>1, <1>4
<1> QED
  BY <1>3, <1>5

\* The union of the two lists has no element twice.
LEMMA ConcatDistinct ==
  ASSUME NEW T, NEW x \in Seq(T), NEW y \in Seq(T), Distinct(x), Distinct(y),
         ToSet(x) \cap ToSet(y) = {}
  PROVE  IsInjective(x \o y)
<1> DEFINE z == x \o y
<1>1. /\ z \in Seq(T) /\ Len(z) = Len(x) + Len(y) /\ Len(x) \in Nat /\ Len(y) \in Nat
      /\ \A i \in 1..Len(x) + Len(y) : z[i] = IF i <= Len(x) THEN x[i] ELSE y[i - Len(x)]
  BY ConcatFacts
<1>2. DOMAIN z = 1..Len(z)
  BY <1>1
<1> HIDE DEF z
<1>3. /\ \A i \in 1..Len(x) : x[i] \in ToSet(x)
      /\ \A i \in 1..Len(y) : y[i] \in ToSet(y)
  BY ToSetSeq
<1>4. ASSUME NEW i \in 1..Len(z), NEW j \in 1..Len(z), z[i] = z[j] PROVE i = j
  <2>1. \A k \in 1..Len(z) : \/ k <= Len(x) /\ k \in 1..Len(x) /\ z[k] = x[k]
                             \/ /\ k > Len(x) /\ k - Len(x) \in 1..Len(y)
                                /\ z[k] = y[k - Len(x)]
    BY <1>1
  <2>a. i \in Nat /\ j \in Nat
    BY <1>1
  <2>2. CASE i <= Len(x) /\ j <= Len(x)
    <3>1. i \in 1..Len(x) /\ j \in 1..Len(x) /\ x[i] = x[j]
      BY <1>1, <1>4, <2>1, <2>2, <2>a
    <3> QED
      BY <3>1 DEF Distinct
  <2>3. CASE i > Len(x) /\ j > Len(x)
    <3>1. /\ i - Len(x) \in 1..Len(y) /\ j - Len(x) \in 1..Len(y)
          /\ y[i - Len(x)] = y[j - Len(x)]
      BY <1>1, <1>4, <2>1, <2>3
    <3>2. i - Len(x) = j - Len(x)
      BY <3>1 DEF Distinct
    <3> QED
      BY <1>1, <3>2
  <2>4. CASE i <= Len(x) /\ j > Len(x)
    <3>1. i \in 1..Len(x) /\ z[i] = x[i]
      BY <1>1, <2>1, <2>4, <2>a
    <3>2. j - Len(x) \in 1..Len(y) /\ z[j] = y[j - Len(x)]
      BY <1>1, <2>1, <2>4, <2>a
    <3>3. z[i] \in ToSet(x) /\ z[j] \in ToSet(y)
      BY <1>3, <3>1, <3>2
    <3> QED
      BY <1>4, <3>3
  <2>5. CASE i > Len(x) /\ j <= Len(x)
    <3>1. i - Len(x) \in 1..Len(y) /\ z[i] = y[i - Len(x)]
      BY <1>1, <2>1, <2>5, <2>a
    <3>2. j \in 1..Len(x) /\ z[j] = x[j]
      BY <1>1, <2>1, <2>5, <2>a
    <3>3. z[i] \in ToSet(y) /\ z[j] \in ToSet(x)
      BY <1>3, <3>1, <3>2
    <3> QED
      BY <1>4, <3>3
  <2> QED
    BY <1>1, <2>a, <2>2, <2>3, <2>4, <2>5
<1>5. IsInjective(z)
  BY <1>2, <1>4 DEF IsInjective
<1> QED
  BY <1>5 DEF z

\* A list is empty when its length is 0.
LEMMA EmptyFacts ==
  ASSUME NEW T, NEW s \in Seq(T)
  PROVE  Len(s) \in Nat /\ (Len(s) = 0 <=> s = <<>>)
OBVIOUS

-----------------------------------------------------------------------------
(* The steps. *)

LockNames == {"opal_msg_lock", "msgq_lock", "evt_lock"}
Places == {"os", "opal", "update", "store", "callback"}

\* Of the CPUs, only c moves.
Only(c) == \A d \in CPUs \ {c} : at'[d] = at[d] /\ call'[d] = call[d]

\* What opal_update_pending_evt is called with.
LEMMA UpdateFacts ==
  ASSUME MsgTypes, NEW c \in CPUs, NEW l \in QueueLocks, NEW ev \in Events, NEW on \in BOOLEAN,
         NEW args \in Calls, Update(c, l, ev, on, args)
  PROVE  /\ holder' \in [LockNames -> CPUs \cup {NoCpu}] /\ holder'[l] = c
         /\ \A k \in LockNames \ {l} : holder'[k] = holder[k]
         /\ at' \in [CPUs -> Places] /\ at'[c] = "update" /\ Only(c)
         /\ call' \in [CPUs -> Calls] /\ call'[c].lock = l /\ call'[c].event = ev
         /\ call'[c].on = on /\ call'[c].id = args.id
<1>1. holder \in [LockNames -> CPUs \cup {NoCpu}] /\ at \in [CPUs -> Places]
      /\ call \in [CPUs -> Calls] /\ l \in LockNames
  BY DEF MsgTypes, TypeOK, LockNames, Places, QueueLocks
<1> DEFINE new == [args EXCEPT !.lock = l, !.event = ev, !.on = on]
<1>2. /\ new \in Calls /\ new.lock = l /\ new.event = ev /\ new.on = on /\ new.id = args.id
  BY DEF Calls
<1>3. call' = [call EXCEPT ![c] = new]
  BY DEF Update
<1> HIDE DEF new
<1>4. call' \in [CPUs -> Calls] /\ call'[c] = new /\ \A d \in CPUs \ {c} : call'[d] = call[d]
  BY <1>1, <1>2, <1>3
<1>5. /\ holder' \in [LockNames -> CPUs \cup {NoCpu}] /\ holder'[l] = c
      /\ \A k \in LockNames \ {l} : holder'[k] = holder[k]
  BY <1>1 DEF Update
<1>6. /\ at' \in [CPUs -> Places] /\ at'[c] = "update" /\ \A d \in CPUs \ {c} : at'[d] = at[d]
  BY <1>1 DEF Update, Goto, Places
<1> QED
  BY <1>2, <1>4, <1>5, <1>6 DEF Only

\* What it leaves behind.
LEMMA UpdatedFacts ==
  ASSUME MsgTypes, NEW c \in CPUs, call[c].lock \in QueueLocks, Updated(c)
  PROVE  /\ holder' \in [LockNames -> CPUs \cup {NoCpu}] /\ holder'["evt_lock"] = NoCpu
         /\ holder'[call[c].lock] = NoCpu
         /\ \A k \in QueueLocks : k # call[c].lock => holder'[k] = holder[k]
         /\ at' \in [CPUs -> Places] /\ Only(c)
         /\ at'[c] = IF call[c].id # 0 THEN "callback" ELSE "opal"
         /\ call' \in [CPUs -> Calls] /\ call'[c].id = call[c].id
<1>1. holder \in [LockNames -> CPUs \cup {NoCpu}] /\ at \in [CPUs -> Places]
      /\ call \in [CPUs -> Calls] /\ call[c] \in Calls /\ call[c].lock \in LockNames
  BY DEF MsgTypes, TypeOK, LockNames, Places, QueueLocks
<1> DEFINE new == [Idle EXCEPT !.e = call[c].e, !.id = call[c].id, !.status = call[c].status]
<1>2. Idle \in Calls
  BY OpalMsgAssumption DEF Idle, Calls, Events, Statuses
<1>3. new \in Calls /\ new.id = call[c].id
  BY <1>1, <1>2 DEF Calls
<1>4. call' = [call EXCEPT ![c] = new]
  BY DEF Updated
<1> HIDE DEF new
<1>5. call' \in [CPUs -> Calls] /\ call'[c] = new /\ \A d \in CPUs \ {c} : call'[d] = call[d]
  BY <1>1, <1>3, <1>4
<1>6. /\ holder' \in [LockNames -> CPUs \cup {NoCpu}] /\ holder'["evt_lock"] = NoCpu
      /\ holder'[call[c].lock] = NoCpu
      /\ \A k \in QueueLocks : k # call[c].lock => holder'[k] = holder[k]
  BY <1>1 DEF Updated, LockNames, QueueLocks
<1>7. /\ at' \in [CPUs -> Places] /\ \A d \in CPUs \ {c} : at'[d] = at[d]
      /\ at'[c] = IF call[c].id # 0 THEN "callback" ELSE "opal"
  BY <1>1 DEF Updated, Goto, Places
<1> QED
  BY <1>3, <1>5, <1>6, <1>7 DEF Only

-----------------------------------------------------------------------------
(* The locks and the event word: c takes the lock of a queue for a change of it that has to
   be told, computes the new word, stores it and lets go of the locks, or does something
   else. *)

Acquires(c, l) ==
  /\ Only(c) /\ at[c] \in {"os", "opal"} /\ Free(l)
  /\ holder'[l] = c /\ \A k \in LockNames \ {l} : holder'[k] = holder[k]
  /\ at'[c] = "update" /\ call'[c].lock = l /\ call'[c].event = Bit(l)
  /\ call'[c].on <=> Queue(l)' # <<>>
  /\ opal_pending_events' = opal_pending_events
  /\ \A k \in QueueLocks \ {l} : Queue(k)' = Queue(k)

Computes(c) ==
  /\ Only(c) /\ at[c] = "update" /\ Free("evt_lock") /\ at'[c] = "store"
  /\ holder'["evt_lock"] = c /\ \A k \in QueueLocks : holder'[k] = holder[k]
  /\ call'[c].lock = call[c].lock /\ call'[c].event = call[c].event /\ call'[c].on = call[c].on
  /\ call'[c].store = NewEvents(c)
  /\ opal_pending_events' = opal_pending_events
  /\ \A k \in QueueLocks : Queue(k)' = Queue(k)

Releases(c) ==
  /\ Only(c) /\ at[c] \in Updating /\ (at[c] = "update" => Free("evt_lock"))
  /\ at'[c] \notin Updating
  /\ holder'["evt_lock"] = NoCpu /\ holder'[call[c].lock] = NoCpu
  /\ \A k \in QueueLocks : k # call[c].lock => holder'[k] = holder[k]
  /\ opal_pending_events' = NewEvents(c)
  /\ \A k \in QueueLocks : Queue(k)' = Queue(k)

Passes(c) ==
  /\ Only(c) /\ at[c] \notin Updating /\ at'[c] \notin Updating
  /\ holder' = holder /\ opal_pending_events' = opal_pending_events
  /\ \A k \in QueueLocks :
       Queue(k)' = Queue(k) \/ (Free(k) /\ Queue(k) # <<>> /\ Queue(k)' # <<>>)

\* No two queues have the same bit.
LEMMA BitFacts ==
  /\ \A k, l \in QueueLocks : Bit(k) = Bit(l) => k = l
  /\ \A l \in QueueLocks : l \in LockNames /\ l # "evt_lock" /\ Bit(l) \in Events
  /\ "evt_lock" \in LockNames /\ LockNames = QueueLocks \cup {"evt_lock"}
BY DEF QueueLocks, LockNames, Bit, Msg, Recv, Events

\* A CPU that takes a lock.
LEMMA AcquiresOK ==
  ASSUME MsgInv, NEW c \in CPUs, NEW l \in QueueLocks, Acquires(c, l)
  PROVE  LocksOK' /\ BitsOK'
<1>0. NoCpu \notin CPUs
  BY OpalMsgAssumption
<1>1. ASSUME NEW d \in CPUs
      PROVE  /\ \A k \in QueueLocks : holder'[k] = d <=> at'[d] \in Updating /\ call'[d].lock = k
             /\ at'[d] \in Updating =>
                  call'[d].lock \in QueueLocks /\ call'[d].event = Bit(call'[d].lock)
             /\ holder'["evt_lock"] = d <=> at'[d] = "store"
  <2>1. CASE d = c
    <3>1. \A k \in QueueLocks : holder[k] # c
      BY DEF MsgInv, LocksOK, Acquires, Updating
    <3>2. holder["evt_lock"] # c
      BY DEF MsgInv, LocksOK, Acquires
    <3> QED
      BY <2>1, <3>1, <3>2, BitFacts DEF Acquires, Updating
  <2>2. CASE d # c
    <3>1. at'[d] = at[d] /\ call'[d] = call[d]
      BY <2>2 DEF Acquires, Only
    <3>2. holder[l] # d
      BY <1>0 DEF Acquires, Free
    <3>3. \A k \in QueueLocks : holder'[k] = d <=> holder[k] = d
      BY <2>2, <3>2, BitFacts DEF Acquires
    <3>4. holder'["evt_lock"] = holder["evt_lock"]
      BY BitFacts DEF Acquires
    <3> QED
      BY <3>1, <3>3, <3>4 DEF MsgInv, LocksOK
  <2> QED
    BY <2>1, <2>2
<1>2. LocksOK'
  BY <1>1 DEF LocksOK, Bit
<1>3. ASSUME NEW k \in QueueLocks, holder'[k] = NoCpu
      PROVE  Bit(k) \in opal_pending_events' <=> Queue(k)' # <<>>
  <2>1. k # l
    BY <1>0, <1>3 DEF Acquires
  <2>2. holder[k] = NoCpu /\ Queue(k)' = Queue(k)
    BY <1>3, <2>1, BitFacts DEF Acquires
  <2> QED
    BY <2>2 DEF MsgInv, BitsOK, Free, Acquires
<1>4. ASSUME NEW d \in CPUs, at'[d] \in Updating
      PROVE  /\ call'[d].on <=> Queue(call[d].lock)' # <<>>
             /\ at'[d] = "store" => call'[d].store = NewEvents(d)'
  <2>1. CASE d = c
    BY <2>1 DEF Acquires, Queue
  <2>2. CASE d # c
    <3>1. at'[d] = at[d] /\ call'[d] = call[d] /\ opal_pending_events' = opal_pending_events
      BY <2>2 DEF Acquires, Only
    <3>2. call[d].lock \in QueueLocks /\ call[d].lock # l
      BY <1>0, <1>4, <3>1 DEF MsgInv, LocksOK, Acquires, Free
    <3>3. PICK k : k = call[d].lock
      OBVIOUS
    <3>4. Queue(k)' = Queue(k)
      BY <3>2, <3>3 DEF Acquires
    <3>5. call[d].on <=> Queue(k) # <<>>
      BY <1>4, <3>1, <3>3 DEF MsgInv, BitsOK
    <3>6. Queue(call[d].lock)' = Queue(k)'
      BY <3>1, <3>3 DEF Queue
    <3>7. NewEvents(d)' = NewEvents(d)
      BY <3>1 DEF NewEvents
    <3> QED
      BY <1>4, <3>1, <3>4, <3>5, <3>6, <3>7 DEF MsgInv, BitsOK
  <2> QED
    BY <2>1, <2>2
<1>5. BitsOK'
  BY <1>3, <1>4 DEF BitsOK, Free, Bit, Updating
<1> QED
  BY <1>2, <1>5

\* One that goes on to store the word.
LEMMA ComputesOK ==
  ASSUME MsgInv, NEW c \in CPUs, Computes(c)
  PROVE  LocksOK' /\ BitsOK'
<1>0. NoCpu \notin CPUs
  BY OpalMsgAssumption
<1>1. ASSUME NEW d \in CPUs
      PROVE  /\ \A k \in QueueLocks : holder'[k] = d <=> at'[d] \in Updating /\ call'[d].lock = k
             /\ at'[d] \in Updating =>
                  call'[d].lock \in QueueLocks /\ call'[d].event = Bit(call'[d].lock)
             /\ holder'["evt_lock"] = d <=> at'[d] = "store"
  <2>1. CASE d = c
    <3>1. /\ \A k \in QueueLocks : holder[k] = c <=> call[c].lock = k
          /\ call[c].lock \in QueueLocks /\ call[c].event = Bit(call[c].lock)
      BY DEF MsgInv, LocksOK, Computes, Updating
    <3> QED
      BY <2>1, <3>1 DEF Computes, Updating
  <2>2. CASE d # c
    <3>1. at'[d] = at[d] /\ call'[d] = call[d]
      BY <2>2 DEF Computes, Only
    <3>2. holder["evt_lock"] # d /\ holder'["evt_lock"] # d
      BY <1>0, <2>2 DEF Computes, Free
    <3>3. at[d] # "store"
      BY <3>2 DEF MsgInv, LocksOK
    <3>4. \A k \in QueueLocks : holder'[k] = holder[k]
      BY DEF Computes
    <3> QED
      BY <3>1, <3>2, <3>3, <3>4 DEF MsgInv, LocksOK
  <2> QED
    BY <2>1, <2>2
<1>2. LocksOK'
  BY <1>1 DEF LocksOK, Bit
<1>3. ASSUME NEW k \in QueueLocks, holder'[k] = NoCpu
      PROVE  Bit(k) \in opal_pending_events' <=> Queue(k)' # <<>>
  <2>1. holder[k] = NoCpu /\ Queue(k)' = Queue(k)
    BY <1>3 DEF Computes
  <2> QED
    BY <2>1 DEF MsgInv, BitsOK, Free, Computes
<1>4. ASSUME NEW d \in CPUs, at'[d] \in Updating
      PROVE  /\ call'[d].on <=> Queue(call[d].lock)' # <<>>
             /\ at'[d] = "store" => call'[d].store = NewEvents(d)'
  <2>1. /\ call'[d].lock = call[d].lock /\ call'[d].on = call[d].on
        /\ call'[d].event = call[d].event /\ at[d] \in Updating
        /\ opal_pending_events' = opal_pending_events
    BY <1>4 DEF Computes, Only, Updating
  <2>2. PICK k \in QueueLocks : k = call[d].lock
    BY <2>1 DEF MsgInv, LocksOK
  <2>3. Queue(k)' = Queue(k) /\ Queue(call[d].lock)' = Queue(k)'
    BY <2>1, <2>2 DEF Computes, Queue
  <2>4. call[d].on <=> Queue(k) # <<>>
    BY <2>1, <2>2 DEF MsgInv, BitsOK
  <2>5. NewEvents(d)' = NewEvents(d)
    BY <2>1 DEF NewEvents
  <2>6. at'[d] = "store" => call'[d].store = NewEvents(d)
    BY DEF Computes, Only, MsgInv, BitsOK
  <2> QED
    BY <2>1, <2>3, <2>4, <2>5, <2>6
<1>5. BitsOK'
  BY <1>3, <1>4 DEF BitsOK, Free, Bit, Updating
<1> QED
  BY <1>2, <1>5

\* One that has updated the word and lets go of both locks.
LEMMA ReleasesOK ==
  ASSUME MsgInv, NEW c \in CPUs, Releases(c)
  PROVE  LocksOK' /\ BitsOK'
<1>0. NoCpu \notin CPUs
  BY OpalMsgAssumption
<1>l. PICK l \in QueueLocks : l = call[c].lock
  BY DEF MsgInv, LocksOK, Releases
<1>h. /\ holder[l] = c /\ call[c].event = Bit(l) /\ holder'[l] = NoCpu
      /\ \A k \in QueueLocks \ {l} : holder'[k] = holder[k]
      /\ call[c].on <=> Queue(l) # <<>>
  BY <1>l DEF MsgInv, LocksOK, BitsOK, Releases
<1>1. ASSUME NEW d \in CPUs
      PROVE  /\ \A k \in QueueLocks : holder'[k] = d <=> at'[d] \in Updating /\ call'[d].lock = k
             /\ at'[d] \in Updating =>
                  call'[d].lock \in QueueLocks /\ call'[d].event = Bit(call'[d].lock)
             /\ holder'["evt_lock"] = d <=> at'[d] = "store"
  <2>1. CASE d = c
    <3>1. \A k \in QueueLocks \ {l} : holder[k] # c
      BY <1>l DEF MsgInv, LocksOK
    <3>2. at'[c] \notin Updating /\ holder'["evt_lock"] = NoCpu
      BY DEF Releases
    <3> QED
      BY <1>0, <1>h, <2>1, <3>1, <3>2 DEF Updating
  <2>2. CASE d # c
    <3>1. at'[d] = at[d] /\ call'[d] = call[d]
      BY <2>2 DEF Releases, Only
    <3>2. holder["evt_lock"] # d /\ holder'["evt_lock"] # d
      BY <1>0, <2>2 DEF Releases, Free, MsgInv, LocksOK, Updating
    <3>3. at[d] # "store"
      BY <3>2 DEF MsgInv, LocksOK
    <3>4. \A k \in QueueLocks : holder'[k] = d <=> holder[k] = d
      BY <1>0, <1>h, <2>2
    <3> QED
      BY <3>1, <3>2, <3>3, <3>4 DEF MsgInv, LocksOK
  <2> QED
    BY <2>1, <2>2
<1>2. LocksOK'
  BY <1>1 DEF LocksOK, Bit
<1>b. /\ Bit(l) \in opal_pending_events' <=> Queue(l) # <<>>
      /\ \A k \in QueueLocks \ {l} :
           Bit(k) \in opal_pending_events' <=> Bit(k) \in opal_pending_events
  <2>1. \A k \in QueueLocks \ {l} : Bit(k) # Bit(l)
    BY BitFacts
  <2>2. opal_pending_events' = IF call[c].on THEN opal_pending_events \cup {Bit(l)}
                                             ELSE opal_pending_events \ {Bit(l)}
    BY <1>h DEF Releases, NewEvents
  <2> QED
    BY <1>h, <2>1, <2>2
<1>3. ASSUME NEW k \in QueueLocks, holder'[k] = NoCpu
      PROVE  Bit(k) \in opal_pending_events' <=> Queue(k)' # <<>>
  <2>1. Queue(k)' = Queue(k)
    BY DEF Releases
  <2>2. CASE k = l
    BY <1>b, <2>1, <2>2
  <2>3. CASE k # l
    BY <1>3, <1>b, <1>h, <2>1, <2>3 DEF MsgInv, BitsOK, Free
  <2> QED
    BY <2>2, <2>3
<1>4. ASSUME NEW d \in CPUs, at'[d] \in Updating
      PROVE  /\ call'[d].on <=> Queue(call[d].lock)' # <<>>
             /\ at'[d] = "store" => call'[d].store = NewEvents(d)'
  <2>0. d # c
    BY <1>4 DEF Releases
  <2>1. at'[d] = at[d] /\ call'[d] = call[d] /\ at[d] \in Updating
    BY <1>4, <2>0 DEF Releases, Only
  <2>2. PICK k \in QueueLocks : k = call[d].lock
    BY <2>1 DEF MsgInv, LocksOK
  <2>3. Queue(k)' = Queue(k) /\ Queue(call[d].lock)' = Queue(k)'
    BY <2>1, <2>2 DEF Releases, Queue
  <2>4. call[d].on <=> Queue(k) # <<>>
    BY <2>1, <2>2 DEF MsgInv, BitsOK
  <2>5. at[d] # "store"
    BY <1>0, <2>0 DEF Releases, Free, MsgInv, LocksOK, Updating
  <2> QED
    BY <2>1, <2>3, <2>4, <2>5
<1>5. BitsOK'
  BY <1>3, <1>4 DEF BitsOK, Free, Bit, Updating
<1> QED
  BY <1>2, <1>5

\* One that does something else.
LEMMA PassesOK ==
  ASSUME MsgInv, NEW c \in CPUs, Passes(c)
  PROVE  LocksOK' /\ BitsOK'
<1>0. NoCpu \notin CPUs
  BY OpalMsgAssumption
<1>1. ASSUME NEW d \in CPUs
      PROVE  /\ at'[d] \in Updating <=> at[d] \in Updating
             /\ at'[d] = "store" <=> at[d] = "store"
             /\ at[d] \in Updating => call'[d] = call[d] /\ at'[d] = at[d]
  <2>1. CASE d = c
    BY <2>1 DEF Passes, Updating
  <2>2. CASE d # c
    BY <2>2 DEF Passes, Only
  <2> QED
    BY <2>1, <2>2
<1>2. LocksOK'
  <2>1. ASSUME NEW d \in CPUs
        PROVE  /\ \A k \in QueueLocks :
                    holder'[k] = d <=> at'[d] \in Updating /\ call'[d].lock = k
               /\ at'[d] \in Updating =>
                    call'[d].lock \in QueueLocks /\ call'[d].event = Bit(call'[d].lock)
               /\ holder'["evt_lock"] = d <=> at'[d] = "store"
    BY <1>1 DEF MsgInv, LocksOK, Passes
  <2> QED
    BY <2>1 DEF LocksOK, Bit
<1>3. ASSUME NEW k \in QueueLocks, holder'[k] = NoCpu
      PROVE  Bit(k) \in opal_pending_events' <=> Queue(k)' # <<>>
  <2>1. holder[k] = NoCpu /\ (Queue(k)' # <<>> <=> Queue(k) # <<>>)
    BY <1>3 DEF Passes
  <2> QED
    BY <2>1 DEF MsgInv, BitsOK, Free, Passes
<1>4. ASSUME NEW d \in CPUs, at'[d] \in Updating
      PROVE  /\ call'[d].on <=> Queue(call[d].lock)' # <<>>
             /\ at'[d] = "store" => call'[d].store = NewEvents(d)'
  <2>1. at'[d] = at[d] /\ call'[d] = call[d] /\ at[d] \in Updating
    BY <1>1, <1>4
  <2>2. PICK k \in QueueLocks : k = call[d].lock
    BY <2>1 DEF MsgInv, LocksOK
  <2>3. Queue(call[d].lock)' = Queue(k)'
    BY <2>1, <2>2 DEF Queue
  <2>4. holder[k] = d
    BY <2>1, <2>2 DEF MsgInv, LocksOK
  <2>5. Queue(k)' = Queue(k)
    BY <1>0, <2>4 DEF Passes, Free
  <2>6. call[d].on <=> Queue(k) # <<>>
    BY <2>1, <2>2 DEF MsgInv, BitsOK
  <2>7. NewEvents(d)' = NewEvents(d)
    BY <2>1 DEF NewEvents, Passes
  <2> QED
    BY <2>1, <2>3, <2>5, <2>6, <2>7 DEF MsgInv, BitsOK
<1>5. BitsOK'
  BY <1>3, <1>4 DEF BitsOK, Free, Bit, Updating
<1> QED
  BY <1>2, <1>5

-----------------------------------------------------------------------------
(* The actions: types, and what each does to the locks and to the lists. *)

EntryType == [id : 0..MaxMsgs, kind : Kinds, extended : BOOLEAN]

\* The types in plain words.
LEMMA TypeFacts ==
  ASSUME MsgTypes
  PROVE  /\ msg_free_list \in Seq(1..Entries) /\ msg_pending_list \in Seq(1..Entries)
         /\ entry \in [1..Entries -> EntryType]
         /\ holder \in [LockNames -> CPUs \cup {NoCpu}] /\ opal_pending_events \in SUBSET Events
         /\ known \in SUBSET Events /\ irq \in BOOLEAN /\ at \in [CPUs -> Places]
         /\ token \in [CPUs -> {"none", "call", "poll", "interrupt"}]
         /\ msgq \in Seq(Nat) /\ call \in [CPUs -> Calls] /\ pool \in Nat
         /\ queued \in 0..MaxMsgs /\ responses \in Nat
         /\ got \in Seq(Nat) /\ called \subseteq Nat \X Statuses
         /\ Idle \in Calls /\ Idle.id = 0 /\ MaxMsgs \in Nat /\ NoCpu \notin CPUs
<1>1. Idle \in Calls /\ Idle.id = 0
  BY OpalMsgAssumption DEF Idle, Calls, Events, Statuses
<1> QED
  BY <1>1, OpalMsgAssumption DEF MsgTypes, TypeOK, EntryType, LockNames, Places

\* The same of the next state: what a step has to show.
LEMMA TypesNext ==
  ASSUME msg_free_list' \in Seq(1..Entries), msg_pending_list' \in Seq(1..Entries),
         entry' \in [1..Entries -> EntryType],
         holder' \in [LockNames -> CPUs \cup {NoCpu}], opal_pending_events' \in SUBSET Events,
         known' \in SUBSET Events, irq' \in BOOLEAN, at' \in [CPUs -> Places],
         token' \in [CPUs -> {"none", "call", "poll", "interrupt"}],
         msgq' \in Seq(Nat), call' \in [CPUs -> Calls], pool' \in Nat,
         queued' \in 0..MaxMsgs, responses' \in Nat,
         got' \in Seq(Nat), called' \subseteq Nat \X Statuses
  PROVE  MsgTypes'
BY DEF MsgTypes, TypeOK, EntryType, LockNames, Places

\* The lists, the messages and their callbacks stay as they are, up to where c is.
Idles(c) ==
  /\ UNCHANGED <<msg_free_list, msg_pending_list, entry, pool, queued, got, checked, lost, called>>
  /\ Only(c) /\ call'[c].id = call[c].id
  /\ at'[c] \in {"os", "opal"} => call[c].id = 0
  /\ at'[c] = "callback" => call[c].id # 0

\* opal_update_pending_evt: nothing to change, or a new word.
LEMMA UpdateStep ==
  ASSUME MsgInv, NEW c \in CPUs, opal_update_pending_evt(c)
  PROVE  MsgTypes' /\ LocksOK' /\ BitsOK' /\ Idles(c)
<1>0. MsgTypes /\ at[c] \in Updating /\ at[c] = "update" /\ Free("evt_lock")
  BY DEF MsgInv, opal_update_pending_evt, Updating
<1>t. /\ at \in [CPUs -> Places] /\ call \in [CPUs -> Calls] /\ call[c] \in Calls
      /\ holder \in [LockNames -> CPUs \cup {NoCpu}] /\ irq \in BOOLEAN
      /\ opal_pending_events \in SUBSET Events
  BY <1>0, TypeFacts
<1>1. call[c].lock \in QueueLocks /\ call[c].event \in Events
  BY <1>0, <1>t DEF MsgInv, LocksOK, Calls
<1>2. /\ UNCHANGED <<msg_free_list, msg_pending_list, entry, pool, msgq, opal_pending_events,
                     token, known, queued, responses, got, checked, lost, called>>
  BY DEF opal_update_pending_evt, lists, history
<1>q. \A k \in QueueLocks : Queue(k)' = Queue(k)
  BY <1>2 DEF Queue
<1>3. CASE NewEvents(c) = opal_pending_events /\ Updated(c) /\ UNCHANGED irq
  <2>1. /\ holder' \in [LockNames -> CPUs \cup {NoCpu}] /\ holder'["evt_lock"] = NoCpu
        /\ holder'[call[c].lock] = NoCpu
        /\ \A k \in QueueLocks : k # call[c].lock => holder'[k] = holder[k]
        /\ at' \in [CPUs -> Places] /\ Only(c)
        /\ at'[c] = IF call[c].id # 0 THEN "callback" ELSE "opal"
        /\ call' \in [CPUs -> Calls] /\ call'[c].id = call[c].id
    BY <1>0, <1>1, <1>3, UpdatedFacts
  <2>2. MsgTypes'
    BY <1>0, <1>2, <1>3, <2>1, TypeFacts, TypesNext
  <2>3. at'[c] \notin Updating
    BY <2>1 DEF Updating
  <2>4. Releases(c)
    BY <1>0, <1>2, <1>3, <1>q, <2>1, <2>3 DEF Releases
  <2>5. Idles(c)
    BY <1>2, <2>1 DEF Idles
  <2> QED
    BY <2>2, <2>4, <2>5, ReleasesOK
<1>4. CASE /\ irq' = (irq \/ (call[c].on /\ token[c] # "interrupt"))
           /\ call' = [call EXCEPT ![c].store = NewEvents(c)]
           /\ holder' = [holder EXCEPT !["evt_lock"] = c] /\ Goto(c, "store")
  <2>1. NewEvents(c) \in SUBSET Events
    BY <1>1, <1>t DEF NewEvents
  <2>2. /\ [call[c] EXCEPT !.store = NewEvents(c)] \in Calls
    BY <1>t, <2>1 DEF Calls
  <2>3. /\ call' \in [CPUs -> Calls] /\ call'[c] = [call[c] EXCEPT !.store = NewEvents(c)]
        /\ \A d \in CPUs \ {c} : call'[d] = call[d]
    BY <1>4, <1>t, <2>2
  <2>4. /\ call'[c].lock = call[c].lock /\ call'[c].event = call[c].event
        /\ call'[c].on = call[c].on /\ call'[c].store = NewEvents(c) /\ call'[c].id = call[c].id
    BY <1>t, <2>3 DEF Calls
  <2>5. /\ holder' \in [LockNames -> CPUs \cup {NoCpu}] /\ holder'["evt_lock"] = c
        /\ \A k \in QueueLocks : holder'[k] = holder[k]
    BY <1>4, <1>t DEF LockNames, QueueLocks
  <2>6. /\ at' \in [CPUs -> Places] /\ at'[c] = "store" /\ \A d \in CPUs \ {c} : at'[d] = at[d]
    BY <1>4, <1>t DEF Goto, Places
  <2>7. irq' \in BOOLEAN
    BY <1>4
  <2>8. MsgTypes'
    BY <1>0, <1>2, <2>3, <2>5, <2>6, <2>7, TypeFacts, TypesNext
  <2>9. Only(c)
    BY <2>3, <2>6 DEF Only
  <2>10. Computes(c)
    BY <1>0, <1>2, <1>q, <2>4, <2>5, <2>6, <2>9 DEF Computes
  <2>11. Idles(c)
    BY <1>2, <2>4, <2>6, <2>9 DEF Idles
  <2> QED
    BY <2>8, <2>10, <2>11, ComputesOK
<1> QED
  BY <1>3, <1>4 DEF opal_update_pending_evt

\* The word is stored.
LEMMA StoreStep ==
  ASSUME MsgInv, NEW c \in CPUs, store_events(c)
  PROVE  MsgTypes' /\ LocksOK' /\ BitsOK' /\ Idles(c)
<1>0. MsgTypes /\ at[c] \in Updating /\ at[c] = "store" /\ Updated(c)
  BY DEF MsgInv, store_events, Updating
<1>t. call[c] \in Calls /\ opal_pending_events \in SUBSET Events
  BY <1>0, TypeFacts
<1>1. call[c].lock \in QueueLocks
  BY <1>0 DEF MsgInv, LocksOK
<1>2. /\ UNCHANGED <<msg_free_list, msg_pending_list, entry, pool, msgq, irq, token, known,
                     queued, responses, got, checked, lost, called>>
      /\ opal_pending_events' = call[c].store
  BY DEF store_events, lists, history
<1>q. \A k \in QueueLocks : Queue(k)' = Queue(k)
  BY <1>2 DEF Queue
<1>3. call[c].store = NewEvents(c) /\ call[c].store \in SUBSET Events
  BY <1>0, <1>t DEF MsgInv, BitsOK, Calls
<1>4. /\ holder' \in [LockNames -> CPUs \cup {NoCpu}] /\ holder'["evt_lock"] = NoCpu
      /\ holder'[call[c].lock] = NoCpu
      /\ \A k \in QueueLocks : k # call[c].lock => holder'[k] = holder[k]
      /\ at' \in [CPUs -> Places] /\ Only(c)
      /\ at'[c] = IF call[c].id # 0 THEN "callback" ELSE "opal"
      /\ call' \in [CPUs -> Calls] /\ call'[c].id = call[c].id
  BY <1>0, <1>1, UpdatedFacts
<1>5. MsgTypes'
  BY <1>0, <1>2, <1>3, <1>4, TypeFacts, TypesNext
<1>6. at'[c] \notin Updating
  BY <1>4 DEF Updating
<1>7. Releases(c)
  BY <1>0, <1>2, <1>3, <1>4, <1>6, <1>q DEF Releases
<1>8. Idles(c)
  BY <1>2, <1>4 DEF Idles
<1> QED
  BY <1>5, <1>7, <1>8, ReleasesOK

\* The host enters and leaves; that changes nothing here.
LEMMA HostStep ==
  ASSUME MsgInv, NEW c \in CPUs,
         dummy_interrupt(c) \/ opal_handle_interrupt(c) \/ opal_poll_events(c) \/ Return(c)
  PROVE  MsgTypes' /\ LocksOK' /\ BitsOK' /\ Idles(c)
<1>0. /\ UNCHANGED <<msg_free_list, msg_pending_list, entry, pool, msgq, holder,
                     opal_pending_events, call, queued, responses, got, checked, lost, called>>
      /\ at[c] \in {"os", "opal"} /\ \E p \in {"os", "opal"} : at' = [at EXCEPT ![c] = p]
  BY DEF dummy_interrupt, opal_handle_interrupt, opal_poll_events, Return, Enter, Goto, lists,
         history
<1>t. MsgTypes /\ at \in [CPUs -> Places]
      /\ token \in [CPUs -> {"none", "call", "poll", "interrupt"}]
      /\ known \in SUBSET Events /\ opal_pending_events \in SUBSET Events /\ irq \in BOOLEAN
  BY TypeFacts DEF MsgInv
<1>1. /\ at' \in [CPUs -> Places] /\ at'[c] \in {"os", "opal"}
      /\ \A d \in CPUs \ {c} : at'[d] = at[d]
  BY <1>0, <1>t DEF Places
<1>2. /\ token' \in [CPUs -> {"none", "call", "poll", "interrupt"}]
  BY <1>t DEF dummy_interrupt, opal_handle_interrupt, opal_poll_events, Return, Enter
<1>3. known' \in SUBSET Events
  BY <1>t DEF dummy_interrupt, opal_handle_interrupt, opal_poll_events, Return, Enter
<1>4. irq' \in BOOLEAN
  BY <1>t DEF dummy_interrupt, opal_handle_interrupt, opal_poll_events, Return, Enter
<1>5. MsgTypes'
  BY <1>0, <1>1, <1>2, <1>3, <1>4, <1>t, TypeFacts, TypesNext
<1>6. Only(c)
  BY <1>0, <1>1 DEF Only
<1>7. \A k \in QueueLocks : Queue(k)' = Queue(k)
  BY <1>0 DEF Queue
<1>8. Passes(c)
  BY <1>0, <1>1, <1>6, <1>7 DEF Passes, Updating
<1>9. call[c].id = 0
  BY <1>0 DEF MsgInv, DueOK
<1>10. Idles(c)
  BY <1>0, <1>1, <1>6, <1>9 DEF Idles
<1> QED
  BY <1>5, <1>8, <1>10, PassesOK

\* A response is queued or fetched, or there is none.
LEMMA RespStep ==
  ASSUME MsgInv, NEW c \in CPUs, opal_send_complete(c) \/ opal_ipmi_recv(c)
  PROVE  MsgTypes' /\ LocksOK' /\ BitsOK' /\ Idles(c)
<1>0. /\ UNCHANGED <<msg_free_list, msg_pending_list, entry, pool, opal_pending_events, irq,
                     queued, got, checked, lost, called>>
      /\ at[c] \in {"os", "opal"} /\ Free("msgq_lock")
  BY DEF opal_send_complete, opal_ipmi_recv, lists, history
<1>t. MsgTypes /\ Idle \in Calls /\ Idle.id = 0 /\ msgq \in Seq(Nat) /\ responses \in Nat
      /\ token \in [CPUs -> {"none", "call", "poll", "interrupt"}]
      /\ at \in [CPUs -> Places] /\ known \in SUBSET Events
  BY TypeFacts DEF MsgInv
<1>i. call[c].id = 0
  BY <1>0 DEF MsgInv, DueOK
<1>n. "msgq_lock" \in QueueLocks /\ Recv \in Events /\ Bit("msgq_lock") = Recv
      /\ Queue("msgq_lock") = msgq /\ (Queue("msgq_lock") = msgq)'
  BY DEF QueueLocks, Events, Bit, Queue
<1>q. \A k \in QueueLocks \ {"msgq_lock"} : Queue(k)' = Queue(k)
  BY <1>0 DEF Queue, QueueLocks
<1>u. ASSUME NEW on \in BOOLEAN, Update(c, "msgq_lock", Recv, on, Idle), on <=> msgq' # <<>>,
             msgq' \in Seq(Nat), responses' \in Nat,
             token' \in [CPUs -> {"none", "call", "poll", "interrupt"}], known' \in SUBSET Events
      PROVE  MsgTypes' /\ LocksOK' /\ BitsOK' /\ Idles(c)
  <2>1. /\ holder' \in [LockNames -> CPUs \cup {NoCpu}] /\ holder'["msgq_lock"] = c
        /\ \A k \in LockNames \ {"msgq_lock"} : holder'[k] = holder[k]
        /\ at' \in [CPUs -> Places] /\ at'[c] = "update" /\ Only(c)
        /\ call' \in [CPUs -> Calls] /\ call'[c].lock = "msgq_lock" /\ call'[c].event = Recv
        /\ call'[c].on = on /\ call'[c].id = Idle.id
    BY <1>n, <1>t, <1>u, UpdateFacts
  <2>2. MsgTypes'
    BY <1>0, <1>t, <1>u, <2>1, TypeFacts, TypesNext
  <2>3. Acquires(c, "msgq_lock")
    BY <1>0, <1>n, <1>q, <1>u, <2>1 DEF Acquires
  <2>4. Idles(c)
    BY <1>0, <1>i, <1>t, <2>1 DEF Idles
  <2> QED
    BY <1>n, <2>2, <2>3, <2>4, AcquiresOK
<1>1. CASE opal_send_complete(c)
  <2>1. /\ msgq' = Append(msgq, responses + 1) /\ responses' = responses + 1
        /\ UNCHANGED <<token, known>> /\ Update(c, "msgq_lock", Recv, TRUE, Idle)
    BY <1>1 DEF opal_send_complete
  <2>2. msgq' \in Seq(Nat) /\ msgq' # <<>> /\ responses' \in Nat
    BY <1>t, <2>1
  <2> QED
    BY <1>t, <1>u, <2>1, <2>2
<1>2. CASE opal_ipmi_recv(c)
  <2>0. UNCHANGED responses /\ at[c] = "os"
    BY <1>2 DEF opal_ipmi_recv, history
  <2>1. CASE known' = known \ {Recv} /\ UNCHANGED <<msgq, holder, cpu>>
    <3>1. UNCHANGED <<holder, at, token, call, msgq>> /\ known' \in SUBSET Events
      BY <1>t, <2>1 DEF cpu
    <3>2. MsgTypes'
      BY <1>0, <1>t, <2>0, <3>1, TypeFacts, TypesNext
    <3>3. Only(c) /\ \A k \in QueueLocks : Queue(k)' = Queue(k)
      BY <1>0, <3>1 DEF Only, Queue
    <3>4. Passes(c)
      BY <1>0, <3>1, <3>3 DEF Passes, Updating
    <3>5. Idles(c)
      BY <1>0, <1>i, <3>1, <3>3, <2>0 DEF Idles
    <3> QED
      BY <3>2, <3>4, <3>5, PassesOK
  <2>2. CASE /\ msgq # <<>> /\ msgq' = Tail(msgq) /\ token' = [token EXCEPT ![c] = "call"]
             /\ \/ Len(msgq) = 1 /\ Update(c, "msgq_lock", Recv, FALSE, Idle)
                \/ Len(msgq) > 1 /\ Goto(c, "opal") /\ UNCHANGED <<holder, call>>
             /\ UNCHANGED known
    <3>t. token' \in [CPUs -> {"none", "call", "poll", "interrupt"}]
      BY <1>t, <2>2
    <3>l. Len(msgq') = Len(msgq) - 1 /\ msgq' \in Seq(Nat)
      BY <1>t, <2>2
    <3>e. Len(msgq') = 0 <=> msgq' = <<>>
      BY <3>l, EmptyFacts
    <3>1. (Len(msgq) = 1 => msgq' = <<>>) /\ (Len(msgq) > 1 => msgq' # <<>>)
      BY <1>t, <3>e, <3>l
    <3>2. CASE Len(msgq) = 1 /\ Update(c, "msgq_lock", Recv, FALSE, Idle)
      BY <1>t, <1>u, <2>0, <2>2, <3>1, <3>2, <3>l, <3>t
    <3>3. CASE Len(msgq) > 1 /\ Goto(c, "opal") /\ UNCHANGED <<holder, call>>
      <4>1. at' \in [CPUs -> Places] /\ at'[c] = "opal" /\ Only(c)
        BY <1>t, <3>3 DEF Goto, Places, Only
      <4>2. MsgTypes'
        BY <1>0, <1>t, <2>0, <2>2, <3>3, <3>l, <3>t, <4>1, TypeFacts, TypesNext
      <4>3. \A k \in QueueLocks :
              Queue(k)' = Queue(k) \/ (Free(k) /\ Queue(k) # <<>> /\ Queue(k)' # <<>>)
        BY <1>0, <1>n, <1>q, <2>2, <3>1, <3>3
      <4>4. Passes(c)
        BY <1>0, <2>0, <3>3, <4>1, <4>3 DEF Passes, Updating
      <4>5. Idles(c)
        BY <1>0, <1>i, <3>3, <4>1 DEF Idles
      <4> QED
        BY <4>2, <4>4, <4>5, PassesOK
    <3> QED
      BY <2>2, <3>2, <3>3
  <2> QED
    BY <1>2, <2>1, <2>2 DEF opal_ipmi_recv
<1> QED
  BY <1>1, <1>2

\* opal_get_msg with nothing pending.
LEMMA NoMsgStep ==
  ASSUME MsgInv, NEW c \in CPUs, opal_get_msg(c), msg_pending_list = <<>>
  PROVE  MsgTypes' /\ LocksOK' /\ BitsOK' /\ Idles(c)
<1>0. /\ UNCHANGED <<msg_free_list, msg_pending_list, entry, pool, msgq, opal_pending_events,
                     irq, holder, at, token, call, queued, responses, got, checked, lost, called>>
      /\ at[c] = "os" /\ known' = known \ {Msg}
  BY DEF opal_get_msg, lists, cpu
<1>t. MsgTypes /\ known \in SUBSET Events
  BY TypeFacts DEF MsgInv
<1>i. call[c].id = 0
  BY <1>0 DEF MsgInv, DueOK
<1>1. known' \in SUBSET Events
  BY <1>0, <1>t
<1>2. MsgTypes'
  BY <1>0, <1>1, <1>t, TypeFacts, TypesNext
<1>3. Only(c) /\ \A k \in QueueLocks : Queue(k)' = Queue(k)
  BY <1>0 DEF Only, Queue
<1>4. Passes(c)
  BY <1>0, <1>3 DEF Passes, Updating
<1>5. Idles(c)
  BY <1>0, <1>3, <1>i DEF Idles
<1> QED
  BY <1>2, <1>4, <1>5, PassesOK

\* The consumed callback has run.
CallsBack(c) ==
  /\ UNCHANGED <<msg_free_list, msg_pending_list, entry, pool, queued, got, checked, lost>>
  /\ Only(c) /\ at[c] = "callback" /\ at'[c] = "opal" /\ call'[c].id = 0
  /\ called' = called \cup {<<call[c].id, call[c].status>>}

\* The callback, called.
LEMMA CallbackStep ==
  ASSUME MsgInv, NEW c \in CPUs, callback(c)
  PROVE  MsgTypes' /\ LocksOK' /\ BitsOK' /\ CallsBack(c)
<1>0. /\ UNCHANGED <<msg_free_list, msg_pending_list, entry, pool, msgq, holder,
                     opal_pending_events, irq, token, known, queued, responses, got, checked, lost>>
      /\ at[c] = "callback" /\ called' = called \cup {<<call[c].id, call[c].status>>}
      /\ call' = [call EXCEPT ![c] = Idle] /\ at' = [at EXCEPT ![c] = "opal"]
  BY DEF callback, lists, Goto
<1>t. MsgTypes /\ Idle \in Calls /\ Idle.id = 0 /\ call \in [CPUs -> Calls] /\ call[c] \in Calls
      /\ at \in [CPUs -> Places] /\ called \subseteq Nat \X Statuses /\ MaxMsgs \in Nat
  BY TypeFacts DEF MsgInv
<1>1. <<call[c].id, call[c].status>> \in Nat \X Statuses
  BY <1>t DEF Calls
<1>2. /\ at' \in [CPUs -> Places] /\ at'[c] = "opal" /\ call' \in [CPUs -> Calls]
      /\ call'[c] = Idle /\ Only(c)
  BY <1>0, <1>t DEF Places, Only
<1>3. called' \subseteq Nat \X Statuses
  BY <1>0, <1>1, <1>t
<1>4. MsgTypes'
  BY <1>0, <1>2, <1>3, <1>t, TypeFacts, TypesNext
<1>5. \A k \in QueueLocks : Queue(k)' = Queue(k)
  BY <1>0 DEF Queue
<1>6. Passes(c)
  BY <1>0, <1>2, <1>5 DEF Passes, Updating
<1>7. CallsBack(c)
  BY <1>0, <1>2, <1>t DEF CallsBack
<1> QED
  BY <1>4, <1>6, <1>7, PassesOK

\* A message is queued in an entry, either the first of the free ones or a new one.
QueuesMsg(c, e) ==
  /\ UNCHANGED <<pool, got, checked, lost, called>> /\ queued' = queued + 1
  /\ e \in 1..Entries /\ entry'[e].id = queued + 1
  /\ entry'[e].kind = "async" => ~entry'[e].extended
  /\ \A x \in 1..Entries \ {e} : entry'[x] = entry[x]
  /\ \/ /\ msg_free_list # <<>> /\ e = Head(msg_free_list)
        /\ msg_free_list' = Tail(msg_free_list) /\ ~entry'[e].extended
     \/ e \notin Linked /\ msg_free_list' = msg_free_list
  /\ msg_pending_list' = Append(msg_pending_list, e)
  /\ Only(c) /\ at[c] = "opal" /\ at'[c] = "update" /\ call'[c].id = 0

\* _opal_queue_msg queues one, in an entry of the free list or in a new one.
LEMMA QueueStep ==
  ASSUME MsgInv, NEW c \in CPUs, _opal_queue_msg(c)
  PROVE  MsgTypes' /\ LocksOK' /\ BitsOK' /\ \E e \in 1..Entries : QueuesMsg(c, e)
<1>0. /\ UNCHANGED <<pool, msgq, opal_pending_events, irq, token, known, responses, got, checked, lost,
                     called>>
      /\ queued' = queued + 1 /\ queued < MaxMsgs /\ at[c] = "opal" /\ Free("opal_msg_lock")
      /\ Update(c, "opal_msg_lock", Msg, TRUE, Idle)
  BY DEF _opal_queue_msg
<1>t. MsgTypes /\ Idle \in Calls /\ Idle.id = 0 /\ queued \in 0..MaxMsgs /\ MaxMsgs \in Nat
      /\ msg_free_list \in Seq(1..Entries) /\ msg_pending_list \in Seq(1..Entries)
      /\ entry \in [1..Entries -> EntryType]
  BY TypeFacts DEF MsgInv
<1>k. PICK kind \in Kinds : \E e \in NewEntry(kind) :
        /\ entry' = [entry EXCEPT ![e] =
             [id |-> queued + 1, kind |-> kind,
              extended |-> kind = "long" \/ (@.extended /\ e \in Linked)]]
        /\ msg_free_list' = IF e \in Linked THEN Tail(msg_free_list) ELSE msg_free_list
        /\ msg_pending_list' = Append(msg_pending_list, e)
  BY DEF _opal_queue_msg
<1>1. PICK e \in NewEntry(kind) :
        /\ entry' = [entry EXCEPT ![e] =
             [id |-> queued + 1, kind |-> kind,
              extended |-> kind = "long" \/ (entry[e].extended /\ e \in Linked)]]
        /\ msg_free_list' = IF e \in Linked THEN Tail(msg_free_list) ELSE msg_free_list
        /\ msg_pending_list' = Append(msg_pending_list, e)
  BY <1>k
<1>2. \/ kind # "long" /\ msg_free_list # <<>> /\ e = Head(msg_free_list)
      \/ e \in 1..Entries /\ e \notin Linked
  BY <1>1 DEF NewEntry
<1>3. /\ msg_free_list # <<>> => /\ Head(msg_free_list) \in ToSet(msg_free_list)
                                 /\ Tail(msg_free_list) \in Seq(1..Entries)
      /\ ToSet(msg_free_list) \subseteq 1..Entries
      /\ \A x \in ToSet(msg_free_list) : ~entry[x].extended
  BY <1>t, PopFacts, ToSetSeq DEF MsgInv, EntriesOK
<1>4. e \in 1..Entries
  BY <1>2, <1>3
<1>5. \/ /\ msg_free_list # <<>> /\ e = Head(msg_free_list) /\ kind # "long"
         /\ msg_free_list' = Tail(msg_free_list) /\ ~entry[e].extended
      \/ e \notin Linked /\ msg_free_list' = msg_free_list
  BY <1>1, <1>2, <1>3 DEF Linked
<1> DEFINE new == [id |-> queued + 1, kind |-> kind,
                   extended |-> kind = "long" \/ (entry[e].extended /\ e \in Linked)]
<1>6. /\ new \in EntryType /\ new.id = queued + 1 /\ new.kind = kind
      /\ new.extended <=> kind = "long" \/ (entry[e].extended /\ e \in Linked)
  <2>1. queued + 1 \in 0..MaxMsgs
    BY <1>0, <1>t
  <2> QED
    BY <2>1 DEF EntryType
<1>7. entry' = [entry EXCEPT ![e] = new]
  BY <1>1
<1> HIDE DEF new
<1>8. /\ entry' \in [1..Entries -> EntryType] /\ entry'[e] = new
      /\ \A x \in 1..Entries \ {e} : entry'[x] = entry[x]
  BY <1>4, <1>6, <1>7, <1>t
<1>9. /\ entry'[e].kind = "async" => ~entry'[e].extended
      /\ kind # "long" /\ ~entry[e].extended => ~entry'[e].extended
      /\ kind # "long" /\ e \notin Linked => ~entry'[e].extended
  BY <1>6, <1>8, <1>5
<1>10. msg_pending_list' \in Seq(1..Entries) /\ msg_pending_list' # <<>>
       /\ msg_free_list' \in Seq(1..Entries)
  <2>1. msg_pending_list' = Append(msg_pending_list, e)
    BY <1>1
  <2>2. msg_pending_list' \in Seq(1..Entries) /\ msg_pending_list' # <<>>
    BY <1>4, <1>t, <2>1
  <2> QED
    BY <1>3, <1>5, <1>t, <2>2
<1>11. /\ "opal_msg_lock" \in QueueLocks /\ Msg \in Events /\ Bit("opal_msg_lock") = Msg
       /\ (Queue("opal_msg_lock") = msg_pending_list)'
       /\ \A k \in QueueLocks \ {"opal_msg_lock"} : Queue(k)' = Queue(k)
  BY <1>0 DEF QueueLocks, Events, Bit, Queue
<1>12. /\ holder' \in [LockNames -> CPUs \cup {NoCpu}] /\ holder'["opal_msg_lock"] = c
       /\ \A k \in LockNames \ {"opal_msg_lock"} : holder'[k] = holder[k]
       /\ at' \in [CPUs -> Places] /\ at'[c] = "update" /\ Only(c)
       /\ call' \in [CPUs -> Calls] /\ call'[c].lock = "opal_msg_lock" /\ call'[c].event = Msg
       /\ call'[c].on /\ call'[c].id = Idle.id
  <2>1. PICK on \in BOOLEAN : on = TRUE
    OBVIOUS
  <2>2. Update(c, "opal_msg_lock", Msg, on, Idle)
    BY <1>0, <2>1
  <2>3. /\ holder' \in [LockNames -> CPUs \cup {NoCpu}] /\ holder'["opal_msg_lock"] = c
        /\ \A k \in LockNames \ {"opal_msg_lock"} : holder'[k] = holder[k]
        /\ at' \in [CPUs -> Places] /\ at'[c] = "update" /\ Only(c)
        /\ call' \in [CPUs -> Calls] /\ call'[c].lock = "opal_msg_lock" /\ call'[c].event = Msg
        /\ call'[c].on = on /\ call'[c].id = Idle.id
    BY <1>11, <1>t, <2>2, UpdateFacts
  <2> QED
    BY <2>1, <2>3
<1>13. queued' \in 0..MaxMsgs
  BY <1>0, <1>t
<1>14. MsgTypes'
  BY <1>0, <1>8, <1>10, <1>12, <1>13, <1>t, TypeFacts, TypesNext
<1>15. Acquires(c, "opal_msg_lock")
  BY <1>0, <1>10, <1>11, <1>12 DEF Acquires
<1>16. QueuesMsg(c, e)
  BY <1>0, <1>1, <1>4, <1>5, <1>6, <1>8, <1>9, <1>12, <1>t DEF QueuesMsg
<1> QED
  BY <1>4, <1>11, <1>14, <1>15, <1>16, AcquiresOK

\* The message m in entry e is returned by opal_get_msg, or by opal_check_completion with or
\* without its contents.
Taken(e, m) ==
  \/ e = Head(msg_pending_list) /\ got' = Append(got, m) /\ UNCHANGED <<checked, lost>>
  \/ checked' = checked \cup {m} /\ UNCHANGED <<got, lost>>
  \/ lost' = lost \cup {m} /\ UNCHANGED <<got, checked>>

\* The message m is taken from its entry e, which goes to the free list unless it is an
\* extended one.
TakesMsg(c, e, m) ==
  /\ e \in ToSet(msg_pending_list) /\ m = entry[e].id
  /\ msg_pending_list' \in Seq(1..Entries) /\ Distinct(msg_pending_list')
  /\ Thinned(msg_pending_list', msg_pending_list)
  /\ ToSet(msg_pending_list') = ToSet(msg_pending_list) \ {e}
  /\ msg_free_list' = IF entry[e].extended THEN msg_free_list ELSE Cons(e, msg_free_list)
  /\ UNCHANGED <<entry, pool, queued, called>> /\ Taken(e, m)
  /\ Only(c) /\ at[c] = "os" /\ at'[c] \in {"update", "callback"} /\ call'[c].id = m

\* What follows, with args for the callback.
TakenWith(c, rest, args) ==
  IF rest = <<>> THEN Update(c, "opal_msg_lock", Msg, FALSE, args)
  ELSE call' = [call EXCEPT ![c] = args] /\ Goto(c, "callback") /\ UNCHANGED holder

\* The lock is kept to clear the event, or the callback is next.
LEMMA TakenFacts ==
  ASSUME MsgInv, NEW c \in CPUs, NEW args \in Calls, NEW rest, TakenWith(c, rest, args),
         rest = msg_pending_list', at[c] = "os", Free("opal_msg_lock"),
         msg_pending_list # <<>>, UNCHANGED <<msgq, opal_pending_events>>
  PROVE  /\ holder' \in [LockNames -> CPUs \cup {NoCpu}] /\ at' \in [CPUs -> Places]
         /\ call' \in [CPUs -> Calls] /\ Only(c) /\ at'[c] \in {"update", "callback"}
         /\ call'[c].id = args.id /\ LocksOK' /\ BitsOK'
<1>t. MsgTypes /\ holder \in [LockNames -> CPUs \cup {NoCpu}] /\ at \in [CPUs -> Places]
      /\ call \in [CPUs -> Calls]
  BY TypeFacts DEF MsgInv
<1>n. /\ "opal_msg_lock" \in QueueLocks /\ Msg \in Events /\ Bit("opal_msg_lock") = Msg
      /\ (Queue("opal_msg_lock") = msg_pending_list)' /\ Queue("opal_msg_lock") = msg_pending_list
      /\ \A k \in QueueLocks \ {"opal_msg_lock"} : Queue(k)' = Queue(k)
  BY DEF QueueLocks, Events, Bit, Queue
<1>1. CASE rest = <<>>
  <2>1. PICK on \in BOOLEAN : on = FALSE
    OBVIOUS
  <2>2. Update(c, "opal_msg_lock", Msg, on, args)
    BY <1>1, <2>1 DEF TakenWith
  <2>3. /\ holder' \in [LockNames -> CPUs \cup {NoCpu}] /\ holder'["opal_msg_lock"] = c
        /\ \A k \in LockNames \ {"opal_msg_lock"} : holder'[k] = holder[k]
        /\ at' \in [CPUs -> Places] /\ at'[c] = "update" /\ Only(c)
        /\ call' \in [CPUs -> Calls] /\ call'[c].lock = "opal_msg_lock" /\ call'[c].event = Msg
        /\ call'[c].on = on /\ call'[c].id = args.id
    BY <1>n, <1>t, <2>2, UpdateFacts
  <2>4. ~call'[c].on /\ msg_pending_list' = <<>>
    BY <1>1, <2>1, <2>3
  <2>5. Acquires(c, "opal_msg_lock")
    BY <1>n, <2>3, <2>4 DEF Acquires
  <2> QED
    BY <1>n, <2>3, <2>5, AcquiresOK
<1>2. CASE rest # <<>>
  <2>1. call' = [call EXCEPT ![c] = args] /\ at' = [at EXCEPT ![c] = "callback"]
        /\ holder' = holder
    BY <1>2 DEF TakenWith, Goto
  <2>2. /\ call' \in [CPUs -> Calls] /\ call'[c] = args /\ at' \in [CPUs -> Places]
        /\ at'[c] = "callback" /\ Only(c)
    BY <1>t, <2>1 DEF Places, Only
  <2>3. \A k \in QueueLocks :
          Queue(k)' = Queue(k) \/ (Free(k) /\ Queue(k) # <<>> /\ Queue(k)' # <<>>)
    BY <1>2, <1>n
  <2>4. Passes(c)
    BY <2>1, <2>2, <2>3 DEF Passes, Updating
  <2> QED
    BY <1>t, <2>1, <2>2, <2>4, PassesOK
<1> QED
  BY <1>1, <1>2

\* opal_get_msg with something pending, and opal_check_completion.
LEMMA TakeStep ==
  ASSUME MsgInv, NEW c \in CPUs,
         (opal_get_msg(c) /\ msg_pending_list # <<>>) \/ opal_check_completion(c)
  PROVE  MsgTypes' /\ LocksOK' /\ BitsOK' /\ \E e \in 1..Entries, m \in Nat : TakesMsg(c, e, m)
<1>t. /\ MsgTypes /\ Idle \in Calls /\ entry \in [1..Entries -> EntryType] /\ MaxMsgs \in Nat
      /\ msg_free_list \in Seq(1..Entries) /\ msg_pending_list \in Seq(1..Entries)
      /\ got \in Seq(Nat) /\ token \in [CPUs -> {"none", "call", "poll", "interrupt"}]
  BY TypeFacts DEF MsgInv
<1>d. /\ Distinct(msg_pending_list) /\ ToSet(msg_pending_list) \subseteq 1..Entries
      /\ ToSet(msg_free_list) \cap ToSet(msg_pending_list) = {} /\ Distinct(msg_free_list)
  BY <1>t, ToSetSeq DEF MsgInv, EntriesOK
<1>0. /\ UNCHANGED <<entry, pool, msgq, opal_pending_events, irq, known, queued, responses, called>>
      /\ at[c] = "os" /\ Free("opal_msg_lock") /\ token' = [token EXCEPT ![c] = "call"]
  BY DEF opal_get_msg, opal_check_completion
<1>1. \E e \in ToSet(msg_pending_list), status \in Statuses :
        /\ msg_pending_list' \in Seq(1..Entries) /\ Distinct(msg_pending_list')
        /\ Thinned(msg_pending_list', msg_pending_list)
        /\ ToSet(msg_pending_list') = ToSet(msg_pending_list) \ {e}
        /\ msg_free_list' = IF entry[e].extended THEN msg_free_list ELSE Cons(e, msg_free_list)
        /\ Taken(e, entry[e].id)
        /\ \E rest : rest = msg_pending_list' /\ taken(c, rest, e, status)
  <2>1. CASE opal_get_msg(c) /\ msg_pending_list # <<>>
    <3>1. PICK e : e = Head(msg_pending_list)
      OBVIOUS
    <3>2. /\ e \in ToSet(msg_pending_list) /\ Tail(msg_pending_list) \in Seq(1..Entries)
          /\ Distinct(Tail(msg_pending_list)) /\ Thinned(Tail(msg_pending_list), msg_pending_list)
          /\ ToSet(Tail(msg_pending_list)) = ToSet(msg_pending_list) \ {e}
      BY <1>d, <1>t, <2>1, <3>1, PopFacts
    <3>3. /\ msg_pending_list' = Tail(msg_pending_list) /\ msg_free_list' = Dispose(e)
          /\ got' = Append(got, entry[e].id) /\ UNCHANGED <<checked, lost>>
          /\ \E status \in {"OPAL_SUCCESS", "OPAL_PARTIAL"} :
               taken(c, Tail(msg_pending_list), e, status)
      BY <2>1, <3>1 DEF opal_get_msg
    <3>4. PICK status \in Statuses : taken(c, Tail(msg_pending_list), e, status)
      BY <3>3 DEF Statuses
    <3>5. Taken(e, entry[e].id)
      BY <3>1, <3>3 DEF Taken
    <3> QED
      BY <3>2, <3>3, <3>4, <3>5 DEF Dispose
  <2>2. CASE opal_check_completion(c)
    <3>1. PICK e \in ToSet(msg_pending_list) :
            /\ entry[e].kind = "async" /\ msg_pending_list' = RemoveFirst(msg_pending_list, e)
            /\ msg_free_list' = Cons(e, msg_free_list)
            /\ \/ checked' = checked \cup {entry[e].id} /\ UNCHANGED lost
               \/ lost' = lost \cup {entry[e].id} /\ UNCHANGED checked
            /\ taken(c, RemoveFirst(msg_pending_list, e), e, "OPAL_SUCCESS")
      BY <2>2 DEF opal_check_completion
    <3>2. got' = got
      BY <2>2 DEF opal_check_completion
    <3>5. Taken(e, entry[e].id)
      BY <3>1, <3>2 DEF Taken
    <3>3. ~entry[e].extended
      BY <3>1 DEF MsgInv, EntriesOK
    <3>4. /\ RemoveFirst(msg_pending_list, e) \in Seq(1..Entries)
          /\ Distinct(RemoveFirst(msg_pending_list, e))
          /\ Thinned(RemoveFirst(msg_pending_list, e), msg_pending_list)
          /\ ToSet(RemoveFirst(msg_pending_list, e)) = ToSet(msg_pending_list) \ {e}
      BY <1>d, <1>t, DelFacts
    <3> QED
      BY <3>1, <3>3, <3>4, <3>5 DEF Statuses
  <2> QED
    BY <2>1, <2>2
<1>2. PICK e \in ToSet(msg_pending_list), status \in Statuses :
        /\ msg_pending_list' \in Seq(1..Entries) /\ Distinct(msg_pending_list')
        /\ Thinned(msg_pending_list', msg_pending_list)
        /\ ToSet(msg_pending_list') = ToSet(msg_pending_list) \ {e}
        /\ msg_free_list' = IF entry[e].extended THEN msg_free_list ELSE Cons(e, msg_free_list)
        /\ Taken(e, entry[e].id)
        /\ \E rest : rest = msg_pending_list' /\ taken(c, rest, e, status)
  BY <1>1
<1>3. PICK m : m = entry[e].id
  OBVIOUS
<1>4. e \in 1..Entries /\ m \in 0..MaxMsgs /\ m \in Nat /\ msg_pending_list # <<>>
      /\ e \notin ToSet(msg_free_list)
  <2>1. e \in 1..Entries /\ entry[e] \in EntryType
    BY <1>d, <1>t
  <2>2. m \in 0..MaxMsgs
    BY <1>3, <2>1 DEF EntryType
  <2>3. msg_pending_list # <<>>
    BY <1>t, ToSetSeq
  <2> QED
    BY <1>d, <1>t, <2>1, <2>2, <2>3
<1>5. PICK args : args = [Idle EXCEPT !.e = e, !.id = m, !.status = status]
  OBVIOUS
<1>6. args \in Calls /\ args.id = m
  <2>1. e \in 0..Entries
    BY <1>4
  <2> QED
    BY <1>4, <1>5, <1>t, <2>1 DEF Calls
<1>7. PICK rest : rest = msg_pending_list' /\ taken(c, rest, e, status)
  BY <1>2
<1>8. /\ holder' \in [LockNames -> CPUs \cup {NoCpu}] /\ at' \in [CPUs -> Places]
      /\ call' \in [CPUs -> Calls] /\ Only(c) /\ at'[c] \in {"update", "callback"}
      /\ call'[c].id = args.id /\ LocksOK' /\ BitsOK'
  <2>1. TakenWith(c, rest, args)
    BY <1>3, <1>5, <1>7 DEF taken, TakenWith
  <2> QED
    BY <1>0, <1>4, <1>6, <1>7, <2>1, TakenFacts
<1>9. entry' = entry
  BY <1>0
<1>10. msg_free_list' \in Seq(1..Entries)
  BY <1>2, <1>4, <1>d, <1>t, PushFacts
<1>11. got' \in Seq(Nat)
  <2>1. got' = got \/ got' = Append(got, m)
    BY <1>2, <1>3 DEF Taken
  <2>2. Append(got, m) \in Seq(Nat)
    BY <1>4, <1>t
  <2> QED
    BY <1>t, <2>1, <2>2
<1>12. token' \in [CPUs -> {"none", "call", "poll", "interrupt"}]
  BY <1>0, <1>t
<1>13. MsgTypes'
  BY <1>0, <1>2, <1>8, <1>9, <1>10, <1>11, <1>12, <1>t, TypeFacts, TypesNext
<1>14. TakesMsg(c, e, m)
  BY <1>0, <1>2, <1>3, <1>6, <1>8, <1>9 DEF TakesMsg
<1> QED
  BY <1>4, <1>8, <1>13, <1>14

-----------------------------------------------------------------------------
(* The lists. *)

\* Adding to the end of a list.
LEMMA AppendSet ==
  ASSUME NEW T, NEW s \in Seq(T), NEW t \in T
  PROVE  ToSet(Append(s, t)) = ToSet(s) \cup {t}
<1>1. /\ Append(s, t) \in Seq(T) /\ Len(Append(s, t)) = Len(s) + 1 /\ Len(s) \in Nat
      /\ Append(s, t)[Len(s) + 1] = t /\ \A i \in 1..Len(s) : Append(s, t)[i] = s[i]
  OBVIOUS
<1>2. ToSet(s) = {s[i] : i \in 1..Len(s)}
  BY ToSetSeq
<1>3. ToSet(Append(s, t)) = {Append(s, t)[i] : i \in 1..Len(s) + 1}
  <2>1. ToSet(Append(s, t)) = {Append(s, t)[i] : i \in 1..Len(Append(s, t))}
    BY <1>1, ToSetSeq
  <2> QED
    BY <1>1, <2>1
<1>4. 1..Len(s) + 1 = 1..Len(s) \cup {Len(s) + 1}
  BY <1>1
<1> QED
  BY <1>1, <1>2, <1>3, <1>4

\* The entries of the lists; no two pending messages have the same number, and none has 0.
LEMMA ListFacts ==
  ASSUME MsgInv
  PROVE  /\ msg_free_list \in Seq(1..Entries) /\ msg_pending_list \in Seq(1..Entries)
         /\ ToSet(msg_free_list) \subseteq 1..Entries /\ ToSet(msg_pending_list) \subseteq 1..Entries
         /\ \A x, y \in ToSet(msg_pending_list) : entry[x].id = entry[y].id => x = y
         /\ \A x \in ToSet(msg_pending_list) : entry[x].id \in 1..queued /\ entry[x].id \in Waiting
         /\ IsFiniteSet(1..Entries) /\ queued \in Nat
<1>1. /\ msg_free_list \in Seq(1..Entries) /\ msg_pending_list \in Seq(1..Entries)
      /\ queued \in 0..MaxMsgs /\ MaxMsgs \in Nat
  BY TypeFacts DEF MsgInv
<1>2. ToSet(msg_free_list) \subseteq 1..Entries /\ ToSet(msg_pending_list) \subseteq 1..Entries
  BY <1>1, ToSetSeq
<1>3. \A x \in ToSet(msg_pending_list) : entry[x].id \in 1..queued /\ entry[x].id \in Waiting
  BY DEF MsgInv, OrderOK, Waiting
<1>4. ASSUME NEW x \in ToSet(msg_pending_list), NEW y \in ToSet(msg_pending_list),
             entry[x].id = entry[y].id
      PROVE  x = y
  <2>1. PICK i \in 1..Len(msg_pending_list), j \in 1..Len(msg_pending_list) :
          x = msg_pending_list[i] /\ y = msg_pending_list[j]
    BY <1>1, ToSetSeq
  <2>2. entry[x].id \in Nat
    BY <1>1, <1>3
  <2>3. ~(i < j) /\ ~(j < i)
    BY <1>4, <2>1, <2>2 DEF MsgInv, OrderOK, Rising
  <2>4. Len(msg_pending_list) \in Nat
    BY <1>1
  <2> QED
    BY <2>1, <2>3, <2>4
<1>5. IsFiniteSet(1..Entries)
  BY FS_Interval, OpalMsgAssumption
<1> QED
  BY <1>1, <1>2, <1>3, <1>4, <1>5

\* No entry of the pool is lost when the plain entries stay linked.
LEMMA PoolKept ==
  ASSUME MsgInv, MsgTypes', pool' = pool, Plain \subseteq Plain'
  PROVE  Cardinality(Plain') >= pool'
<1>1. /\ (msg_free_list \in Seq(1..Entries))' /\ (msg_pending_list \in Seq(1..Entries))'
  BY DEF MsgTypes, TypeOK
<1>2. ToSet(msg_free_list') \subseteq 1..Entries /\ ToSet(msg_pending_list') \subseteq 1..Entries
  BY <1>1, ToSetSeq
<1>3. Plain' \subseteq 1..Entries
  BY <1>2 DEF Plain, Linked
<1>4. IsFiniteSet(Plain')
  BY <1>3, ListFacts, FS_Subset
<1>5. IsFiniteSet(Plain) /\ Cardinality(Plain) <= Cardinality(Plain')
  BY <1>4, FS_Subset
<1>6. Cardinality(Plain) \in Nat /\ Cardinality(Plain') \in Nat
  BY <1>4, <1>5, FS_CardinalityType
<1>7. Cardinality(Plain) >= pool /\ pool \in Nat
  BY DEF MsgInv, EntriesOK, MsgTypes
<1> QED
  BY <1>5, <1>6, <1>7

\* Queueing.
LEMMA QueueEntries ==
  ASSUME MsgInv, MsgTypes', NEW c \in CPUs, NEW e \in 1..Entries, QueuesMsg(c, e)
  PROVE  EntriesOK' /\ ToSet(msg_pending_list') = ToSet(msg_pending_list) \cup {e}
         /\ e \notin ToSet(msg_pending_list)
<1>1. /\ msg_free_list \in Seq(1..Entries) /\ msg_pending_list \in Seq(1..Entries)
      /\ ToSet(msg_free_list) \subseteq 1..Entries /\ ToSet(msg_pending_list) \subseteq 1..Entries
  BY ListFacts
<1>2. /\ Distinct(msg_free_list) /\ Distinct(msg_pending_list)
      /\ ToSet(msg_free_list) \cap ToSet(msg_pending_list) = {}
      /\ \A x \in ToSet(msg_free_list) : ~entry[x].extended
      /\ \A x \in ToSet(msg_pending_list) : entry[x].kind = "async" => ~entry[x].extended
  BY DEF MsgInv, EntriesOK
<1>3. /\ \A x \in 1..Entries \ {e} : entry'[x] = entry[x]
      /\ entry'[e].kind = "async" => ~entry'[e].extended
      /\ msg_pending_list' = Append(msg_pending_list, e) /\ pool' = pool
  BY DEF QueuesMsg
<1>4. /\ e \notin ToSet(msg_pending_list) /\ Distinct(msg_free_list')
      /\ ToSet(msg_free_list') \subseteq ToSet(msg_free_list) \ {e}
      /\ ToSet(msg_free_list) \subseteq ToSet(msg_free_list') \cup {e}
      /\ e \in Linked => ~entry'[e].extended
  <2>1. CASE /\ msg_free_list # <<>> /\ e = Head(msg_free_list) /\ ~entry'[e].extended
             /\ msg_free_list' = Tail(msg_free_list)
    <3>1. /\ Distinct(Tail(msg_free_list)) /\ e \in ToSet(msg_free_list)
          /\ ToSet(Tail(msg_free_list)) = ToSet(msg_free_list) \ {e}
      BY <1>1, <1>2, <2>1, PopFacts
    <3> QED
      BY <1>2, <2>1, <3>1
  <2>2. CASE e \notin Linked /\ msg_free_list' = msg_free_list
    BY <1>2, <2>2 DEF Linked
  <2> QED
    BY <2>1, <2>2 DEF QueuesMsg
<1>5. /\ Distinct(msg_pending_list')
      /\ ToSet(msg_pending_list') = ToSet(msg_pending_list) \cup {e}
  <2>1. /\ Distinct(Append(msg_pending_list, e))
        /\ ToSet(Append(msg_pending_list, e)) = ToSet(msg_pending_list) \cup {e}
    <3>1. PICK T : T = 1..Entries
      OBVIOUS
    <3>2. /\ msg_pending_list \in Seq(T) /\ e \in T
          /\ e \notin ToSet(msg_pending_list) /\ Distinct(msg_pending_list)
      BY <1>1, <1>2, <1>4, <3>1
    <3> QED
      BY ONLY <3>2, AppendFacts
  <2> QED
    BY <1>3, <2>1
<1>6. ASSUME NEW x \in Plain PROVE x \in Plain'
  <2>1. x \in ToSet(msg_free_list) \cup ToSet(msg_pending_list) /\ ~entry[x].extended
    BY DEF Plain, Linked
  <2>2. x \in ToSet(msg_free_list') \cup ToSet(msg_pending_list')
    BY <1>4, <1>5, <2>1
  <2>3. ~entry'[x].extended
    BY <1>1, <1>3, <1>4, <2>1 DEF Linked
  <2> QED
    BY <2>2, <2>3 DEF Plain, Linked
<1>7. Cardinality(Plain') >= pool'
  BY <1>3, <1>6, PoolKept
<1>8. /\ ToSet(msg_free_list') \cap ToSet(msg_pending_list') = {}
      /\ \A x \in ToSet(msg_free_list') : ~entry'[x].extended
      /\ \A x \in ToSet(msg_pending_list') : entry'[x].kind = "async" => ~entry'[x].extended
  BY <1>1, <1>2, <1>3, <1>4, <1>5
<1>9. EntriesOK'
  BY <1>4, <1>5, <1>7, <1>8 DEF EntriesOK, Distinct
<1> QED
  BY <1>4, <1>5, <1>9

\* Taking.
LEMMA TakeEntries ==
  ASSUME MsgInv, MsgTypes', NEW c \in CPUs, NEW e \in 1..Entries, NEW m \in Nat,
         TakesMsg(c, e, m)
  PROVE  EntriesOK'
<1>1. /\ msg_free_list \in Seq(1..Entries) /\ msg_pending_list \in Seq(1..Entries)
      /\ ToSet(msg_free_list) \subseteq 1..Entries /\ ToSet(msg_pending_list) \subseteq 1..Entries
  BY ListFacts
<1>2. /\ Distinct(msg_free_list) /\ Distinct(msg_pending_list)
      /\ ToSet(msg_free_list) \cap ToSet(msg_pending_list) = {}
      /\ \A x \in ToSet(msg_free_list) : ~entry[x].extended
      /\ \A x \in ToSet(msg_pending_list) : entry[x].kind = "async" => ~entry[x].extended
  BY DEF MsgInv, EntriesOK
<1>3. /\ entry' = entry /\ e \in ToSet(msg_pending_list)
      /\ ToSet(msg_pending_list') = ToSet(msg_pending_list) \ {e}
      /\ Distinct(msg_pending_list') /\ pool' = pool
      /\ msg_free_list' = IF entry[e].extended THEN msg_free_list ELSE Cons(e, msg_free_list)
  BY DEF TakesMsg
<1>4. /\ Distinct(msg_free_list') /\ ToSet(msg_free_list) \subseteq ToSet(msg_free_list')
      /\ ToSet(msg_free_list') \subseteq ToSet(msg_free_list) \cup {e}
      /\ IF entry[e].extended THEN e \notin ToSet(msg_free_list') ELSE e \in ToSet(msg_free_list')
  <2>1. CASE entry[e].extended
    BY <1>2, <1>3, <2>1
  <2>2. CASE ~entry[e].extended
    <3>1. e \notin ToSet(msg_free_list)
      BY <1>2, <1>3
    <3>2. /\ Distinct(Cons(e, msg_free_list))
          /\ ToSet(Cons(e, msg_free_list)) = ToSet(msg_free_list) \cup {e}
      <4>1. PICK T : T = 1..Entries
        OBVIOUS
      <4>2. msg_free_list \in Seq(T) /\ e \in T /\ Distinct(msg_free_list)
        BY <1>1, <1>2, <4>1
      <4> QED
        BY ONLY <3>1, <4>2, PushFacts
    <3> QED
      BY <1>3, <2>2, <3>2
  <2> QED
    BY <2>1, <2>2
<1>6. ASSUME NEW x \in Plain PROVE x \in Plain'
  <2>1. x \in ToSet(msg_free_list) \cup ToSet(msg_pending_list) /\ ~entry[x].extended
    BY DEF Plain, Linked
  <2>2. x \in ToSet(msg_free_list') \cup ToSet(msg_pending_list')
    BY <1>3, <1>4, <2>1
  <2>3. ~entry'[x].extended
    BY <1>1, <1>3, <2>1
  <2> QED
    BY <2>2, <2>3 DEF Plain, Linked
<1>7. Cardinality(Plain') >= pool'
  BY <1>3, <1>6, PoolKept
<1>8. /\ ToSet(msg_free_list') \cap ToSet(msg_pending_list') = {}
      /\ \A x \in ToSet(msg_free_list') : ~entry'[x].extended
      /\ \A x \in ToSet(msg_pending_list') : entry'[x].kind = "async" => ~entry'[x].extended
  BY <1>1, <1>2, <1>3, <1>4
<1> QED
  BY <1>3, <1>4, <1>7, <1>8 DEF EntriesOK, Distinct

-----------------------------------------------------------------------------
(* The order of the messages. *)

\* Queueing: the new message is the last.
LEMMA QueueOrder ==
  ASSUME MsgInv, MsgTypes', NEW c \in CPUs, NEW e \in 1..Entries, QueuesMsg(c, e)
  PROVE  OrderOK'
<1>1. /\ ToSet(msg_pending_list') = ToSet(msg_pending_list) \cup {e}
      /\ e \notin ToSet(msg_pending_list)
  BY QueueEntries
<1>2. /\ msg_pending_list \in Seq(1..Entries) /\ queued \in Nat
      /\ ToSet(msg_pending_list) \subseteq 1..Entries
      /\ \A x \in ToSet(msg_pending_list) : entry[x].id \in 1..queued
  BY ListFacts
<1>3. /\ \A x \in 1..Entries \ {e} : entry'[x] = entry[x]
      /\ entry'[e].id = queued + 1 /\ queued' = queued + 1 /\ UNCHANGED <<got, checked, lost>>
      /\ msg_pending_list' = Append(msg_pending_list, e)
  BY DEF QueuesMsg
<1>4. \A x \in ToSet(msg_pending_list) : entry'[x].id = entry[x].id
  BY <1>1, <1>2, <1>3
<1>5. Waiting' = Waiting \cup {queued + 1}
  <2>1. Waiting' = {entry'[x].id : x \in ToSet(msg_pending_list')}
    BY DEF Waiting
  <2>2. Waiting = {entry[x].id : x \in ToSet(msg_pending_list)}
    BY DEF Waiting
  <2>3. Waiting' = {entry'[x].id : x \in ToSet(msg_pending_list) \cup {e}}
    BY <1>1, <2>1
  <2> QED
    BY <1>3, <1>4, <2>2, <2>3
<1>6. Given' = Given
  BY <1>3 DEF Given
<1>7. /\ Rising(entry, msg_pending_list)
      /\ \A i, j \in 1..Len(got) : i < j => got[i] < got[j]
      /\ \A x \in ToSet(got), y \in Waiting : x < y
      /\ Apart /\ Waiting \cap Given = {}
      /\ Waiting \cup Given = 1..queued
  BY DEF MsgInv, OrderOK
<1>8. /\ queued + 1 \notin 1..queued /\ 1..queued + 1 = 1..queued \cup {queued + 1}
      /\ \A x \in 1..queued : x < queued + 1
  BY <1>2
<1>9. Rising(entry', Append(msg_pending_list, e))
  <2> DEFINE s == Append(msg_pending_list, e)
  <2>1. /\ Len(s) = Len(msg_pending_list) + 1 /\ Len(msg_pending_list) \in Nat
        /\ s[Len(msg_pending_list) + 1] = e
        /\ \A i \in 1..Len(msg_pending_list) : s[i] = msg_pending_list[i]
    BY <1>2
  <2>2. \A i \in 1..Len(msg_pending_list) : msg_pending_list[i] \in ToSet(msg_pending_list)
    BY <1>2, ToSetSeq
  <2> HIDE DEF s
  <2>3. ASSUME NEW i \in 1..Len(s), NEW j \in 1..Len(s), i < j
        PROVE  entry'[s[i]].id < entry'[s[j]].id
    <3>1. i \in 1..Len(msg_pending_list)
      BY <2>1, <2>3
    <3>2. s[i] = msg_pending_list[i] /\ s[i] \in ToSet(msg_pending_list)
      BY <2>1, <2>2, <3>1
    <3>3. CASE j = Len(msg_pending_list) + 1
      <4>1. s[j] = e /\ entry'[s[i]].id = entry[s[i]].id /\ entry[s[i]].id \in 1..queued
        BY <1>2, <1>4, <2>1, <3>2, <3>3
      <4> QED
        BY <1>3, <1>8, <4>1
    <3>4. CASE j # Len(msg_pending_list) + 1
      <4>1. j \in 1..Len(msg_pending_list)
        BY <2>1, <3>4
      <4>2. s[j] = msg_pending_list[j] /\ s[j] \in ToSet(msg_pending_list)
        BY <2>1, <2>2, <4>1
      <4>3. entry[s[i]].id < entry[s[j]].id
        BY <1>7, <2>3, <3>1, <3>2, <4>1, <4>2 DEF Rising
      <4> QED
        BY <1>4, <3>2, <4>2, <4>3
    <3> QED
      BY <3>3, <3>4
  <2>4. Rising(entry', s)
    BY <2>3 DEF Rising
  <2> QED
    BY <2>4 DEF s
<1>a. Rising(entry', msg_pending_list')
  BY <1>3, <1>9
<1>b. \A i, j \in 1..Len(got') : i < j => got'[i] < got'[j]
  BY <1>3, <1>7
<1>c. \A x \in ToSet(got'), y \in Waiting' : x < y
  <2>1. ToSet(got) \subseteq 1..queued
    BY <1>7 DEF Given
  <2> QED
    BY <1>3, <1>5, <1>7, <1>8, <2>1
<1>d. Waiting' \cap Given' = {} /\ Waiting' \cup Given' = 1..queued'
  BY <1>3, <1>5, <1>6, <1>7, <1>8
<1>e. Apart'
  BY <1>3, <1>7 DEF Apart
<1> QED
  BY <1>a, <1>b, <1>c, <1>d, <1>e DEF OrderOK, Rising

\* The first pending message is the oldest.
LEMMA HeadOldest ==
  ASSUME MsgInv, NEW e \in ToSet(msg_pending_list), e = Head(msg_pending_list),
         NEW x \in ToSet(msg_pending_list), x # e
  PROVE  entry[e].id < entry[x].id
<1>1. msg_pending_list \in Seq(1..Entries)
  BY ListFacts
<1>2. /\ Len(msg_pending_list) \in Nat
      /\ ToSet(msg_pending_list) = {msg_pending_list[i] : i \in 1..Len(msg_pending_list)}
  BY <1>1, ToSetSeq
<1>3. e = msg_pending_list[1] /\ 1 \in 1..Len(msg_pending_list)
  BY <1>1, <1>2
<1>4. PICK i \in 1..Len(msg_pending_list) : x = msg_pending_list[i]
  BY <1>2
<1>5. 1 < i
  BY <1>2, <1>3, <1>4
<1> QED
  BY <1>3, <1>4, <1>5 DEF MsgInv, OrderOK, Rising

\* Taking: the message is no longer pending, and the host has it.
LEMMA TakeOrder ==
  ASSUME MsgInv, MsgTypes', NEW c \in CPUs, NEW e \in 1..Entries, NEW m \in Nat,
         TakesMsg(c, e, m)
  PROVE  OrderOK' /\ Given' = Given \cup {m} /\ m \notin Given /\ m # 0
<1>1. /\ e \in ToSet(msg_pending_list) /\ m = entry[e].id
      /\ msg_pending_list' \in Seq(1..Entries)
      /\ Thinned(msg_pending_list', msg_pending_list)
      /\ ToSet(msg_pending_list') = ToSet(msg_pending_list) \ {e}
      /\ entry' = entry /\ queued' = queued
  BY DEF TakesMsg
<1>2. /\ msg_pending_list \in Seq(1..Entries) /\ queued \in Nat
      /\ ToSet(msg_pending_list) \subseteq 1..Entries
      /\ \A x \in ToSet(msg_pending_list) : entry[x].id \in 1..queued /\ entry[x].id \in Waiting
      /\ \A x, y \in ToSet(msg_pending_list) : entry[x].id = entry[y].id => x = y
  BY ListFacts
<1>3. /\ Rising(entry, msg_pending_list)
      /\ \A i, j \in 1..Len(got) : i < j => got[i] < got[j]
      /\ \A x \in ToSet(got), y \in Waiting : x < y
      /\ Apart /\ Waiting \cap Given = {}
      /\ Waiting \cup Given = 1..queued
  BY DEF MsgInv, OrderOK
<1>4. \A x \in ToSet(msg_pending_list') : entry'[x].id = entry[x].id
  BY <1>1, <1>2
<1>5. Waiting' = Waiting \ {m}
  <2>1. Waiting' = {entry'[x].id : x \in ToSet(msg_pending_list')}
    BY DEF Waiting
  <2>2. Waiting = {entry[x].id : x \in ToSet(msg_pending_list)}
    BY DEF Waiting
  <2>3. Waiting' = {entry[x].id : x \in ToSet(msg_pending_list) \ {e}}
    BY <1>1, <1>4, <2>1
  <2> QED
    BY <1>1, <1>2, <2>2, <2>3
<1>6. m \in Waiting /\ m \in 1..queued /\ m \notin Given /\ m # 0
  BY <1>1, <1>2, <1>3
<1>7. Rising(entry', msg_pending_list')
  BY <1>1, <1>2, <1>3, <1>4, ThinnedRising
<1>8. got \in Seq(Nat)
  BY TypeFacts DEF MsgInv
<1>9. /\ \A i, j \in 1..Len(got') : i < j => got'[i] < got'[j]
      /\ \A x \in ToSet(got'), y \in Waiting' : x < y
      /\ Apart' /\ Given' = Given \cup {m}
  <2>1. CASE e = Head(msg_pending_list) /\ got' = Append(got, m) /\ UNCHANGED <<checked, lost>>
    <3>1. ToSet(Append(got, m)) = ToSet(got) \cup {m}
      BY <1>8, AppendSet
    <3>2. ToSet(got') = ToSet(got) \cup {m}
      BY <2>1, <3>1
    <3>3. \A y \in Waiting' : m < y
      <4> SUFFICES ASSUME NEW x \in ToSet(msg_pending_list), x # e PROVE m < entry[x].id
        BY <1>1, <1>4 DEF Waiting
      <4> QED
        BY <1>1, <2>1, HeadOldest
    <3>4. \A x \in ToSet(got'), y \in Waiting' : x < y
      BY <1>3, <1>5, <3>2, <3>3
    <3>5. m \notin checked /\ m \notin lost
      BY <1>6 DEF Given
    <3>6. Apart'
      BY <1>3, <2>1, <3>2, <3>5 DEF Apart
    <3>7. Given' = Given \cup {m}
      BY <2>1, <3>2 DEF Given
    <3>8. ASSUME NEW i \in 1..Len(Append(got, m)), NEW j \in 1..Len(Append(got, m)), i < j
          PROVE  Append(got, m)[i] < Append(got, m)[j]
      <4>1. /\ Len(Append(got, m)) = Len(got) + 1 /\ Len(got) \in Nat
            /\ Append(got, m)[Len(got) + 1] = m
            /\ \A k \in 1..Len(got) : Append(got, m)[k] = got[k]
        BY <1>8
      <4>2. \A k \in 1..Len(got) : got[k] < m
        <5>1. \A k \in 1..Len(got) : got[k] \in ToSet(got)
          BY <1>8, ToSetSeq
        <5> QED
          BY <1>3, <1>6, <5>1
      <4>3. i \in 1..Len(got) /\ (j \in 1..Len(got) \/ j = Len(got) + 1)
        BY <3>8, <4>1
      <4> QED
        BY <1>3, <3>8, <4>1, <4>2, <4>3
    <3> QED
      BY <2>1, <3>4, <3>6, <3>7, <3>8
  <2>2. CASE \/ checked' = checked \cup {m} /\ UNCHANGED <<got, lost>>
             \/ lost' = lost \cup {m} /\ UNCHANGED <<got, checked>>
    <3>1. m \notin checked /\ m \notin ToSet(got) /\ m \notin lost
      BY <1>6 DEF Given
    <3>2. Given' = Given \cup {m}
      BY <2>2 DEF Given
    <3>3. Apart'
      BY <1>3, <2>2, <3>1 DEF Apart
    <3> QED
      BY <1>3, <1>5, <2>2, <3>2, <3>3
  <2> QED
    BY <2>1, <2>2 DEF TakesMsg, Taken
<1>a. Waiting' \cap Given' = {} /\ Waiting' \cup Given' = 1..queued'
  BY <1>1, <1>3, <1>5, <1>6, <1>9
<1> QED
  BY <1>6, <1>7, <1>9, <1>a DEF OrderOK, Rising

\* All other steps leave the messages alone.
LEMMA SameMessages ==
  ASSUME MsgInv, UNCHANGED <<msg_free_list, msg_pending_list, entry, pool, queued, got, checked, lost>>
  PROVE  EntriesOK' /\ OrderOK' /\ Given' = Given
<1>1. Plain' = Plain /\ Waiting' = Waiting /\ Given' = Given /\ (Apart <=> Apart')
  BY DEF Plain, Linked, Waiting, Given, Apart
<1>2. EntriesOK'
  BY <1>1 DEF MsgInv, EntriesOK, Distinct
<1>3. OrderOK'
  BY <1>1 DEF MsgInv, OrderOK, Rising
<1> QED
  BY <1>1, <1>2, <1>3

-----------------------------------------------------------------------------
(* The consumed callbacks. *)

\* Steps that neither take a message nor call a callback.
LEMMA SameDue ==
  ASSUME MsgInv, NEW c \in CPUs, Only(c), call'[c].id = call[c].id, called' = called,
         Given' = Given, at'[c] \in {"os", "opal"} => call[c].id = 0,
         at'[c] = "callback" => call[c].id # 0
  PROVE  DueOK'
<1>1. \A d \in CPUs : call'[d].id = call[d].id
  BY DEF Only
<1>2. Due' = Due
  BY <1>1 DEF Due
<1>3. ASSUME NEW d \in CPUs
      PROVE  /\ at'[d] \in {"os", "opal"} => call'[d].id = 0
             /\ at'[d] = "callback" => call'[d].id # 0
  BY <1>1 DEF MsgInv, DueOK, Only
<1>4. \A d \in Due : call'[d].id = call[d].id
  BY <1>1 DEF Due
<1>5. {call'[d].id : d \in Due} = {call[d].id : d \in Due}
  BY <1>4
<1>6. /\ \A b, d \in Due : call[b].id = call[d].id => b = d
      /\ \A d \in Due : \A x \in called : x[1] # call[d].id
      /\ Given = {x[1] : x \in called} \cup {call[d].id : d \in Due}
      /\ IsFiniteSet(called) /\ IsFiniteSet(Due)
      /\ Cardinality(called) + Cardinality(Due) = Cardinality(Given)
  BY DEF MsgInv, DueOK
<1>7. /\ \A b, d \in Due' : call'[b].id = call'[d].id => b = d
      /\ \A d \in Due' : \A x \in called' : x[1] # call'[d].id
  BY <1>2, <1>4, <1>6
<1>8. /\ Given' = {x[1] : x \in called'} \cup {call'[d].id : d \in Due'}
      /\ IsFiniteSet(called') /\ IsFiniteSet(Due')
      /\ Cardinality(called') + Cardinality(Due') = Cardinality(Given')
  BY <1>2, <1>5, <1>6
<1> QED
  BY <1>3, <1>7, <1>8 DEF DueOK

\* Taking a message makes its callback due.
LEMMA TakeDue ==
  ASSUME MsgInv, NEW c \in CPUs, NEW e \in 1..Entries, NEW m \in Nat, TakesMsg(c, e, m),
         Given' = Given \cup {m}, m \notin Given, m # 0
  PROVE  DueOK'
<1>1. /\ Only(c) /\ at[c] = "os" /\ at'[c] \in {"update", "callback"} /\ call'[c].id = m
      /\ called' = called
  BY DEF TakesMsg
<1>2. /\ \A b, d \in Due : call[b].id = call[d].id => b = d
      /\ \A d \in Due : \A x \in called : x[1] # call[d].id
      /\ Given = {x[1] : x \in called} \cup {call[d].id : d \in Due}
      /\ IsFiniteSet(called) /\ IsFiniteSet(Due)
      /\ Cardinality(called) + Cardinality(Due) = Cardinality(Given)
      /\ call[c].id = 0
  BY <1>1 DEF MsgInv, DueOK
<1>3. c \notin Due /\ Due' = Due \cup {c} /\ \A d \in Due : call'[d].id = call[d].id
  <2>1. c \notin Due
    BY <1>2 DEF Due
  <2>2. \A d \in CPUs \ {c} : call'[d] = call[d]
    BY <1>1 DEF Only
  <2> QED
    BY <1>1, <2>1, <2>2 DEF Due
<1>4. ASSUME NEW d \in CPUs
      PROVE  /\ at'[d] \in {"os", "opal"} => call'[d].id = 0
             /\ at'[d] = "callback" => call'[d].id # 0
  BY <1>1 DEF MsgInv, DueOK, Only
<1>5. /\ \A d \in Due : call[d].id \in Given /\ call[d].id # m
      /\ \A x \in called : x[1] \in Given /\ x[1] # m
  BY <1>2
<1>6. \A b, d \in Due' : call'[b].id = call'[d].id => b = d
  BY <1>1, <1>2, <1>3, <1>5
<1>7. \A d \in Due' : \A x \in called' : x[1] # call'[d].id
  BY <1>1, <1>2, <1>3, <1>5
<1>8. Given' = {x[1] : x \in called'} \cup {call'[d].id : d \in Due'}
  <2>1. {call'[d].id : d \in Due'} = {call[d].id : d \in Due} \cup {m}
    BY <1>1, <1>3
  <2> QED
    BY <1>1, <1>2, <2>1
<1>9. IsFiniteSet(called') /\ IsFiniteSet(Due') /\ Cardinality(Due') = Cardinality(Due) + 1
  BY <1>1, <1>2, <1>3, FS_AddElement
<1>a. IsFiniteSet(Given)
  <2>1. queued \in Nat /\ Given \subseteq 1..queued
    BY ListFacts DEF MsgInv, OrderOK
  <2>2. IsFiniteSet(1..queued)
    BY <2>1, FS_Interval
  <2> QED
    BY <2>1, <2>2, FS_Subset
<1>b. Cardinality(Given') = Cardinality(Given) + 1
  BY <1>a, FS_AddElement
<1>c. Cardinality(called) \in Nat /\ Cardinality(Due) \in Nat
  BY <1>2, FS_CardinalityType
<1>d. Cardinality(called') + Cardinality(Due') = Cardinality(Given')
  <2>1. Cardinality(called') = Cardinality(called)
    BY <1>1
  <2> QED
    BY <1>2, <1>9, <1>b, <1>c, <2>1
<1> QED
  BY <1>4, <1>6, <1>7, <1>8, <1>9, <1>d DEF DueOK

\* Calling it settles that.
LEMMA CallDue ==
  ASSUME MsgInv, NEW c \in CPUs, CallsBack(c), Given' = Given
  PROVE  DueOK'
<1> DEFINE m == call[c].id
           p == <<call[c].id, call[c].status>>
<1>1. /\ Only(c) /\ at[c] = "callback" /\ at'[c] = "opal" /\ call'[c].id = 0
      /\ called' = called \cup {p}
  BY DEF CallsBack
<1>2. /\ \A b, d \in Due : call[b].id = call[d].id => b = d
      /\ \A d \in Due : \A x \in called : x[1] # call[d].id
      /\ Given = {x[1] : x \in called} \cup {call[d].id : d \in Due}
      /\ IsFiniteSet(called) /\ IsFiniteSet(Due)
      /\ Cardinality(called) + Cardinality(Due) = Cardinality(Given)
      /\ m # 0
  BY <1>1 DEF MsgInv, DueOK
<1>p. p[1] = m
  OBVIOUS
<1> HIDE DEF p
<1>3. /\ c \in Due /\ Due' = Due \ {c}
      /\ \A d \in Due \ {c} : call'[d].id = call[d].id
  <2>1. c \in Due
    BY <1>2 DEF Due
  <2>2. \A d \in CPUs \ {c} : call'[d] = call[d]
    BY <1>1 DEF Only
  <2> QED
    BY <1>1, <2>1, <2>2 DEF Due
<1>4. ASSUME NEW d \in CPUs
      PROVE  /\ at'[d] \in {"os", "opal"} => call'[d].id = 0
             /\ at'[d] = "callback" => call'[d].id # 0
  BY <1>1 DEF MsgInv, DueOK, Only
<1>5. p \notin called
  BY <1>2, <1>3, <1>p
<1>6. \A b, d \in Due' : call'[b].id = call'[d].id => b = d
  BY <1>2, <1>3
<1>7. \A d \in Due' : \A x \in called' : x[1] # call'[d].id
  BY <1>1, <1>2, <1>3, <1>p
<1>8. Given' = {x[1] : x \in called'} \cup {call'[d].id : d \in Due'}
  <2>1. {x[1] : x \in called'} = {x[1] : x \in called} \cup {m}
    BY <1>1, <1>p
  <2>2. {call'[d].id : d \in Due'} \cup {m} = {call[d].id : d \in Due}
    BY <1>3
  <2>3. {call'[d].id : d \in Due'} \subseteq {call[d].id : d \in Due}
    BY <1>3
  <2> QED
    BY <1>2, <2>1, <2>2
<1>9. /\ IsFiniteSet(called') /\ Cardinality(called') = Cardinality(called) + 1
  BY <1>1, <1>2, <1>5, FS_AddElement
<1>a. IsFiniteSet(Due') /\ Cardinality(Due') = Cardinality(Due) - 1
  BY <1>2, <1>3, FS_RemoveElement
<1>b. Cardinality(called) \in Nat /\ Cardinality(Due) \in Nat
  BY <1>2, FS_CardinalityType
<1>c. Cardinality(called') + Cardinality(Due') = Cardinality(Given')
  <2>1. Cardinality(Given') = Cardinality(Given)
    OBVIOUS
  <2> QED
    BY <1>2, <1>9, <1>a, <1>b, <2>1
<1> QED
  BY <1>4, <1>6, <1>7, <1>8, <1>9, <1>a, <1>c DEF DueOK

-----------------------------------------------------------------------------
(* The invariant. *)

\* The queues are empty at boot, and the pool is on the free list.
LEMMA MsgInit == Init => MsgInv
<1> SUFFICES ASSUME Init PROVE MsgInv
  OBVIOUS
<1>0. /\ Entries \in Nat /\ Pool \in 1..Entries /\ MaxMsgs \in Nat /\ NoCpu \notin CPUs
  BY OpalMsgAssumption
<1>1. /\ pool \in {0, Pool} /\ msg_free_list = [i \in 1..pool |-> i]
      /\ msg_pending_list = <<>> /\ msgq = <<>> /\ opal_pending_events = {} /\ irq = FALSE
      /\ known = {} /\ queued = 0 /\ responses = 0 /\ got = <<>> /\ checked = {} /\ lost = {} /\ called = {}
  BY DEF Init
<1>2. /\ entry = [e \in 1..Entries |-> [id |-> 0, kind |-> "fixed", extended |-> FALSE]]
      /\ holder = [l \in LockNames |-> NoCpu] /\ at = [c \in CPUs |-> "os"]
      /\ token = [c \in CPUs |-> "none"] /\ call = [c \in CPUs |-> Idle]
  BY DEF Init, LockNames
<1>3. /\ pool \in Nat /\ pool <= Entries /\ msg_free_list \in Seq(1..Entries)
      /\ Len(msg_free_list) = pool /\ \A i \in 1..pool : msg_free_list[i] = i
  <2>1. pool \in Nat /\ pool <= Entries
    BY <1>0, <1>1
  <2>2. \A i \in 1..pool : i \in 1..Entries
    BY <1>0, <2>1
  <2> QED
    BY <1>1, <2>1, <2>2
<1>4. Idle \in Calls /\ Idle.id = 0
  BY <1>0 DEF Idle, Calls, QueueLocks, Events, Msg, Statuses
<1>5. MsgTypes
  <2>1. msg_pending_list \in Seq(1..Entries) /\ msgq \in Seq(Nat) /\ got \in Seq(Nat)
    BY <1>1
  <2>2. entry \in [1..Entries -> [id : 0..MaxMsgs, kind : Kinds, extended : BOOLEAN]]
    BY <1>0, <1>2 DEF Kinds
  <2>3. /\ holder \in [LockNames -> CPUs \cup {NoCpu}]
        /\ at \in [CPUs -> {"os", "opal", "update", "store", "callback"}]
        /\ token \in [CPUs -> {"none", "call", "poll", "interrupt"}]
        /\ call \in [CPUs -> Calls]
    BY <1>2, <1>4
  <2>4. /\ opal_pending_events \in SUBSET Events /\ known \in SUBSET Events
        /\ queued \in 0..MaxMsgs /\ responses \in Nat /\ called \subseteq Nat \X Statuses
    BY <1>0, <1>1
  <2>b. irq \in BOOLEAN
    BY <1>1
  <2>5. TypeOK
    BY <1>3, <2>1, <2>2, <2>3, <2>4, <2>b DEF TypeOK, LockNames
  <2> QED
    BY <1>3, <2>1, <2>3, <2>4, <2>5 DEF MsgTypes
<1>6. /\ \A c \in CPUs : at[c] = "os" /\ call[c].id = 0
      /\ \A l \in LockNames : holder[l] = NoCpu
  BY <1>2, <1>4
<1>7. LocksOK
  BY <1>0, <1>6 DEF LocksOK, QueueLocks, LockNames, Updating
<1>8. BitsOK
  BY <1>1, <1>6 DEF BitsOK, Updating, Queue
<1>9. /\ ToSet(msg_free_list) = 1..pool /\ ToSet(msg_pending_list) = {} /\ ToSet(got) = {}
  <2>1. ToSet(msg_free_list) = {msg_free_list[i] : i \in 1..Len(msg_free_list)}
    BY <1>3, ToSetSeq
  <2>2. \A s \in Seq(Nat) : s = <<>> => ToSet(s) = {}
    BY ToSetSeq
  <2>3. <<>> \in Seq(Nat)
    OBVIOUS
  <2> QED
    BY <1>1, <1>3, <2>1, <2>2, <2>3
<1>a. EntriesOK
  <2>1. \A e \in 1..pool : ~entry[e].extended
    <3>1. \A e \in 1..pool : e \in 1..Entries
      BY <1>0, <1>3
    <3> QED
      BY <1>2, <3>1
  <2>2. Plain = 1..pool
    BY <1>9, <2>1 DEF Plain, Linked
  <2>3. Cardinality(Plain) = pool
    <3>1. Cardinality(1..pool) = IF 1 > pool THEN 0 ELSE pool - 1 + 1
      BY <1>3, FS_Interval
    <3> QED
      BY <1>3, <2>2, <3>1
  <2>4. Distinct(msg_free_list) /\ Distinct(msg_pending_list)
    BY <1>1, <1>3 DEF Distinct
  <2> QED
    BY <1>3, <1>9, <2>1, <2>3, <2>4 DEF EntriesOK
<1>b. OrderOK
  BY <1>1, <1>9 DEF OrderOK, Rising, Waiting, Given, Apart
<1>c. DueOK
  <2>1. Due = {} /\ Given = {}
    BY <1>1, <1>6, <1>9 DEF Due, Given
  <2>2. IsFiniteSet({}) /\ Cardinality({}) = 0
    BY FS_EmptySet
  <2>3. \A c \in CPUs : at[c] # "callback"
    BY <1>6
  <2> QED
    BY <1>1, <1>6, <2>1, <2>2, <2>3 DEF DueOK
<1> QED
  BY <1>5, <1>7, <1>8, <1>a, <1>b, <1>c DEF MsgInv

\* Every step keeps it.
LEMMA MsgStep == MsgInv /\ [Next]_vars => MsgInv'
<1> SUFFICES ASSUME MsgInv, [Next]_vars PROVE MsgInv'
  OBVIOUS
<1>i. ASSUME NEW c \in CPUs, MsgTypes', LocksOK', BitsOK', Idles(c) PROVE MsgInv'
  <2>1. /\ UNCHANGED <<msg_free_list, msg_pending_list, entry, pool, queued, got, checked, lost>>
        /\ called' = called
    BY <1>i DEF Idles
  <2>2. EntriesOK' /\ OrderOK' /\ Given' = Given
    BY <2>1, SameMessages
  <2>3. /\ Only(c) /\ call'[c].id = call[c].id
        /\ at'[c] \in {"os", "opal"} => call[c].id = 0
        /\ at'[c] = "callback" => call[c].id # 0
    BY <1>i DEF Idles
  <2>4. DueOK'
    BY <2>1, <2>2, <2>3, SameDue
  <2> QED
    BY <1>i, <2>2, <2>4 DEF MsgInv
<1>1. ASSUME NEW c \in CPUs, opal_update_pending_evt(c) PROVE MsgInv'
  BY <1>1, <1>i, UpdateStep
<1>2. ASSUME NEW c \in CPUs, store_events(c) PROVE MsgInv'
  BY <1>2, <1>i, StoreStep
<1>3. ASSUME NEW c \in CPUs, _opal_queue_msg(c) PROVE MsgInv'
  <2>1. MsgTypes' /\ LocksOK' /\ BitsOK' /\ \E e \in 1..Entries : QueuesMsg(c, e)
    BY <1>3, QueueStep
  <2>2. PICK e \in 1..Entries : QueuesMsg(c, e)
    BY <2>1
  <2>3. EntriesOK' /\ OrderOK'
    BY <2>1, <2>2, QueueEntries, QueueOrder
  <2>4. /\ UNCHANGED <<got, checked, lost, called>>
        /\ Only(c) /\ at[c] = "opal" /\ at'[c] = "update" /\ call'[c].id = 0
    BY <2>2 DEF QueuesMsg
  <2>5. call[c].id = 0 /\ Given' = Given
    BY <2>4 DEF MsgInv, DueOK, Given
  <2>6. DueOK'
    BY <2>4, <2>5, SameDue
  <2> QED
    BY <2>1, <2>3, <2>6 DEF MsgInv
<1>4. ASSUME NEW c \in CPUs, (opal_get_msg(c) /\ msg_pending_list # <<>>) \/ opal_check_completion(c)
      PROVE  MsgInv'
  <2>1. MsgTypes' /\ LocksOK' /\ BitsOK' /\ \E e \in 1..Entries, m \in Nat : TakesMsg(c, e, m)
    BY <1>4, TakeStep
  <2>2. PICK e \in 1..Entries, m \in Nat : TakesMsg(c, e, m)
    BY <2>1
  <2>3. EntriesOK'
    BY <2>1, <2>2, TakeEntries
  <2>4. OrderOK' /\ Given' = Given \cup {m} /\ m \notin Given /\ m # 0
    BY <2>1, <2>2, TakeOrder
  <2>5. DueOK'
    BY <2>2, <2>4, TakeDue
  <2> QED
    BY <2>1, <2>3, <2>4, <2>5 DEF MsgInv
<1>5. ASSUME NEW c \in CPUs, opal_get_msg(c), msg_pending_list = <<>> PROVE MsgInv'
  BY <1>5, <1>i, NoMsgStep
<1>6. ASSUME NEW c \in CPUs, callback(c) PROVE MsgInv'
  <2>1. MsgTypes' /\ LocksOK' /\ BitsOK' /\ CallsBack(c)
    BY <1>6, CallbackStep
  <2>2. UNCHANGED <<msg_free_list, msg_pending_list, entry, pool, queued, got, checked, lost>>
    BY <2>1 DEF CallsBack
  <2>3. EntriesOK' /\ OrderOK' /\ Given' = Given
    BY <2>2, SameMessages
  <2>4. DueOK'
    BY <2>1, <2>3, CallDue
  <2> QED
    BY <2>1, <2>3, <2>4 DEF MsgInv
<1>7. ASSUME NEW c \in CPUs, opal_send_complete(c) \/ opal_ipmi_recv(c) PROVE MsgInv'
  BY <1>7, <1>i, RespStep
<1>8. ASSUME NEW c \in CPUs,
             dummy_interrupt(c) \/ opal_handle_interrupt(c) \/ opal_poll_events(c) \/ Return(c)
      PROVE  MsgInv'
  BY <1>8, <1>i, HostStep
<1>9. CASE UNCHANGED vars
  <2>1. /\ UNCHANGED <<msg_free_list, msg_pending_list, entry, pool>>
        /\ UNCHANGED <<msgq, holder, opal_pending_events, irq, at, token, call, known>>
        /\ UNCHANGED <<queued, responses, got, checked, lost, called>>
    BY <1>9 DEF vars, lists, cpu, history
  <2>2. MsgTypes'
    BY <2>1 DEF MsgInv, MsgTypes, TypeOK
  <2>3. LocksOK'
    BY <2>1 DEF MsgInv, LocksOK
  <2>4. BitsOK'
    BY <2>1 DEF MsgInv, BitsOK, Free, Queue, NewEvents
  <2>5. EntriesOK' /\ OrderOK' /\ Given' = Given
    BY <2>1, SameMessages
  <2>6. Due' = Due
    BY <2>1 DEF Due
  <2>7. DueOK'
    BY <2>1, <2>5, <2>6 DEF MsgInv, DueOK
  <2> QED
    BY <2>2, <2>3, <2>4, <2>5, <2>7 DEF MsgInv
<1> QED
  <2>1. CASE Next
    <3>1. PICK c \in CPUs :
            \/ opal_update_pending_evt(c) \/ store_events(c)
            \/ _opal_queue_msg(c) \/ opal_get_msg(c) \/ opal_check_completion(c) \/ callback(c)
            \/ opal_send_complete(c) \/ opal_ipmi_recv(c)
            \/ dummy_interrupt(c) \/ opal_handle_interrupt(c) \/ opal_poll_events(c) \/ Return(c)
      BY <2>1 DEF Next
    <3> QED
      BY <3>1, <1>1, <1>2, <1>3, <1>4, <1>5, <1>6, <1>7, <1>8
  <2> QED
    BY <2>1, <1>9

\* Every reachable state of the message queue, the response queue and the event word is one
\* that the inductive invariant describes.
THEOREM MsgInvariant == Spec => []MsgInv
<1>1. Init => MsgInv
  BY MsgInit
<1>2. MsgInv /\ [Next]_vars => MsgInv'
  BY MsgStep
<1> QED
  BY <1>1, <1>2, PTL DEF Spec

\* An entry is linked once, the pool is never lost to extended messages, and whenever a
\* queue's lock is free its bit in opal_pending_events says whether the queue is empty.
THEOREM OpalQueuesSound == Spec => []QueuesSound
<1>1. MsgInv => QueuesSound
  <2> SUFFICES ASSUME MsgInv PROVE QueuesSound
    OBVIOUS
  <2>1. TypeOK
    BY DEF MsgInv, MsgTypes
  <2>2. /\ Distinct(msg_free_list) /\ Distinct(msg_pending_list)
        /\ ToSet(msg_free_list) \cap ToSet(msg_pending_list) = {}
        /\ \A e \in ToSet(msg_free_list) : ~entry[e].extended
        /\ Cardinality({e \in Linked : ~entry[e].extended}) >= pool
    BY DEF MsgInv, EntriesOK, Plain
  <2>3. IsInjective(msg_free_list \o msg_pending_list)
    BY <2>2, ListFacts, ConcatDistinct
  <2>4. \A l \in QueueLocks : Free(l) => (Bit(l) \in opal_pending_events <=> Queue(l) # <<>>)
    BY DEF MsgInv, BitsOK
  <2>5. Free("opal_msg_lock") => (Msg \in opal_pending_events <=> msg_pending_list # <<>>)
    BY <2>4 DEF QueueLocks, Bit, Queue
  <2>6. Free("msgq_lock") => (Recv \in opal_pending_events <=> msgq # <<>>)
    BY <2>4 DEF QueueLocks, Bit, Queue
  <2> QED
    BY <2>1, <2>2, <2>3, <2>5, <2>6 DEF QueuesSound
<1> QED
  BY <1>1, MsgInvariant, PTL

\* No message is lost or given twice, opal_get_msg gives them in order, and each consumed
\* callback is called once, with its own message's data.
THEOREM OpalGivenOnce == Spec => []GivenOnce
<1>1. MsgInv => GivenOnce
  <2> SUFFICES ASSUME MsgInv PROVE GivenOnce
    OBVIOUS
  <2>1. \A i \in 1..Len(got) - 1 : got[i] < got[i + 1]
    <3>1. \A i, j \in 1..Len(got) : i < j => got[i] < got[j]
      BY DEF MsgInv, OrderOK
    <3>2. Len(got) \in Nat
      BY TypeFacts DEF MsgInv
    <3>3. \A i \in 1..Len(got) - 1 : i \in 1..Len(got) /\ i + 1 \in 1..Len(got) /\ i < i + 1
      BY <3>2
    <3> QED
      BY <3>1, <3>3
  <2>2. /\ Apart /\ Waiting \cap Given = {}
        /\ Waiting \cup Given = 1..queued
    BY DEF MsgInv, OrderOK
  <2>3. /\ Cardinality(called) + Cardinality(Due) = Cardinality(Given)
        /\ Given = {x[1] : x \in called} \cup {call[c].id : c \in Due}
    BY DEF MsgInv, DueOK
  <2> QED
    BY <2>1, <2>2, <2>3 DEF GivenOnce, Waiting, Given, Due, Apart
<1> QED
  BY <1>1, MsgInvariant, PTL

-----------------------------------------------------------------------------
(* Quiescing.  The types hold whatever the OS does; the rest is for an OS whose CPUs do not
   quiesce themselves and resume with the target they have quiesced, and holds until a CPU
   without a quiesce has passed for the owner. *)

\* in_opal_call is one from the first store of opal_entry to the last.
CountExact ==
  \A c \in CPUs : in_opal_call[c] = IF pc[c] \in {"os", "entry", "held"} THEN 0 ELSE 1

\* A call has a target.
TargetGiven == \A c \in CPUs : pc[c] # "os" => tgt[c] # NoCpu

\* The CPU that took opal_quiesce_state from "none" and has not given it back.
Active(c) == pc[c] \in {"own", "set", "wait", "release"} \/ force[c] # NoCpu

\* A call that quiesces has a target other than its own CPU; one that resumes
\* has that of the quiesce of its CPU, if there is one; opal_quiesce is not run on
\* top of a quiesce in force, and only one in force was reported a success.
CallOK(c) ==
  /\ op[c] \in Quiescing => tgt[c] \in (CPUs \cup {All}) \ {c}
  /\ op[c] = "resume" /\ pc[c] \in {"entry", "check", "holdoff", "held", "inside"}
       => force[c] \in {tgt[c], NoCpu}
  /\ pc[c] \in {"own", "set", "wait"} => op[c] \in Quiescing
  /\ pc[c] = "release" => tgt[c] \in (CPUs \cup {All}) \ {c}
  /\ pc[c] \in {"own", "set", "wait", "release"} => force[c] = NoCpu
  /\ pc[c] \in {"set", "wait", "release"} => todo[c] \subseteq Targets(c)
  /\ force[c] # c
  /\ quiet[c] => force[c] # NoCpu

\* At most one CPU is active, and only while opal_quiesce_state says so; past
\* its first store it is the owner, and opal_quiesce_target is its target.
OneActive ==
  \A c \in CPUs : Active(c) =>
    /\ opal_quiesce_state # "none"
    /\ \A d \in CPUs : Active(d) => c = d
    /\ pc[c] # "own" => /\ opal_quiesce_owner = c
                        /\ opal_quiesce_target = IF force[c] # NoCpu THEN force[c] ELSE tgt[c]

\* The CPUs c has told to keep out and has not yet begun to let in again.
Told(c) ==
  CASE pc[c] = "set" -> Targets(c) \ todo[c]
    [] pc[c] = "wait" -> Targets(c)
    [] OTHER -> IF force[c] = All THEN CPUs \ {c}
                ELSE IF force[c] = NoCpu THEN {} ELSE {force[c]}

\* A CPU that was told finds it in quiesce_opal_call.
ToldSees == \A c \in CPUs : \A d \in Told(c) : quiesce_opal_call[d] # "none"

\* A CPU that finds it there was told, by one that will let it in again.
KeptBySomeone ==
  \A d \in CPUs : quiesce_opal_call[d] # "none" => \E c \in CPUs : Keeps(c, d)

\* Locks are skipped only under a quiesce of all the others.
BustOK == bust_locks => \E c \in CPUs : force[c] = All

\* A target that the wait loop has seen outside of OPAL does not come in.
SeenOut ==
  \A c \in CPUs : pc[c] = "wait" /\ ~stuck[c] =>
    \A d \in Targets(c) \ todo[c] : ~Inside(d)

\* No target of a CPU that was told OPAL_SUCCESS runs code of OPAL.
NoneInside ==
  \A c \in CPUs : quiet[c] =>
    \A d \in CPUs : Inside(d) => d # force[c] /\ (force[c] = All => d = c)

\* The inductive invariants: of the counts, and of the protocol while every call that
\* passes for the owner's is the owner's.
TypeInv == QuiesceTypeOK /\ CountExact /\ TargetGiven

Orderly ==
  /\ TypeInv
  /\ \A c \in CPUs : CallOK(c)
  /\ OneActive /\ ToldSees /\ KeptBySomeone /\ BustOK /\ SeenOut /\ NoneInside

QuiesceInv == TypeInv /\ (stale \/ Orderly)

-----------------------------------------------------------------------------
\* The initial state has nobody in OPAL and nothing quiesced.
LEMMA QuiesceInitInv == QuiesceInit => Orderly
<1> SUFFICES ASSUME QuiesceInit PROVE Orderly
  OBVIOUS
<1> USE QuiesceAssumption DEF QuiesceInit
<1>1. TypeInv
  BY DEF TypeInv, QuiesceTypeOK, CountExact, TargetGiven
<1>2. \A c \in CPUs : CallOK(c) /\ ~Active(c) /\ Told(c) = {}
  BY DEF CallOK, Quiescing, Active, Told
<1>3. OneActive /\ ToldSees /\ KeptBySomeone /\ BustOK /\ SeenOut /\ NoneInside
  BY <1>2 DEF OneActive, ToldSees, KeptBySomeone, BustOK, SeenOut, NoneInside
<1> QED
  BY <1>1, <1>2, <1>3 DEF Orderly

\* Every step keeps the types: a CPU leaves opal_entry only with its count at one.
LEMMA QuiesceTypesStep == TypeInv /\ [QuiesceNext]_QuiesceVars => QuiesceTypeOK'
<1> SUFFICES ASSUME TypeInv, [QuiesceNext]_QuiesceVars PROVE QuiesceTypeOK'
  OBVIOUS
<1> USE QuiesceAssumption DEF TypeInv, QuiesceTypeOK, percpu, global, locals, os
<1>1. ASSUME NEW c \in CPUs, os_call(c) PROVE QuiesceTypeOK'
  BY <1>1 DEF os_call, QuiesceGoto
<1>2. ASSUME NEW c \in CPUs, entry_count(c) PROVE QuiesceTypeOK'
  BY <1>2 DEF entry_count, QuiesceGoto, CountExact
<1>3. ASSUME NEW c \in CPUs, entry_check(c) PROVE QuiesceTypeOK'
  BY <1>3 DEF entry_check, QuiesceGoto
<1>4. ASSUME NEW c \in CPUs, entry_holdoff(c) PROVE QuiesceTypeOK'
  BY <1>4 DEF entry_holdoff, QuiesceGoto, CountExact
<1>5. ASSUME NEW c \in CPUs, entry_spin(c) PROVE QuiesceTypeOK'
  BY <1>5 DEF entry_spin, QuiesceGoto
<1>6. ASSUME NEW c \in CPUs, call_work(c) PROVE QuiesceTypeOK'
  BY <1>6 DEF call_work, QuiesceGoto
<1>7. ASSUME NEW c \in CPUs, entry_exit(c) PROVE QuiesceTypeOK'
  BY <1>7 DEF entry_exit, QuiesceGoto, CountExact
<1>8. ASSUME NEW c \in CPUs, quiesce_busy(c) PROVE QuiesceTypeOK'
  BY <1>8 DEF quiesce_busy, QuiesceGoto, QuiesceReturns
<1>9. ASSUME NEW c \in CPUs, quiesce_begin(c) PROVE QuiesceTypeOK'
  BY <1>9 DEF quiesce_begin, QuiesceGoto, QuiesceType
<1>10. ASSUME NEW c \in CPUs, quiesce_own(c) PROVE QuiesceTypeOK'
  <2>1. Targets(c) \subseteq CPUs
    BY <1>10 DEF quiesce_own, TargetGiven, Targets
  <2> QED
    BY <1>10, <2>1 DEF quiesce_own, QuiesceGoto, QuiesceType
<1>11. ASSUME NEW c \in CPUs, quiesce_set(c) PROVE QuiesceTypeOK'
  <2>1. Targets(c) \subseteq CPUs
    BY <1>11 DEF quiesce_set, TargetGiven, Targets
  <2> QED
    BY <1>11, <2>1 DEF quiesce_set, QuiesceGoto, QuiesceType
<1>12. ASSUME NEW c \in CPUs, quiesce_wait(c) PROVE QuiesceTypeOK'
  <2>1. PICK d \in todo[c] : todo' = [todo EXCEPT ![c] = @ \ {d}]
    BY <1>12 DEF quiesce_wait
  <2>2. stuck' = stuck \/ stuck' = [stuck EXCEPT ![c] = TRUE]
    BY <1>12 DEF quiesce_wait
  <2> QED
    BY <1>12, <2>1, <2>2 DEF quiesce_wait
<1>13. ASSUME NEW c \in CPUs, quiesce_done(c) PROVE QuiesceTypeOK'
  BY <1>13 DEF quiesce_done, QuiesceGoto, QuiesceReturns
<1>14. ASSUME NEW c \in CPUs, quiesce_not_owner(c) PROVE QuiesceTypeOK'
  BY <1>14 DEF quiesce_not_owner, QuiesceGoto
<1>15. ASSUME NEW c \in CPUs, quiesce_break(c) PROVE QuiesceTypeOK'
  BY <1>15 DEF quiesce_break, QuiesceGoto
<1>16. ASSUME NEW c \in CPUs, quiesce_resume(c) PROVE QuiesceTypeOK'
  <2>1. Targets(c) \subseteq CPUs
    BY <1>16 DEF quiesce_resume, TargetGiven, Targets
  <2> QED
    BY <1>16, <2>1 DEF quiesce_resume, QuiesceGoto, QuiesceType
<1>17. ASSUME NEW c \in CPUs, resume_one(c) PROVE QuiesceTypeOK'
  BY <1>17 DEF resume_one
<1>18. ASSUME NEW c \in CPUs, resume_done(c) PROVE QuiesceTypeOK'
  BY <1>18 DEF resume_done, QuiesceGoto
<1>19. CASE UNCHANGED QuiesceVars
  BY <1>19 DEF QuiesceVars, percpu, global, locals, os
<1> QED
  BY <1>1, <1>2, <1>3, <1>4, <1>5, <1>6, <1>7, <1>8, <1>9, <1>10, <1>11,
     <1>12, <1>13, <1>14, <1>15, <1>16, <1>17, <1>18, <1>19
  DEF QuiesceNext, OpalStep

\* Every step keeps in_opal_call in step with where the CPU is.
LEMMA CountStep == TypeInv /\ [QuiesceNext]_QuiesceVars => CountExact'
<1> SUFFICES ASSUME TypeInv, [QuiesceNext]_QuiesceVars PROVE CountExact'
  OBVIOUS
<1> USE QuiesceAssumption DEF TypeInv, QuiesceTypeOK, percpu, global, locals, os, CountExact
<1>1. ASSUME NEW c \in CPUs, os_call(c) PROVE CountExact'
  BY <1>1 DEF os_call, QuiesceGoto
<1>2. ASSUME NEW c \in CPUs, entry_count(c) PROVE CountExact'
  BY <1>2 DEF entry_count, QuiesceGoto
<1>3. ASSUME NEW c \in CPUs, entry_check(c) PROVE CountExact'
  BY <1>3 DEF entry_check, QuiesceGoto
<1>4. ASSUME NEW c \in CPUs, entry_holdoff(c) PROVE CountExact'
  BY <1>4 DEF entry_holdoff, QuiesceGoto
<1>5. ASSUME NEW c \in CPUs, entry_spin(c) PROVE CountExact'
  BY <1>5 DEF entry_spin, QuiesceGoto
<1>6. ASSUME NEW c \in CPUs, call_work(c) PROVE CountExact'
  BY <1>6 DEF call_work, QuiesceGoto
<1>7. ASSUME NEW c \in CPUs, entry_exit(c) PROVE CountExact'
  BY <1>7 DEF entry_exit, QuiesceGoto
<1>8. ASSUME NEW c \in CPUs, quiesce_busy(c) PROVE CountExact'
  BY <1>8 DEF quiesce_busy, QuiesceGoto, QuiesceReturns
<1>9. ASSUME NEW c \in CPUs, quiesce_begin(c) PROVE CountExact'
  BY <1>9 DEF quiesce_begin, QuiesceGoto, QuiesceType
<1>10. ASSUME NEW c \in CPUs, quiesce_own(c) PROVE CountExact'
  BY <1>10 DEF quiesce_own, QuiesceGoto
<1>11. ASSUME NEW c \in CPUs, quiesce_set(c) PROVE CountExact'
  BY <1>11 DEF quiesce_set, QuiesceGoto, QuiesceType
<1>12. ASSUME NEW c \in CPUs, quiesce_wait(c) PROVE CountExact'
  BY <1>12 DEF quiesce_wait
<1>13. ASSUME NEW c \in CPUs, quiesce_done(c) PROVE CountExact'
  BY <1>13 DEF quiesce_done, QuiesceGoto, QuiesceReturns
<1>14. ASSUME NEW c \in CPUs, quiesce_not_owner(c) PROVE CountExact'
  BY <1>14 DEF quiesce_not_owner, QuiesceGoto
<1>15. ASSUME NEW c \in CPUs, quiesce_break(c) PROVE CountExact'
  BY <1>15 DEF quiesce_break, QuiesceGoto
<1>16. ASSUME NEW c \in CPUs, quiesce_resume(c) PROVE CountExact'
  BY <1>16 DEF quiesce_resume, QuiesceGoto
<1>17. ASSUME NEW c \in CPUs, resume_one(c) PROVE CountExact'
  BY <1>17 DEF resume_one
<1>18. ASSUME NEW c \in CPUs, resume_done(c) PROVE CountExact'
  BY <1>18 DEF resume_done, QuiesceGoto
<1>19. CASE UNCHANGED QuiesceVars
  BY <1>19 DEF QuiesceVars, percpu, global, locals, os
<1> QED
  BY <1>1, <1>2, <1>3, <1>4, <1>5, <1>6, <1>7, <1>8, <1>9, <1>10, <1>11,
     <1>12, <1>13, <1>14, <1>15, <1>16, <1>17, <1>18, <1>19
  DEF QuiesceNext, OpalStep

\* A CPU in a call keeps its target.
LEMMA TargetStep == TypeInv /\ [QuiesceNext]_QuiesceVars => TargetGiven'
<1> SUFFICES ASSUME TypeInv, [QuiesceNext]_QuiesceVars PROVE TargetGiven'
  OBVIOUS
<1> USE QuiesceAssumption DEF TypeInv, QuiesceTypeOK, percpu, global, locals, os, TargetGiven
<1>1. ASSUME NEW c \in CPUs, os_call(c) PROVE TargetGiven'
  BY <1>1 DEF os_call, QuiesceGoto
<1>2. ASSUME NEW c \in CPUs, entry_count(c) PROVE TargetGiven'
  BY <1>2 DEF entry_count, QuiesceGoto
<1>3. ASSUME NEW c \in CPUs, entry_check(c) PROVE TargetGiven'
  BY <1>3 DEF entry_check, QuiesceGoto
<1>4. ASSUME NEW c \in CPUs, entry_holdoff(c) PROVE TargetGiven'
  BY <1>4 DEF entry_holdoff, QuiesceGoto
<1>5. ASSUME NEW c \in CPUs, entry_spin(c) PROVE TargetGiven'
  BY <1>5 DEF entry_spin, QuiesceGoto
<1>6. ASSUME NEW c \in CPUs, call_work(c) PROVE TargetGiven'
  BY <1>6 DEF call_work, QuiesceGoto
<1>7. ASSUME NEW c \in CPUs, entry_exit(c) PROVE TargetGiven'
  BY <1>7 DEF entry_exit, QuiesceGoto
<1>8. ASSUME NEW c \in CPUs, quiesce_busy(c) PROVE TargetGiven'
  BY <1>8 DEF quiesce_busy, QuiesceGoto, QuiesceReturns
<1>9. ASSUME NEW c \in CPUs, quiesce_begin(c) PROVE TargetGiven'
  BY <1>9 DEF quiesce_begin, QuiesceGoto, QuiesceType
<1>10. ASSUME NEW c \in CPUs, quiesce_own(c) PROVE TargetGiven'
  BY <1>10 DEF quiesce_own, QuiesceGoto
<1>11. ASSUME NEW c \in CPUs, quiesce_set(c) PROVE TargetGiven'
  BY <1>11 DEF quiesce_set, QuiesceGoto, QuiesceType
<1>12. ASSUME NEW c \in CPUs, quiesce_wait(c) PROVE TargetGiven'
  BY <1>12 DEF quiesce_wait
<1>13. ASSUME NEW c \in CPUs, quiesce_done(c) PROVE TargetGiven'
  BY <1>13 DEF quiesce_done, QuiesceGoto, QuiesceReturns
<1>14. ASSUME NEW c \in CPUs, quiesce_not_owner(c) PROVE TargetGiven'
  BY <1>14 DEF quiesce_not_owner, QuiesceGoto
<1>15. ASSUME NEW c \in CPUs, quiesce_break(c) PROVE TargetGiven'
  BY <1>15 DEF quiesce_break, QuiesceGoto
<1>16. ASSUME NEW c \in CPUs, quiesce_resume(c) PROVE TargetGiven'
  BY <1>16 DEF quiesce_resume, QuiesceGoto
<1>17. ASSUME NEW c \in CPUs, resume_one(c) PROVE TargetGiven'
  BY <1>17 DEF resume_one
<1>18. ASSUME NEW c \in CPUs, resume_done(c) PROVE TargetGiven'
  BY <1>18 DEF resume_done, QuiesceGoto
<1>19. CASE UNCHANGED QuiesceVars
  BY <1>19 DEF QuiesceVars, percpu, global, locals, os
<1> QED
  BY <1>1, <1>2, <1>3, <1>4, <1>5, <1>6, <1>7, <1>8, <1>9, <1>10, <1>11,
     <1>12, <1>13, <1>14, <1>15, <1>16, <1>17, <1>18, <1>19
  DEF QuiesceNext, OpalStep

\* The OS begins calls that keep to its own quiesce, and a quiesce begins only when
\* none is in force.
LEMMA CallStep ==
  Disciplined /\ Orderly /\ ~stale' /\ [QuiesceNext]_QuiesceVars => (\A d \in CPUs : CallOK(d))'
<1> SUFFICES ASSUME Disciplined /\ Orderly, ~stale', [QuiesceNext]_QuiesceVars
             PROVE  (\A d \in CPUs : CallOK(d))'
  OBVIOUS
<1> USE QuiesceAssumption DEF Orderly, TypeInv, QuiesceTypeOK, percpu, global, locals,
      os, CallOK, Targets, Quiescing
<1>1. ASSUME NEW c \in CPUs, os_call(c) PROVE (\A d \in CPUs : CallOK(d))'
  BY <1>1 DEF os_call, QuiesceGoto
<1>2. ASSUME NEW c \in CPUs, entry_count(c) PROVE (\A d \in CPUs : CallOK(d))'
  BY <1>2 DEF entry_count, QuiesceGoto
<1>3. ASSUME NEW c \in CPUs, entry_check(c) PROVE (\A d \in CPUs : CallOK(d))'
  BY <1>3 DEF entry_check, QuiesceGoto
<1>4. ASSUME NEW c \in CPUs, entry_holdoff(c) PROVE (\A d \in CPUs : CallOK(d))'
  BY <1>4 DEF entry_holdoff, QuiesceGoto
<1>5. ASSUME NEW c \in CPUs, entry_spin(c) PROVE (\A d \in CPUs : CallOK(d))'
  BY <1>5 DEF entry_spin, QuiesceGoto
<1>6. ASSUME NEW c \in CPUs, call_work(c) PROVE (\A d \in CPUs : CallOK(d))'
  BY <1>6 DEF call_work, QuiesceGoto
<1>7. ASSUME NEW c \in CPUs, entry_exit(c) PROVE (\A d \in CPUs : CallOK(d))'
  BY <1>7 DEF entry_exit, QuiesceGoto
<1>8. ASSUME NEW c \in CPUs, quiesce_busy(c) PROVE (\A d \in CPUs : CallOK(d))'
  BY <1>8 DEF quiesce_busy, QuiesceGoto, QuiesceReturns
<1>9. ASSUME NEW c \in CPUs, quiesce_begin(c) PROVE (\A d \in CPUs : CallOK(d))'
  BY <1>9 DEF quiesce_begin, QuiesceGoto, QuiesceType, OneActive, Active
<1>10. ASSUME NEW c \in CPUs, quiesce_own(c) PROVE (\A d \in CPUs : CallOK(d))'
  BY <1>10 DEF quiesce_own, QuiesceGoto
<1>11. ASSUME NEW c \in CPUs, quiesce_set(c) PROVE (\A d \in CPUs : CallOK(d))'
  BY <1>11 DEF quiesce_set, QuiesceGoto, QuiesceType
<1>12. ASSUME NEW c \in CPUs, quiesce_wait(c) PROVE (\A d \in CPUs : CallOK(d))'
  BY <1>12 DEF quiesce_wait
<1>13. ASSUME NEW c \in CPUs, quiesce_done(c) PROVE (\A d \in CPUs : CallOK(d))'
  BY <1>13 DEF quiesce_done, QuiesceGoto, QuiesceReturns
<1>14. ASSUME NEW c \in CPUs, quiesce_not_owner(c) PROVE (\A d \in CPUs : CallOK(d))'
  BY <1>14 DEF quiesce_not_owner, QuiesceGoto
<1>15. ASSUME NEW c \in CPUs, quiesce_break(c) PROVE (\A d \in CPUs : CallOK(d))'
  BY <1>15 DEF quiesce_break, QuiesceGoto
<1>16. ASSUME NEW c \in CPUs, quiesce_resume(c) PROVE (\A d \in CPUs : CallOK(d))'
  <2>1. force[c] # NoCpu
    BY <1>16 DEF quiesce_resume
  <2>2. CallOK(c)
    BY DEF Orderly
  <2>3. force[c] = tgt[c] /\ tgt[c] # c
    BY <1>16, <2>1, <2>2 DEF quiesce_resume, CallOK
  <2> QED
    BY <1>16, <2>1, <2>3 DEF quiesce_resume, QuiesceGoto
<1>17. ASSUME NEW c \in CPUs, resume_one(c) PROVE (\A d \in CPUs : CallOK(d))'
  BY <1>17 DEF resume_one
<1>18. ASSUME NEW c \in CPUs, resume_done(c) PROVE (\A d \in CPUs : CallOK(d))'
  BY <1>18 DEF resume_done, QuiesceGoto
<1>19. CASE UNCHANGED QuiesceVars
  BY <1>19 DEF QuiesceVars, percpu, global, locals, os
<1> QED
  BY <1>1, <1>2, <1>3, <1>4, <1>5, <1>6, <1>7, <1>8, <1>9, <1>10, <1>11,
     <1>12, <1>13, <1>14, <1>15, <1>16, <1>17, <1>18, <1>19
  DEF QuiesceNext, OpalStep

\* A quiesce begins only when opal_quiesce_state is none, and so when no other is under
\* way; it is given back by the active CPU alone.
LEMMA ActiveStep == Disciplined /\ Orderly /\ ~stale' /\ [QuiesceNext]_QuiesceVars => OneActive'
<1> SUFFICES ASSUME Disciplined /\ Orderly, ~stale', [QuiesceNext]_QuiesceVars PROVE OneActive'
  OBVIOUS
<1> USE QuiesceAssumption DEF Orderly, TypeInv, QuiesceTypeOK, percpu, global, locals,
      os, OneActive, Active, CallOK, Quiescing
<1>1. ASSUME NEW c \in CPUs, os_call(c) PROVE OneActive'
  BY <1>1 DEF os_call, QuiesceGoto
<1>2. ASSUME NEW c \in CPUs, entry_count(c) PROVE OneActive'
  BY <1>2 DEF entry_count, QuiesceGoto
<1>3. ASSUME NEW c \in CPUs, entry_check(c) PROVE OneActive'
  BY <1>3 DEF entry_check, QuiesceGoto
<1>4. ASSUME NEW c \in CPUs, entry_holdoff(c) PROVE OneActive'
  BY <1>4 DEF entry_holdoff, QuiesceGoto
<1>5. ASSUME NEW c \in CPUs, entry_spin(c) PROVE OneActive'
  BY <1>5 DEF entry_spin, QuiesceGoto
<1>6. ASSUME NEW c \in CPUs, call_work(c) PROVE OneActive'
  BY <1>6 DEF call_work, QuiesceGoto
<1>7. ASSUME NEW c \in CPUs, entry_exit(c) PROVE OneActive'
  BY <1>7 DEF entry_exit, QuiesceGoto
<1>8. ASSUME NEW c \in CPUs, quiesce_busy(c) PROVE OneActive'
  BY <1>8 DEF quiesce_busy, QuiesceGoto, QuiesceReturns
<1>9. ASSUME NEW c \in CPUs, quiesce_begin(c) PROVE OneActive'
  BY <1>9 DEF quiesce_begin, QuiesceGoto, QuiesceType
<1>10. ASSUME NEW c \in CPUs, quiesce_own(c) PROVE OneActive'
  BY <1>10 DEF quiesce_own, QuiesceGoto
<1>11. ASSUME NEW c \in CPUs, quiesce_set(c) PROVE OneActive'
  BY <1>11 DEF quiesce_set, QuiesceGoto, QuiesceType
<1>12. ASSUME NEW c \in CPUs, quiesce_wait(c) PROVE OneActive'
  BY <1>12 DEF quiesce_wait
<1>13. ASSUME NEW c \in CPUs, quiesce_done(c) PROVE OneActive'
  BY <1>13 DEF quiesce_done, QuiesceGoto, QuiesceReturns
<1>14. ASSUME NEW c \in CPUs, quiesce_not_owner(c) PROVE OneActive'
  BY <1>14 DEF quiesce_not_owner, QuiesceGoto
<1>15. ASSUME NEW c \in CPUs, quiesce_break(c) PROVE OneActive'
  BY <1>15 DEF quiesce_break, QuiesceGoto
<1>16. ASSUME NEW c \in CPUs, quiesce_resume(c) PROVE OneActive'
  <2>1. force[c] # NoCpu
    BY <1>16 DEF quiesce_resume
  <2>2. CallOK(c)
    BY DEF Orderly
  <2>3. force[c] = tgt[c] /\ tgt[c] # c
    BY <1>16, <2>1, <2>2 DEF quiesce_resume, CallOK
  <2> QED
    BY <1>16, <2>1, <2>3 DEF quiesce_resume, QuiesceGoto
<1>17. ASSUME NEW c \in CPUs, resume_one(c) PROVE OneActive'
  BY <1>17 DEF resume_one
<1>18. ASSUME NEW c \in CPUs, resume_done(c) PROVE OneActive'
  BY <1>18 DEF resume_done, QuiesceGoto
<1>19. CASE UNCHANGED QuiesceVars
  BY <1>19 DEF QuiesceVars, percpu, global, locals, os
<1> QED
  BY <1>1, <1>2, <1>3, <1>4, <1>5, <1>6, <1>7, <1>8, <1>9, <1>10, <1>11,
     <1>12, <1>13, <1>14, <1>15, <1>16, <1>17, <1>18, <1>19
  DEF QuiesceNext, OpalStep

\* The flags of CPUs that were told are cleared by the CPU that told them alone, and
\* that no longer counts them as told.
LEMMA ToldStep == Disciplined /\ Orderly /\ ~stale' /\ [QuiesceNext]_QuiesceVars => ToldSees'
<1> SUFFICES ASSUME Disciplined /\ Orderly, ~stale', [QuiesceNext]_QuiesceVars PROVE ToldSees'
  OBVIOUS
<1> USE QuiesceAssumption DEF Orderly, TypeInv, QuiesceTypeOK, percpu, global, locals,
      os, ToldSees, Told, OneActive, Active, CallOK, Targets, Quiescing
<1>1. ASSUME NEW c \in CPUs, os_call(c) PROVE ToldSees'
  BY <1>1 DEF os_call, QuiesceGoto
<1>2. ASSUME NEW c \in CPUs, entry_count(c) PROVE ToldSees'
  BY <1>2 DEF entry_count, QuiesceGoto
<1>3. ASSUME NEW c \in CPUs, entry_check(c) PROVE ToldSees'
  BY <1>3 DEF entry_check, QuiesceGoto
<1>4. ASSUME NEW c \in CPUs, entry_holdoff(c) PROVE ToldSees'
  BY <1>4 DEF entry_holdoff, QuiesceGoto
<1>5. ASSUME NEW c \in CPUs, entry_spin(c) PROVE ToldSees'
  BY <1>5 DEF entry_spin, QuiesceGoto
<1>6. ASSUME NEW c \in CPUs, call_work(c) PROVE ToldSees'
  BY <1>6 DEF call_work, QuiesceGoto
<1>7. ASSUME NEW c \in CPUs, entry_exit(c) PROVE ToldSees'
  BY <1>7 DEF entry_exit, QuiesceGoto
<1>8. ASSUME NEW c \in CPUs, quiesce_busy(c) PROVE ToldSees'
  BY <1>8 DEF quiesce_busy, QuiesceGoto, QuiesceReturns
<1>9. ASSUME NEW c \in CPUs, quiesce_begin(c) PROVE ToldSees'
  BY <1>9 DEF quiesce_begin, QuiesceGoto, QuiesceType
<1>10. ASSUME NEW c \in CPUs, quiesce_own(c) PROVE ToldSees'
  BY <1>10 DEF quiesce_own, QuiesceGoto
<1>11. ASSUME NEW c \in CPUs, quiesce_set(c) PROVE ToldSees'
  BY <1>11 DEF quiesce_set, QuiesceGoto, QuiesceType
<1>12. ASSUME NEW c \in CPUs, quiesce_wait(c) PROVE ToldSees'
  BY <1>12 DEF quiesce_wait
<1>13. ASSUME NEW c \in CPUs, quiesce_done(c) PROVE ToldSees'
  BY <1>13 DEF quiesce_done, QuiesceGoto, QuiesceReturns
<1>14. ASSUME NEW c \in CPUs, quiesce_not_owner(c) PROVE ToldSees'
  BY <1>14 DEF quiesce_not_owner, QuiesceGoto
<1>15. ASSUME NEW c \in CPUs, quiesce_break(c) PROVE ToldSees'
  BY <1>15 DEF quiesce_break, QuiesceGoto
<1>16. ASSUME NEW c \in CPUs, quiesce_resume(c) PROVE ToldSees'
  BY <1>16 DEF quiesce_resume, QuiesceGoto
<1>17. ASSUME NEW c \in CPUs, resume_one(c) PROVE ToldSees'
  BY <1>17 DEF resume_one
<1>18. ASSUME NEW c \in CPUs, resume_done(c) PROVE ToldSees'
  BY <1>18 DEF resume_done, QuiesceGoto
<1>19. CASE UNCHANGED QuiesceVars
  BY <1>19 DEF QuiesceVars, percpu, global, locals, os
<1> QED
  BY <1>1, <1>2, <1>3, <1>4, <1>5, <1>6, <1>7, <1>8, <1>9, <1>10, <1>11,
     <1>12, <1>13, <1>14, <1>15, <1>16, <1>17, <1>18, <1>19
  DEF QuiesceNext, OpalStep

\* A flag is set by a CPU that keeps its target out, and a CPU stops to do so only as it
\* clears the flag.
LEMMA KeptStep == Disciplined /\ Orderly /\ ~stale' /\ [QuiesceNext]_QuiesceVars => KeptBySomeone'
<1> SUFFICES ASSUME Disciplined /\ Orderly, ~stale', [QuiesceNext]_QuiesceVars PROVE KeptBySomeone'
  OBVIOUS
<1> USE QuiesceAssumption DEF Orderly, TypeInv, QuiesceTypeOK, percpu, global, locals,
      os, KeptBySomeone, Keeps, OneActive, Active, CallOK, Targets, Quiescing
<1>1. ASSUME NEW c \in CPUs, os_call(c) PROVE KeptBySomeone'
  BY <1>1 DEF os_call, QuiesceGoto
<1>2. ASSUME NEW c \in CPUs, entry_count(c) PROVE KeptBySomeone'
  BY <1>2 DEF entry_count, QuiesceGoto
<1>3. ASSUME NEW c \in CPUs, entry_check(c) PROVE KeptBySomeone'
  BY <1>3 DEF entry_check, QuiesceGoto
<1>4. ASSUME NEW c \in CPUs, entry_holdoff(c) PROVE KeptBySomeone'
  BY <1>4 DEF entry_holdoff, QuiesceGoto
<1>5. ASSUME NEW c \in CPUs, entry_spin(c) PROVE KeptBySomeone'
  BY <1>5 DEF entry_spin, QuiesceGoto
<1>6. ASSUME NEW c \in CPUs, call_work(c) PROVE KeptBySomeone'
  BY <1>6 DEF call_work, QuiesceGoto
<1>7. ASSUME NEW c \in CPUs, entry_exit(c) PROVE KeptBySomeone'
  BY <1>7 DEF entry_exit, QuiesceGoto
<1>8. ASSUME NEW c \in CPUs, quiesce_busy(c) PROVE KeptBySomeone'
  BY <1>8 DEF quiesce_busy, QuiesceGoto, QuiesceReturns
<1>9. ASSUME NEW c \in CPUs, quiesce_begin(c) PROVE KeptBySomeone'
  BY <1>9 DEF quiesce_begin, QuiesceGoto, QuiesceType
<1>10. ASSUME NEW c \in CPUs, quiesce_own(c) PROVE KeptBySomeone'
  BY <1>10 DEF quiesce_own, QuiesceGoto
<1>11. ASSUME NEW c \in CPUs, quiesce_set(c) PROVE KeptBySomeone'
  BY <1>11 DEF quiesce_set, QuiesceGoto, QuiesceType
<1>12. ASSUME NEW c \in CPUs, quiesce_wait(c) PROVE KeptBySomeone'
  BY <1>12 DEF quiesce_wait
<1>13. ASSUME NEW c \in CPUs, quiesce_done(c) PROVE KeptBySomeone'
  BY <1>13 DEF quiesce_done, QuiesceGoto, QuiesceReturns
<1>14. ASSUME NEW c \in CPUs, quiesce_not_owner(c) PROVE KeptBySomeone'
  BY <1>14 DEF quiesce_not_owner, QuiesceGoto
<1>15. ASSUME NEW c \in CPUs, quiesce_break(c) PROVE KeptBySomeone'
  BY <1>15 DEF quiesce_break, QuiesceGoto
<1>16. ASSUME NEW c \in CPUs, quiesce_resume(c) PROVE KeptBySomeone'
  BY <1>16 DEF quiesce_resume, QuiesceGoto
<1>17. ASSUME NEW c \in CPUs, resume_one(c) PROVE KeptBySomeone'
  BY <1>17 DEF resume_one
<1>18. ASSUME NEW c \in CPUs, resume_done(c) PROVE KeptBySomeone'
  BY <1>18 DEF resume_done, QuiesceGoto
<1>19. CASE UNCHANGED QuiesceVars
  BY <1>19 DEF QuiesceVars, percpu, global, locals, os
<1> QED
  BY <1>1, <1>2, <1>3, <1>4, <1>5, <1>6, <1>7, <1>8, <1>9, <1>10, <1>11,
     <1>12, <1>13, <1>14, <1>15, <1>16, <1>17, <1>18, <1>19
  DEF QuiesceNext, OpalStep

\* QUIESCE_LOCK_BREAK passes only under a quiesce of all, QUIESCE_RESUME ends both.
LEMMA BustStep == Disciplined /\ Orderly /\ ~stale' /\ [QuiesceNext]_QuiesceVars => BustOK'
<1> SUFFICES ASSUME Disciplined /\ Orderly, ~stale', [QuiesceNext]_QuiesceVars PROVE BustOK'
  OBVIOUS
<1> USE QuiesceAssumption DEF Orderly, TypeInv, QuiesceTypeOK, percpu, global, locals,
      os, BustOK, OneActive, Active, CallOK, Quiescing
<1>1. ASSUME NEW c \in CPUs, os_call(c) PROVE BustOK'
  BY <1>1 DEF os_call, QuiesceGoto
<1>2. ASSUME NEW c \in CPUs, entry_count(c) PROVE BustOK'
  BY <1>2 DEF entry_count, QuiesceGoto
<1>3. ASSUME NEW c \in CPUs, entry_check(c) PROVE BustOK'
  BY <1>3 DEF entry_check, QuiesceGoto
<1>4. ASSUME NEW c \in CPUs, entry_holdoff(c) PROVE BustOK'
  BY <1>4 DEF entry_holdoff, QuiesceGoto
<1>5. ASSUME NEW c \in CPUs, entry_spin(c) PROVE BustOK'
  BY <1>5 DEF entry_spin, QuiesceGoto
<1>6. ASSUME NEW c \in CPUs, call_work(c) PROVE BustOK'
  BY <1>6 DEF call_work, QuiesceGoto
<1>7. ASSUME NEW c \in CPUs, entry_exit(c) PROVE BustOK'
  BY <1>7 DEF entry_exit, QuiesceGoto
<1>8. ASSUME NEW c \in CPUs, quiesce_busy(c) PROVE BustOK'
  BY <1>8 DEF quiesce_busy, QuiesceGoto, QuiesceReturns
<1>9. ASSUME NEW c \in CPUs, quiesce_begin(c) PROVE BustOK'
  BY <1>9 DEF quiesce_begin, QuiesceGoto, QuiesceType
<1>10. ASSUME NEW c \in CPUs, quiesce_own(c) PROVE BustOK'
  BY <1>10 DEF quiesce_own, QuiesceGoto
<1>11. ASSUME NEW c \in CPUs, quiesce_set(c) PROVE BustOK'
  BY <1>11 DEF quiesce_set, QuiesceGoto, QuiesceType
<1>12. ASSUME NEW c \in CPUs, quiesce_wait(c) PROVE BustOK'
  BY <1>12 DEF quiesce_wait
<1>13. ASSUME NEW c \in CPUs, quiesce_done(c) PROVE BustOK'
  BY <1>13 DEF quiesce_done, QuiesceGoto, QuiesceReturns
<1>14. ASSUME NEW c \in CPUs, quiesce_not_owner(c) PROVE BustOK'
  BY <1>14 DEF quiesce_not_owner, QuiesceGoto
<1>15. ASSUME NEW c \in CPUs, quiesce_break(c) PROVE BustOK'
  BY <1>15 DEF quiesce_break, QuiesceGoto
<1>16. ASSUME NEW c \in CPUs, quiesce_resume(c) PROVE BustOK'
  BY <1>16 DEF quiesce_resume, QuiesceGoto
<1>17. ASSUME NEW c \in CPUs, resume_one(c) PROVE BustOK'
  BY <1>17 DEF resume_one
<1>18. ASSUME NEW c \in CPUs, resume_done(c) PROVE BustOK'
  BY <1>18 DEF resume_done, QuiesceGoto
<1>19. CASE UNCHANGED QuiesceVars
  BY <1>19 DEF QuiesceVars, percpu, global, locals, os
<1> QED
  BY <1>1, <1>2, <1>3, <1>4, <1>5, <1>6, <1>7, <1>8, <1>9, <1>10, <1>11,
     <1>12, <1>13, <1>14, <1>15, <1>16, <1>17, <1>18, <1>19
  DEF QuiesceNext, OpalStep

\* A CPU that was told and is outside finds the flag when it enters.
LEMMA SeenOutStep == Disciplined /\ Orderly /\ ~stale' /\ [QuiesceNext]_QuiesceVars => SeenOut'
<1> SUFFICES ASSUME Disciplined /\ Orderly, ~stale', [QuiesceNext]_QuiesceVars PROVE SeenOut'
  OBVIOUS
<1> USE QuiesceAssumption DEF Orderly, TypeInv, QuiesceTypeOK, percpu, global, locals,
      os, SeenOut, ToldSees, Told, OneActive, Active, CallOK, Targets, Quiescing, Inside,
      CountExact
<1>1. ASSUME NEW c \in CPUs, os_call(c) PROVE SeenOut'
  BY <1>1 DEF os_call, QuiesceGoto
<1>2. ASSUME NEW c \in CPUs, entry_count(c) PROVE SeenOut'
  BY <1>2 DEF entry_count, QuiesceGoto
<1>3. ASSUME NEW c \in CPUs, entry_check(c) PROVE SeenOut'
  BY <1>3 DEF entry_check, QuiesceGoto
<1>4. ASSUME NEW c \in CPUs, entry_holdoff(c) PROVE SeenOut'
  BY <1>4 DEF entry_holdoff, QuiesceGoto
<1>5. ASSUME NEW c \in CPUs, entry_spin(c) PROVE SeenOut'
  BY <1>5 DEF entry_spin, QuiesceGoto
<1>6. ASSUME NEW c \in CPUs, call_work(c) PROVE SeenOut'
  BY <1>6 DEF call_work, QuiesceGoto
<1>7. ASSUME NEW c \in CPUs, entry_exit(c) PROVE SeenOut'
  BY <1>7 DEF entry_exit, QuiesceGoto
<1>8. ASSUME NEW c \in CPUs, quiesce_busy(c) PROVE SeenOut'
  BY <1>8 DEF quiesce_busy, QuiesceGoto, QuiesceReturns
<1>9. ASSUME NEW c \in CPUs, quiesce_begin(c) PROVE SeenOut'
  BY <1>9 DEF quiesce_begin, QuiesceGoto, QuiesceType
<1>10. ASSUME NEW c \in CPUs, quiesce_own(c) PROVE SeenOut'
  BY <1>10 DEF quiesce_own, QuiesceGoto
<1>11. ASSUME NEW c \in CPUs, quiesce_set(c) PROVE SeenOut'
  BY <1>11 DEF quiesce_set, QuiesceGoto, QuiesceType
<1>12. ASSUME NEW c \in CPUs, quiesce_wait(c) PROVE SeenOut'
  BY <1>12 DEF quiesce_wait
<1>13. ASSUME NEW c \in CPUs, quiesce_done(c) PROVE SeenOut'
  BY <1>13 DEF quiesce_done, QuiesceGoto, QuiesceReturns
<1>14. ASSUME NEW c \in CPUs, quiesce_not_owner(c) PROVE SeenOut'
  BY <1>14 DEF quiesce_not_owner, QuiesceGoto
<1>15. ASSUME NEW c \in CPUs, quiesce_break(c) PROVE SeenOut'
  BY <1>15 DEF quiesce_break, QuiesceGoto
<1>16. ASSUME NEW c \in CPUs, quiesce_resume(c) PROVE SeenOut'
  BY <1>16 DEF quiesce_resume, QuiesceGoto
<1>17. ASSUME NEW c \in CPUs, resume_one(c) PROVE SeenOut'
  BY <1>17 DEF resume_one
<1>18. ASSUME NEW c \in CPUs, resume_done(c) PROVE SeenOut'
  BY <1>18 DEF resume_done, QuiesceGoto
<1>19. CASE UNCHANGED QuiesceVars
  BY <1>19 DEF QuiesceVars, percpu, global, locals, os
<1> QED
  BY <1>1, <1>2, <1>3, <1>4, <1>5, <1>6, <1>7, <1>8, <1>9, <1>10, <1>11,
     <1>12, <1>13, <1>14, <1>15, <1>16, <1>17, <1>18, <1>19
  DEF QuiesceNext, OpalStep

\* The same holds after opal_quiesce has returned OPAL_SUCCESS, until the flags are cleared.
LEMMA QuietStep == Disciplined /\ Orderly /\ ~stale' /\ [QuiesceNext]_QuiesceVars => NoneInside'
<1> SUFFICES ASSUME Disciplined /\ Orderly, ~stale', [QuiesceNext]_QuiesceVars PROVE NoneInside'
  OBVIOUS
<1> USE QuiesceAssumption DEF Orderly, TypeInv, QuiesceTypeOK, percpu, global, locals,
      os, NoneInside, SeenOut, ToldSees, Told, OneActive, Active, CallOK, Targets,
      Quiescing, Inside
<1>1. ASSUME NEW c \in CPUs, os_call(c) PROVE NoneInside'
  BY <1>1 DEF os_call, QuiesceGoto
<1>2. ASSUME NEW c \in CPUs, entry_count(c) PROVE NoneInside'
  BY <1>2 DEF entry_count, QuiesceGoto
<1>3. ASSUME NEW c \in CPUs, entry_check(c) PROVE NoneInside'
  BY <1>3 DEF entry_check, QuiesceGoto
<1>4. ASSUME NEW c \in CPUs, entry_holdoff(c) PROVE NoneInside'
  BY <1>4 DEF entry_holdoff, QuiesceGoto
<1>5. ASSUME NEW c \in CPUs, entry_spin(c) PROVE NoneInside'
  BY <1>5 DEF entry_spin, QuiesceGoto
<1>6. ASSUME NEW c \in CPUs, call_work(c) PROVE NoneInside'
  BY <1>6 DEF call_work, QuiesceGoto
<1>7. ASSUME NEW c \in CPUs, entry_exit(c) PROVE NoneInside'
  BY <1>7 DEF entry_exit, QuiesceGoto
<1>8. ASSUME NEW c \in CPUs, quiesce_busy(c) PROVE NoneInside'
  BY <1>8 DEF quiesce_busy, QuiesceGoto, QuiesceReturns
<1>9. ASSUME NEW c \in CPUs, quiesce_begin(c) PROVE NoneInside'
  BY <1>9 DEF quiesce_begin, QuiesceGoto, QuiesceType
<1>10. ASSUME NEW c \in CPUs, quiesce_own(c) PROVE NoneInside'
  BY <1>10 DEF quiesce_own, QuiesceGoto
<1>11. ASSUME NEW c \in CPUs, quiesce_set(c) PROVE NoneInside'
  BY <1>11 DEF quiesce_set, QuiesceGoto, QuiesceType
<1>12. ASSUME NEW c \in CPUs, quiesce_wait(c) PROVE NoneInside'
  BY <1>12 DEF quiesce_wait
<1>13. ASSUME NEW c \in CPUs, quiesce_done(c) PROVE NoneInside'
  BY <1>13 DEF quiesce_done, QuiesceGoto, QuiesceReturns
<1>14. ASSUME NEW c \in CPUs, quiesce_not_owner(c) PROVE NoneInside'
  BY <1>14 DEF quiesce_not_owner, QuiesceGoto
<1>15. ASSUME NEW c \in CPUs, quiesce_break(c) PROVE NoneInside'
  BY <1>15 DEF quiesce_break, QuiesceGoto
<1>16. ASSUME NEW c \in CPUs, quiesce_resume(c) PROVE NoneInside'
  BY <1>16 DEF quiesce_resume, QuiesceGoto
<1>17. ASSUME NEW c \in CPUs, resume_one(c) PROVE NoneInside'
  BY <1>17 DEF resume_one
<1>18. ASSUME NEW c \in CPUs, resume_done(c) PROVE NoneInside'
  BY <1>18 DEF resume_done, QuiesceGoto
<1>19. CASE UNCHANGED QuiesceVars
  BY <1>19 DEF QuiesceVars, percpu, global, locals, os
<1> QED
  BY <1>1, <1>2, <1>3, <1>4, <1>5, <1>6, <1>7, <1>8, <1>9, <1>10, <1>11,
     <1>12, <1>13, <1>14, <1>15, <1>16, <1>17, <1>18, <1>19
  DEF QuiesceNext, OpalStep

-----------------------------------------------------------------------------
\* The variables keep their types, and in_opal_call is 0 or 1, whatever the OS calls.
THEOREM QuiesceTypes == QuiesceSpec => []QuiesceTypeOK
<1>1. QuiesceInit => TypeInv
  BY QuiesceInitInv DEF Orderly
<1>2. TypeInv /\ [QuiesceNext]_QuiesceVars => TypeInv'
  BY QuiesceTypesStep, CountStep, TargetStep DEF TypeInv
<1>3. TypeInv => QuiesceTypeOK
  BY DEF TypeInv
<1> QED
  BY <1>1, <1>2, <1>3, PTL DEF QuiesceSpec

\* What a call with a stale owner has spoilt stays spoilt.
LEMMA StaleStays == stale /\ [QuiesceNext]_QuiesceVars => stale'
<1> SUFFICES ASSUME stale, [QuiesceNext]_QuiesceVars PROVE stale'
  OBVIOUS
<1> USE DEF os
<1>1. ASSUME NEW c \in CPUs, os_call(c) \/ OpalStep(c) PROVE stale'
  BY <1>1 DEF os_call, OpalStep, entry_count, entry_check, entry_holdoff, entry_spin, call_work,
     entry_exit, quiesce_busy, quiesce_begin, quiesce_own, quiesce_set, quiesce_wait,
     quiesce_done, quiesce_not_owner, quiesce_break, quiesce_resume, resume_one, resume_done
<1>2. CASE UNCHANGED QuiesceVars
  BY <1>2 DEF QuiesceVars
<1> QED
  BY <1>1, <1>2 DEF QuiesceNext

\* The protocol invariant holds until a CPU without a quiesce has passed for the owner.
THEOREM QuiesceInvariant == Disciplined => (QuiesceSpec => []QuiesceInv)
<1> SUFFICES ASSUME Disciplined PROVE QuiesceSpec => []QuiesceInv
  OBVIOUS
<1>1. QuiesceInit => QuiesceInv
  BY QuiesceInitInv DEF QuiesceInv, Orderly
<1>2. QuiesceInv /\ [QuiesceNext]_QuiesceVars => QuiesceInv'
  <2> SUFFICES ASSUME QuiesceInv, [QuiesceNext]_QuiesceVars PROVE QuiesceInv'
    OBVIOUS
  <2>1. TypeInv'
    BY QuiesceTypesStep, CountStep, TargetStep DEF TypeInv, QuiesceInv
  <2>2. ASSUME ~stale' PROVE Orderly'
    <3>1. Orderly
      BY <2>2, StaleStays DEF QuiesceInv
    <3>2. (\A d \in CPUs : CallOK(d))'
      BY <2>2, <3>1, CallStep
    <3> QED
      BY <2>1, <2>2, <3>1, <3>2, ActiveStep, ToldStep, KeptStep, BustStep, SeenOutStep, QuietStep
      DEF Orderly
  <2> QED
    BY <2>1, <2>2 DEF QuiesceInv
<1> QED
  BY <1>1, <1>2, PTL DEF QuiesceSpec

\* From OPAL_SUCCESS of opal_quiesce until QUIESCE_RESUME, no target of it runs
\* code of OPAL, however many CPUs enter, spin, quiesce, or resume what they have
\* not quiesced, as long as the owner check turns the last away.
THEOREM QuiesceExcludes == Disciplined => (QuiesceSpec => []Quiesced)
<1> SUFFICES ASSUME Disciplined PROVE QuiesceSpec => []Quiesced
  OBVIOUS
<1>1. QuiesceInv => Quiesced
  BY DEF QuiesceInv, Orderly, NoneInside, Quiesced
<1> QED
  BY QuiesceInvariant, <1>1, PTL

\* The CPU that keeps another out is the active one, and not the one kept out.
LEMMA KeeperActive ==
  ASSUME Orderly, NEW b \in CPUs, NEW a \in CPUs, Keeps(b, a)
  PROVE  Active(b) /\ a # b
<1> USE QuiesceAssumption DEF Orderly
<1>1. Active(b)
  BY DEF Keeps, Active
<1>2. CallOK(b)
  OBVIOUS
<1>3. pc[b] \in {"set", "wait", "release"} => a \notin Targets(b) \/ a # b
  BY <1>2 DEF CallOK, Targets, Quiescing
<1> QED
  BY <1>1, <1>2, <1>3 DEF Keeps, CallOK

\* The active CPU is not kept out of OPAL.
LEMMA ActiveIsFree ==
  ASSUME Orderly, NEW c \in CPUs, Active(c)
  PROVE  quiesce_opal_call[c] = "none"
<1> SUFFICES ASSUME quiesce_opal_call[c] # "none" PROVE FALSE
  OBVIOUS
<1>1. PICK b \in CPUs : Keeps(b, c)
  BY DEF Orderly, KeptBySomeone
<1>2. Active(b) /\ c # b
  BY <1>1, KeeperActive
<1> QED
  BY <1>2 DEF Orderly, OneActive

\* QUIESCE_RESUME leaves no CPU kept out and no lock skipped behind, and does not fail
\* its assertion, with any CPU calling QUIESCE_RESUME and QUIESCE_LOCK_BREAK at any
\* time, until one that has quiesced nothing is let through.
THEOREM QuiesceResumed == Disciplined => (QuiesceSpec => []Resumed)
<1> SUFFICES ASSUME Disciplined PROVE QuiesceSpec => []Resumed
  OBVIOUS
<1>1. QuiesceInv => Resumed
  <2> SUFFICES ASSUME QuiesceInv PROVE Resumed
    OBVIOUS
  <2> USE QuiesceAssumption
  <2>1. QuiesceTypeOK
    BY DEF QuiesceInv, TypeInv
  <2>2. ASSUME Orderly, NEW d \in CPUs, quiesce_opal_call[d] # "none"
        PROVE  opal_quiesce_state # "none"
    <3>1. PICK c \in CPUs : Keeps(c, d)
      BY <2>2 DEF Orderly, KeptBySomeone
    <3>2. Active(c)
      BY <2>2, <3>1, KeeperActive
    <3> QED
      BY <2>2, <3>2 DEF Orderly, OneActive
  <2>3. ASSUME Orderly, bust_locks
        PROVE  opal_quiesce_state # "none" /\ \E c \in CPUs : force[c] = All
    <3>1. PICK c \in CPUs : force[c] = All
      BY <2>3 DEF Orderly, BustOK
    <3>2. Active(c)
      BY <3>1 DEF Active
    <3> QED
      BY <2>3, <3>1, <3>2 DEF Orderly, OneActive
  <2>4. ASSUME Orderly, NEW c \in CPUs, pc[c] = "release" PROVE quiesce_opal_call[c] = "none"
    BY <2>4, ActiveIsFree DEF Active
  <2> QED
    BY <2>1, <2>2, <2>3, <2>4 DEF Resumed, QuiesceInv
<1> QED
  BY QuiesceInvariant, <1>1, PTL

\* Whoever keeps a CPU out of OPAL can itself enter OPAL to let it in again.
THEOREM QuiesceKeeper == Disciplined => (QuiesceSpec => []KeeperIsFree)
<1> SUFFICES ASSUME Disciplined PROVE QuiesceSpec => []KeeperIsFree
  OBVIOUS
<1>1. QuiesceInv => KeeperIsFree
  <2>1. ASSUME Orderly, NEW d \in CPUs, quiesce_opal_call[d] # "none"
        PROVE \E c \in CPUs : Keeps(c, d) /\ quiesce_opal_call[c] = "none"
    <3>1. PICK c \in CPUs : Keeps(c, d)
      BY <2>1 DEF Orderly, KeptBySomeone
    <3>2. Active(c)
      BY <2>1, <3>1, KeeperActive
    <3>3. quiesce_opal_call[c] = "none"
      BY <2>1, <3>2, ActiveIsFree
    <3> QED
      BY <3>1, <3>3
  <2> QED
    BY <2>1 DEF QuiesceInv, KeeperIsFree
<1> QED
  BY QuiesceInvariant, <1>1, PTL
=============================================================================
