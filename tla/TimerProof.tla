----------------------------- MODULE TimerProof -----------------------------
(***************************************************************************)
(* Proofs about Timer, for any set of CPUs and of timers, any time and any *)
(* nesting: the lists are sound, no expiry is lost, and the timer core     *)
(* implements TimerService.                                                *)
(***************************************************************************)
EXTENDS Timer, WellFoundedInduction, TLAPS

Where == {"run", "peeked", "poll", "timers", "relock", "sync", "resync"}

\* The places inside of check_timers where no expiry function runs.
Checking == {"peeked", "poll", "timers"}

\* No element occurs twice.
Distinct(s) == \A i, j \in 1..Len(s) : s[i] = s[j] => i = j

\* Each list links a timer at most once, ...
ListsDistinct == Distinct(timer_list) /\ Distinct(timer_poll_list) /\ Distinct(list)

\* ... and no two lists share one.
ListsDisjoint ==
  /\ ToSet(timer_list) \cap ToSet(timer_poll_list) = {}
  /\ ToSet(timer_list) \cap ToSet(list) = {}
  /\ ToSet(timer_poll_list) \cap ToSet(list) = {}

\* A list is in the order of the targets its timers have.
Sorted(when, s) ==
  /\ \A i \in 1..Len(s) : when[s[i]] # TIMER_POLL
  /\ \A i, j \in 1..Len(s) : i < j => when[s[i]] <= when[s[j]]

ListSorted == Sorted(target, timer_list)

ListInv == ListsDistinct /\ ListsDisjoint /\ ListSorted

\* The private list of __check_poll_timers is in use only during a poll.
PollList == list # <<>> => timer_in_poll

\* The frames of a CPU say which timers it runs: every frame but the newest
\* one of a CPU inside of check_timers is about a timer, and t->running is that
\* CPU; a timer that runs has its frame.
FramesOf(c) ==
  /\ \A i \in 1..Len(frames[c]) :
       /\ frames[c][i].t = NoTimer <=> i = 1 /\ pc[c] \in Checking
       /\ frames[c][i].t # NoTimer => running[frames[c][i].t] = c
  /\ \A i, j \in 1..Len(frames[c]) : frames[c][i].t = frames[c][j].t => i = j
  /\ \A t \in Timers : running[t] = c => \E i \in 1..Len(frames[c]) : frames[c][i].t = t

\* Where a CPU is in its calls; a CPU with running_timer set is in a frame with
\* a timer.
CallsOf(c) ==
  /\ pc[c] \in Checking \cup {"relock"} => frames[c] # <<>>
  /\ pc[c] \in {"sync", "resync"} => frames[c] = <<>> /\ arg[c].t \in Timers
  /\ running_timer[c] => \E i \in 1..Len(frames[c]) : frames[c][i].t # NoTimer

FrameInv == \A c \in CPUs : FramesOf(c) /\ CallsOf(c)

\* The SBE knows of the first timer.
HeadTold == timer_list # <<>> => expiry <= target[Head(timer_list)]

\* The inductive invariant.
TimerInv == TypeOK /\ ListInv /\ PollList /\ FrameInv /\ NoLostExpiry

-----------------------------------------------------------------------------
(* Sequences. *)

\* A nonempty set of natural numbers has a least element, which is its Min.
LEMMA MinFacts ==
  ASSUME NEW S, S \subseteq Nat, S # {}
  PROVE  Min(S) \in S /\ \A y \in S : Min(S) <= y
<1>1. PICK x \in S : \A y \in S : ~(<<y, x>> \in OpToRel(<, Nat))
  BY NatLessThanWellFounded, WFMin
<1>2. \A y \in S : x <= y
  <2>1. \A y \in Nat : y < x => <<y, x>> \in OpToRel(<, Nat)
    BY DEF OpToRel
  <2>2. \A y \in Nat : ~(y < x) => x <= y
    OBVIOUS
  <2> QED
    BY <1>1, <2>1, <2>2
<1> QED
  BY <1>2 DEF Min

\* One sequence behind another.
LEMMA ConcatFacts ==
  ASSUME NEW T, NEW x \in Seq(T), NEW y \in Seq(T)
  PROVE  /\ x \o y \in Seq(T) /\ Len(x \o y) = Len(x) + Len(y)
         /\ Len(x) \in Nat /\ Len(y) \in Nat
         /\ \A i \in 1..Len(x) + Len(y) :
              (x \o y)[i] = IF i <= Len(x) THEN x[i] ELSE y[i - Len(x)]
OBVIOUS

\* list_del() of a timer that is on the list takes out its one link.
LEMMA RemoveLinked ==
  ASSUME NEW T, NEW s \in Seq(T), NEW t, \E i \in 1..Len(s) : s[i] = t
  PROVE  \E k \in 1..Len(s) :
           /\ s[k] = t
           /\ RemoveFirst(s, t) \in Seq(T)
           /\ Len(RemoveFirst(s, t)) = Len(s) - 1
           /\ \A i \in 1..Len(s) - 1 :
                RemoveFirst(s, t)[i] = IF i < k THEN s[i] ELSE s[i + 1]
<1> DEFINE I == {i \in 1..Len(s) : s[i] = t}
           k == Min(I)
<1>1. k \in I
  <2>1. I \subseteq Nat /\ I # {}
    OBVIOUS
  <2> HIDE DEF I
  <2> QED
    BY <2>1, MinFacts
<1>2. SelectInSeq(s, LAMBDA v : v = t) = k
  BY DEF SelectInSeq
<1>3. RemoveFirst(s, t) = SubSeq(s, 1, k - 1) \o SubSeq(s, k + 1, Len(s))
  BY <1>2 DEF RemoveFirst, RemoveAt
<1> HIDE DEF k
<1>4. k \in 1..Len(s) /\ s[k] = t
  BY <1>1
<1> HIDE DEF I
<1> DEFINE a == SubSeq(s, 1, k - 1)
           b == SubSeq(s, k + 1, Len(s))
<1>5. /\ a \in Seq(T) /\ Len(a) = k - 1 /\ \A i \in 1..k - 1 : a[i] = s[i]
      /\ b \in Seq(T) /\ Len(b) = Len(s) - k /\ \A i \in 1..Len(s) - k : b[i] = s[k + i]
  BY <1>4
<1> HIDE DEF a, b
<1>6. /\ a \o b \in Seq(T) /\ Len(a \o b) = Len(s) - 1
      /\ \A i \in 1..Len(s) - 1 : (a \o b)[i] = IF i < k THEN a[i] ELSE b[(i + 1) - k]
  <2>1. /\ a \o b \in Seq(T) /\ Len(a \o b) = Len(a) + Len(b) /\ Len(a) \in Nat /\ Len(b) \in Nat
        /\ \A i \in 1..Len(a) + Len(b) :
             (a \o b)[i] = IF i <= Len(a) THEN a[i] ELSE b[i - Len(a)]
    BY <1>5, ConcatFacts
  <2>2. Len(a) + Len(b) = Len(s) - 1
    BY <1>4, <1>5
  <2>3. \A i \in 1..Len(s) - 1 : (i <= Len(a) <=> i < k) /\ i - Len(a) = (i + 1) - k
    BY <1>4, <1>5
  <2> QED
    BY <2>1, <2>2, <2>3
<1>7. \A i \in 1..Len(s) - 1 : (a \o b)[i] = IF i < k THEN s[i] ELSE s[i + 1]
  <2> TAKE i \in 1..Len(s) - 1
  <2>1. CASE i < k
    BY <1>4, <1>5, <1>6, <2>1
  <2>2. CASE ~(i < k)
    <3>1. (i + 1) - k \in 1..Len(s) - k /\ k + ((i + 1) - k) = i + 1
      BY <1>4, <2>2
    <3> QED
      BY <1>5, <1>6, <2>2, <3>1
  <2> QED
    BY <2>1, <2>2
<1> QED
  BY <1>3, <1>4, <1>6, <1>7 DEF a, b

\* The timers on a list.
LEMMA ToSetSeq ==
  ASSUME NEW T, NEW s \in Seq(T)
  PROVE  /\ ToSet(s) = {s[i] : i \in 1..Len(s)} /\ ToSet(s) \subseteq T /\ Len(s) \in Nat
         /\ s = <<>> <=> ToSet(s) = {}
<1>1. DOMAIN s = 1..Len(s) /\ Len(s) \in Nat /\ \A i \in 1..Len(s) : s[i] \in T
  OBVIOUS
<1>2. ToSet(s) = {s[i] : i \in 1..Len(s)}
  BY <1>1 DEF ToSet
<1>3. s # <<>> => 1 \in 1..Len(s)
  BY <1>1
<1>4. s = <<>> => Len(s) = 0
  OBVIOUS
<1> QED
  BY <1>1, <1>2, <1>3, <1>4

\* What list_del() leaves: the others, in the same order.
LEMMA RemoveFacts ==
  ASSUME NEW T, NEW s \in Seq(T), NEW t, Distinct(s)
  PROVE  /\ RemoveFirst(s, t) \in Seq(T) /\ Distinct(RemoveFirst(s, t))
         /\ ToSet(RemoveFirst(s, t)) = ToSet(s) \ {t}
         /\ \A i, j \in 1..Len(RemoveFirst(s, t)) :
              \E x, y \in 1..Len(s) : /\ RemoveFirst(s, t)[i] = s[x]
                                      /\ RemoveFirst(s, t)[j] = s[y]
                                      /\ i < j => x < y
<1> DEFINE r == RemoveFirst(s, t)
<1>1. CASE \E i \in 1..Len(s) : s[i] = t
  <2>1. PICK k \in 1..Len(s) : /\ s[k] = t /\ r \in Seq(T) /\ Len(r) = Len(s) - 1
                               /\ \A i \in 1..Len(s) - 1 :
                                    r[i] = IF i < k THEN s[i] ELSE s[i + 1]
    BY <1>1, RemoveLinked
  <2> HIDE DEF r
  <2> DEFINE p(i) == IF i < k THEN i ELSE i + 1
  <2>2. \A i \in 1..Len(r) : p(i) \in 1..Len(s) /\ p(i) # k /\ r[i] = s[p(i)]
    BY <2>1
  <2>3. \A i, j \in 1..Len(r) : (i < j => p(i) < p(j)) /\ (p(i) = p(j) => i = j)
    BY <2>1
  <2>4. ASSUME NEW x \in 1..Len(s), x # k PROVE \E i \in 1..Len(r) : p(i) = x
    <3>1. CASE x < k
      BY <2>1, <3>1
    <3>2. CASE x > k
      <4>1. x - 1 \in 1..Len(r) /\ p(x - 1) = x
        BY <2>1, <3>2
      <4> QED
        BY <4>1
    <3> QED
      BY <2>4, <3>1, <3>2
  <2> HIDE DEF p
  <2>5. Distinct(r)
    <3> SUFFICES ASSUME NEW i \in 1..Len(r), NEW j \in 1..Len(r), r[i] = r[j] PROVE i = j
      BY DEF Distinct
    <3>1. s[p(i)] = s[p(j)] /\ p(i) \in 1..Len(s) /\ p(j) \in 1..Len(s)
      BY <2>2
    <3>2. p(i) = p(j)
      BY <3>1 DEF Distinct
    <3> QED
      BY <2>3, <3>2
  <2>6. \A i \in 1..Len(r) : r[i] # t
    BY <2>1, <2>2 DEF Distinct
  <2>7. ToSet(r) = ToSet(s) \ {t}
    <3>1. ToSet(r) = {r[i] : i \in 1..Len(r)} /\ ToSet(s) = {s[i] : i \in 1..Len(s)}
      BY <2>1, ToSetSeq
    <3>2. ToSet(r) \subseteq ToSet(s) \ {t}
      BY <2>2, <2>6, <3>1
    <3>3. ASSUME NEW x \in 1..Len(s), s[x] # t PROVE s[x] \in ToSet(r)
      <4>1. PICK i \in 1..Len(r) : p(i) = x
        BY <2>1, <2>4, <3>3
      <4> QED
        BY <2>2, <3>1, <4>1
    <3> QED
      BY <3>1, <3>2, <3>3
  <2>8. ASSUME NEW i \in 1..Len(r), NEW j \in 1..Len(r)
        PROVE  \E x, y \in 1..Len(s) : r[i] = s[x] /\ r[j] = s[y] /\ (i < j => x < y)
    BY <2>2, <2>3
  <2> QED
    BY <2>1, <2>5, <2>7, <2>8 DEF r
<1>2. CASE ~\E i \in 1..Len(s) : s[i] = t
  <2>1. r = s
    BY <1>2 DEF RemoveFirst
  <2>2. ToSet(s) = ToSet(s) \ {t}
    BY <1>2, ToSetSeq
  <2> QED
    BY <2>1, <2>2
<1> QED
  BY <1>1, <1>2

\* Taking out the top of a list.
LEMMA TailFacts ==
  ASSUME NEW T, NEW s \in Seq(T), s # <<>>, Distinct(s)
  PROVE  /\ Head(s) \in T /\ Head(s) = s[1] /\ 1 \in 1..Len(s) /\ Head(s) \in ToSet(s)
         /\ Tail(s) \in Seq(T) /\ Distinct(Tail(s)) /\ ToSet(Tail(s)) = ToSet(s) \ {Head(s)}
<1>1. Len(s) \in Nat /\ Len(s) > 0 /\ Head(s) = s[1] /\ s[1] \in T
  OBVIOUS
<1>2. /\ Tail(s) \in Seq(T) /\ Len(Tail(s)) = Len(s) - 1
      /\ \A i \in 1..Len(s) - 1 : Tail(s)[i] = s[i + 1]
  BY <1>1
<1>3. Distinct(Tail(s))
  BY <1>1, <1>2 DEF Distinct
<1>4. ToSet(Tail(s)) = {Tail(s)[i] : i \in 1..Len(s) - 1} /\ ToSet(s) = {s[i] : i \in 1..Len(s)}
  <2>1. ToSet(Tail(s)) = {Tail(s)[i] : i \in 1..Len(Tail(s))}
    BY <1>2, ToSetSeq
  <2> QED
    BY <1>2, <2>1, ToSetSeq
<1>5. ToSet(Tail(s)) \subseteq ToSet(s) \ {Head(s)}
  BY <1>1, <1>2, <1>4 DEF Distinct
<1>6. ASSUME NEW x \in 1..Len(s), s[x] # Head(s) PROVE s[x] \in ToSet(Tail(s))
  <2>1. x - 1 \in 1..Len(s) - 1 /\ (x - 1) + 1 = x
    BY <1>1, <1>6
  <2>2. Tail(s)[x - 1] = s[x]
    BY <1>2, <2>1
  <2> QED
    BY <1>4, <2>1, <2>2
<1> QED
  BY <1>1, <1>2, <1>3, <1>4, <1>5, <1>6

\* Adding to the end of a list what is not on it.
LEMMA AppendFacts ==
  ASSUME NEW T, NEW s \in Seq(T), NEW t \in T, t \notin ToSet(s), Distinct(s)
  PROVE  Append(s, t) \in Seq(T) /\ Distinct(Append(s, t)) /\ ToSet(Append(s, t)) = ToSet(s) \cup {t}
<1>1. /\ Append(s, t) \in Seq(T) /\ Len(Append(s, t)) = Len(s) + 1 /\ Len(s) \in Nat
      /\ Append(s, t)[Len(s) + 1] = t /\ \A i \in 1..Len(s) : Append(s, t)[i] = s[i]
  OBVIOUS
<1>2. \A i \in 1..Len(s) : s[i] # t
  BY ToSetSeq
<1>3. Distinct(Append(s, t))
  BY <1>1, <1>2 DEF Distinct
<1>4. /\ ToSet(Append(s, t)) = {Append(s, t)[i] : i \in 1..Len(s) + 1}
      /\ ToSet(s) = {s[i] : i \in 1..Len(s)}
  <2>1. ToSet(Append(s, t)) = {Append(s, t)[i] : i \in 1..Len(Append(s, t))}
    BY <1>1, ToSetSeq
  <2> QED
    BY <1>1, <2>1, ToSetSeq
<1>5. 1..Len(s) + 1 = 1..Len(s) \cup {Len(s) + 1}
  BY <1>1
<1> QED
  BY <1>1, <1>3, <1>4, <1>5

\* Where __schedule_timer_at links a timer: before all later ones and behind
\* the others.
LEMMA InsertPlace ==
  ASSUME NEW s \in Seq(Timers), NEW t \in Timers, NEW when
  PROVE  \E k \in 1..Len(s) + 1 :
           /\ Insert(s, t, when) \in Seq(Timers) /\ Len(Insert(s, t, when)) = Len(s) + 1
           /\ \A i \in 1..Len(s) + 1 :
                Insert(s, t, when)[i] = IF i < k THEN s[i] ELSE IF i = k THEN t ELSE s[i - 1]
           /\ \A i \in 1..k - 1 : ~(when < target[s[i]])
           /\ k <= Len(s) => when < target[s[k]]
<1> DEFINE I == {i \in 1..Len(s) : when < target[s[i]]}
           r == Insert(s, t, when)
<1>1. SelectInSeq(s, LAMBDA lt : when < target[lt]) = IF I # {} THEN Min(I) ELSE 0
  BY DEF SelectInSeq
<1>2. Len(s) \in Nat
  OBVIOUS
<1>3. CASE I = {}
  <2>1. r = Append(s, t)
    BY <1>1, <1>3 DEF Insert
  <2>2. \A i \in 1..Len(s) : ~(when < target[s[i]])
    BY <1>3
  <2> HIDE DEF r, I
  <2>3. /\ r \in Seq(Timers) /\ Len(r) = Len(s) + 1 /\ r[Len(s) + 1] = t
        /\ \A i \in 1..Len(s) : r[i] = s[i]
    BY <2>1
  <2>4. WITNESS Len(s) + 1 \in 1..Len(s) + 1
  <2> QED
    BY <1>2, <2>2, <2>3 DEF r
<1>4. CASE I # {}
  <2> DEFINE k == Min(I)
             a == SubSeq(s, 1, k - 1)
             b == SubSeq(s, k, Len(s))
  <2>1. k \in I /\ \A y \in I : k <= y
    <3>1. I \subseteq Nat
      OBVIOUS
    <3> HIDE DEF I
    <3> QED
      BY <1>4, <3>1, MinFacts
  <2>2. r = a \o <<t>> \o b
    <3>1. k # 0
      BY <2>1
    <3> QED
      BY <1>1, <1>4, <3>1 DEF Insert, InsertAt
  <2> HIDE DEF k
  <2>3. k \in 1..Len(s) /\ when < target[s[k]] /\ \A i \in 1..k - 1 : ~(when < target[s[i]])
    BY <2>1
  <2> HIDE DEF I, r
  <2>4. /\ a \in Seq(Timers) /\ Len(a) = k - 1 /\ \A i \in 1..k - 1 : a[i] = s[i]
        /\ b \in Seq(Timers) /\ Len(b) = (Len(s) - k) + 1
        /\ \A i \in 1..(Len(s) - k) + 1 : b[i] = s[(k + i) - 1]
    BY <2>3
  <2> HIDE DEF a, b
  <2> DEFINE d == a \o <<t>>
  <2>5. /\ d \in Seq(Timers) /\ Len(d) = k /\ d[k] = t
        /\ \A i \in 1..k - 1 : d[i] = s[i]
    <3> DEFINE e == <<t>>
    <3>1. e \in Seq(Timers) /\ Len(e) = 1 /\ e[1] = t
      OBVIOUS
    <3>2. k \in Nat \ {0} /\ Len(a) = k - 1 /\ (k - 1) + 1 = k
      BY <2>3, <2>4
    <3> HIDE DEF e
    <3>3. /\ d \in Seq(Timers) /\ Len(d) = Len(a) + Len(e)
          /\ \A i \in 1..Len(a) : d[i] = a[i]
          /\ \A i \in 1..Len(e) : d[Len(a) + i] = e[i]
      BY <2>4, <3>1, ConcatFacts DEF e
    <3>4. Len(d) = k /\ d[k] = t
      BY <3>1, <3>2, <3>3
    <3> QED
      BY <2>4, <3>2, <3>3, <3>4
  <2>6. r = d \o b
    BY <2>2
  <2> HIDE DEF d
  <2>7. /\ r \in Seq(Timers) /\ Len(r) = Len(s) + 1
        /\ \A i \in 1..k : r[i] = d[i]
        /\ \A i \in (k + 1)..(Len(s) + 1) : r[i] = b[i - k]
    <3>1. /\ r \in Seq(Timers) /\ Len(r) = Len(d) + Len(b)
          /\ \A i \in 1..Len(d) + Len(b) : r[i] = IF i <= Len(d) THEN d[i] ELSE b[i - Len(d)]
      BY <2>4, <2>5, <2>6, ConcatFacts
    <3>2. Len(d) + Len(b) = Len(s) + 1
      BY <2>3, <2>4, <2>5
    <3>3. \A i \in 1..k : i \in 1..Len(s) + 1 /\ i <= k
      BY <2>3
    <3>4. \A i \in (k + 1)..(Len(s) + 1) : i \in 1..Len(s) + 1 /\ ~(i <= k)
      BY <2>3
    <3> QED
      BY <2>5, <3>1, <3>2, <3>3, <3>4
  <2>8. ASSUME NEW i \in (k + 1)..(Len(s) + 1) PROVE r[i] = s[i - 1]
    <3>1. i - k \in 1..(Len(s) - k) + 1 /\ (k + (i - k)) - 1 = i - 1
      BY <2>3
    <3> QED
      BY <2>4, <2>7, <3>1
  <2>9. \A i \in 1..Len(s) + 1 : r[i] = IF i < k THEN s[i] ELSE IF i = k THEN t ELSE s[i - 1]
    BY <2>3, <2>5, <2>7, <2>8
  <2>10. k \in 1..Len(s) + 1
    BY <2>3
  <2> QED
    BY <2>3, <2>7, <2>9, <2>10 DEF r
<1> QED
  BY <1>3, <1>4

\* What is on the list then.
LEMMA InsertFacts ==
  ASSUME NEW s \in Seq(Timers), NEW t \in Timers, NEW when, t \notin ToSet(s), Distinct(s)
  PROVE  Distinct(Insert(s, t, when)) /\ ToSet(Insert(s, t, when)) = ToSet(s) \cup {t}
<1> DEFINE r == Insert(s, t, when)
<1>1. PICK k \in 1..Len(s) + 1 :
           /\ r \in Seq(Timers) /\ Len(r) = Len(s) + 1
           /\ \A i \in 1..Len(s) + 1 : r[i] = IF i < k THEN s[i] ELSE IF i = k THEN t ELSE s[i - 1]
  BY InsertPlace
<1> HIDE DEF r
<1>2. Len(s) \in Nat /\ \A i \in 1..Len(s) : s[i] # t
  BY ToSetSeq
<1>3. Distinct(r)
  <2> SUFFICES ASSUME NEW i \in 1..Len(r), NEW j \in 1..Len(r), r[i] = r[j] PROVE i = j
    BY DEF Distinct
  <2> DEFINE q(x) == IF x < k THEN x ELSE x - 1
  <2>1. \A x \in 1..Len(r) : x # k => q(x) \in 1..Len(s) /\ r[x] = s[q(x)]
    BY <1>1, <1>2
  <2>2. r[k] = t
    BY <1>1
  <2>3. \A x, y \in 1..Len(r) : x # k /\ y # k /\ q(x) = q(y) => x = y
    BY <1>1
  <2> HIDE DEF q
  <2>4. CASE i = k \/ j = k
    BY <1>2, <2>1, <2>2, <2>4
  <2>5. CASE i # k /\ j # k
    <3>1. s[q(i)] = s[q(j)] /\ q(i) \in 1..Len(s) /\ q(j) \in 1..Len(s)
      BY <2>1, <2>5
    <3>2. q(i) = q(j)
      BY <3>1 DEF Distinct
    <3> QED
      BY <2>3, <2>5, <3>2
  <2> QED
    BY <2>4, <2>5
<1>4. ToSet(r) = {r[i] : i \in 1..Len(r)} /\ ToSet(s) = {s[i] : i \in 1..Len(s)}
  BY <1>1, ToSetSeq
<1>5. \A i \in 1..Len(r) : r[i] \in ToSet(s) \cup {t}
  <2> TAKE i \in 1..Len(r)
  <2>1. CASE i < k
    BY <1>1, <1>2, <1>4, <2>1
  <2>2. CASE i = k
    BY <1>1, <2>2
  <2>3. CASE i > k
    <3>1. i - 1 \in 1..Len(s) /\ r[i] = s[i - 1]
      BY <1>1, <1>2, <2>3
    <3> QED
      BY <1>4, <3>1
  <2> QED
    BY <1>1, <1>2, <2>1, <2>2, <2>3
<1>6. t \in ToSet(r)
  <2>1. k \in 1..Len(r) /\ r[k] = t
    BY <1>1
  <2> QED
    BY <1>4, <2>1
<1>7. ASSUME NEW x \in 1..Len(s) PROVE s[x] \in ToSet(r)
  <2>1. CASE x < k
    <3>1. x \in 1..Len(r) /\ r[x] = s[x]
      BY <1>1, <1>2, <2>1
    <3> QED
      BY <1>4, <3>1
  <2>2. CASE ~(x < k)
    <3>1. x + 1 \in 1..Len(r) /\ (x + 1) - 1 = x /\ ~(x + 1 < k) /\ x + 1 # k
      BY <1>1, <1>2, <2>2
    <3>2. r[x + 1] = s[x]
      BY <1>1, <3>1
    <3> QED
      BY <1>4, <3>1, <3>2
  <2> QED
    BY <2>1, <2>2
<1> QED
  BY <1>3, <1>4, <1>5, <1>6, <1>7 DEF r

\* The timers on three lists one after the other.
LEMMA ThreeLists ==
  ASSUME NEW T, NEW p \in Seq(T), NEW q \in Seq(T), NEW r \in Seq(T)
  PROVE  /\ ToSet(p \o q \o r) = ToSet(p) \cup ToSet(q) \cup ToSet(r)
         /\ /\ Distinct(p) /\ Distinct(q) /\ Distinct(r)
            /\ ToSet(p) \cap ToSet(q) = {} /\ ToSet(p) \cap ToSet(r) = {}
            /\ ToSet(q) \cap ToSet(r) = {}
            => Distinct(p \o q \o r)
<1>1. ASSUME NEW x \in Seq(T), NEW y \in Seq(T)
      PROVE  /\ x \o y \in Seq(T) /\ ToSet(x \o y) = ToSet(x) \cup ToSet(y)
             /\ Distinct(x) /\ Distinct(y) /\ ToSet(x) \cap ToSet(y) = {} => Distinct(x \o y)
  <2> DEFINE z == x \o y
  <2>1. /\ z \in Seq(T) /\ Len(z) = Len(x) + Len(y) /\ Len(x) \in Nat /\ Len(y) \in Nat
        /\ \A i \in 1..Len(x) : z[i] = x[i]
        /\ \A i \in 1..Len(y) : z[Len(x) + i] = y[i]
        /\ \A i \in Len(x) + 1..Len(z) : z[i] = y[i - Len(x)]
    <3>1. /\ z \in Seq(T) /\ Len(z) = Len(x) + Len(y) /\ Len(x) \in Nat /\ Len(y) \in Nat
          /\ \A i \in 1..Len(x) : z[i] = x[i]
          /\ \A i \in Len(x) + 1..Len(z) : z[i] = y[i - Len(x)]
      OBVIOUS
    <3> HIDE DEF z
    <3>2. \A i \in 1..Len(y) : Len(x) + i \in Len(x) + 1..Len(z) /\ (Len(x) + i) - Len(x) = i
      BY <3>1
    <3> QED
      BY <3>1, <3>2
  <2> HIDE DEF z
  <2>2. /\ ToSet(z) = {z[i] : i \in 1..Len(z)} /\ ToSet(x) = {x[i] : i \in 1..Len(x)}
        /\ ToSet(y) = {y[i] : i \in 1..Len(y)}
    BY <2>1, ToSetSeq
  <2>3. \A i \in 1..Len(z) : \/ i \in 1..Len(x) /\ z[i] = x[i]
                             \/ i - Len(x) \in 1..Len(y) /\ z[i] = y[i - Len(x)]
                                /\ i = Len(x) + (i - Len(x))
    BY <2>1
  <2>4. (\A i \in 1..Len(x) : i \in 1..Len(z)) /\ \A i \in 1..Len(y) : Len(x) + i \in 1..Len(z)
    BY <2>1
  <2>5. ToSet(z) = ToSet(x) \cup ToSet(y)
    <3>1. ToSet(z) \subseteq ToSet(x) \cup ToSet(y)
      BY <2>2, <2>3
    <3>2. ToSet(x) \subseteq ToSet(z) /\ ToSet(y) \subseteq ToSet(z)
      BY <2>1, <2>2, <2>4
    <3> QED
      BY <3>1, <3>2
  <2>6. ASSUME Distinct(x), Distinct(y), ToSet(x) \cap ToSet(y) = {} PROVE Distinct(z)
    <3> SUFFICES ASSUME NEW i \in 1..Len(z), NEW j \in 1..Len(z), z[i] = z[j] PROVE i = j
      BY DEF Distinct
    <3>1. \A a \in 1..Len(x), b \in 1..Len(y) : x[a] # y[b]
      BY <2>2, <2>6
    <3>2. CASE i \in 1..Len(x) /\ z[i] = x[i]
      <4>1. j \in 1..Len(x) /\ z[j] = x[j]
        BY <2>3, <3>1, <3>2
      <4> QED
        BY <2>6, <3>2, <4>1 DEF Distinct
    <3>3. CASE i - Len(x) \in 1..Len(y) /\ z[i] = y[i - Len(x)] /\ i = Len(x) + (i - Len(x))
      <4>1. j - Len(x) \in 1..Len(y) /\ z[j] = y[j - Len(x)] /\ j = Len(x) + (j - Len(x))
        BY <2>3, <3>1, <3>3
      <4>2. i - Len(x) = j - Len(x)
        BY <2>6, <3>3, <4>1 DEF Distinct
      <4> QED
        BY <3>3, <4>1, <4>2
    <3> QED
      BY <2>3, <3>2, <3>3
  <2> QED
    BY <2>1, <2>5, <2>6 DEF z
<1>2. p \o q \in Seq(T) /\ ToSet(p \o q) = ToSet(p) \cup ToSet(q)
  BY <1>1
<1> QED
  BY <1>1, <1>2

-----------------------------------------------------------------------------
(* The lists. *)

\* The types of the lists and of the targets.
LEMMA ListTypes ==
  ASSUME TypeOK
  PROVE  /\ timer_list \in Seq(Timers) /\ timer_poll_list \in Seq(Timers) /\ list \in Seq(Timers)
         /\ target \in [Timers -> Times \cup {TIMER_POLL}] /\ expiry \in Times \cup {Never}
BY DEF TypeOK

\* Times can be compared.
LEMMA TimeFacts ==
  /\ Times \subseteq Nat /\ Never \in Nat /\ \A x \in Times : x < Never
  /\ TIMER_POLL \notin Times
BY TimerAssumption DEF Times, Never

\* The timers on the list of timers have times for targets.
LEMMA ListTargets ==
  ASSUME TypeOK, ListSorted
  PROVE  \A i \in 1..Len(timer_list) : /\ timer_list[i] \in Timers
                                       /\ target[timer_list[i]] \in Times
<1> SUFFICES ASSUME NEW i \in 1..Len(timer_list)
             PROVE  timer_list[i] \in Timers /\ target[timer_list[i]] \in Times
  OBVIOUS
<1>1. timer_list[i] \in Timers
  BY ListTypes
<1> QED
  BY <1>1, ListTypes DEF ListSorted, Sorted

\* The top of the list of timers is its first element.
LEMMA ListHead ==
  ASSUME TypeOK, timer_list # <<>>
  PROVE  Head(timer_list) = timer_list[1] /\ 1 \in 1..Len(timer_list)
BY ListTypes

\* All that is linked is on one of the three lists.
LEMMA LinkedFacts ==
  ASSUME TypeOK
  PROVE  Linked = ToSet(timer_list) \cup ToSet(timer_poll_list) \cup ToSet(list)
BY ListTypes, ThreeLists DEF Linked

\* ... and so it is after a step.
LEMMA LinkedNext ==
  ASSUME timer_list' \in Seq(Timers), timer_poll_list' \in Seq(Timers), list' \in Seq(Timers)
  PROVE  Linked' = ToSet(timer_list') \cup ToSet(timer_poll_list') \cup ToSet(list')
BY ThreeLists DEF Linked

\* __remove_timer unlinks the timer and keeps the lists sound; the new top of
\* the list is not earlier.
LEMMA Unlinked ==
  ASSUME TypeOK, ListInv, NEW t \in Timers, __remove_timer(t), UNCHANGED target
  PROVE  /\ timer_list' \in Seq(Timers) /\ timer_poll_list' \in Seq(Timers)
         /\ list' \in Seq(Timers)
         /\ ListInv'
         /\ Linked' = Linked \ {t}
         /\ list' # <<>> => list # <<>>
         /\ HeadTold /\ UNCHANGED expiry => HeadTold'
<1>1. /\ timer_list' = RemoveFirst(timer_list, t)
      /\ timer_poll_list' = RemoveFirst(timer_poll_list, t)
      /\ list' = RemoveFirst(list, t)
  BY DEF __remove_timer
<1>2. Distinct(timer_list) /\ Distinct(timer_poll_list) /\ Distinct(list)
  BY DEF ListInv, ListsDistinct
<1>3. /\ timer_list' \in Seq(Timers) /\ Distinct(timer_list')
      /\ ToSet(timer_list') = ToSet(timer_list) \ {t}
      /\ \A i, j \in 1..Len(timer_list') :
           \E x, y \in 1..Len(timer_list) : /\ timer_list'[i] = timer_list[x]
                                            /\ timer_list'[j] = timer_list[y]
                                            /\ i < j => x < y
  <2> DEFINE r == RemoveFirst(timer_list, t)
  <2>1. /\ r \in Seq(Timers) /\ Distinct(r) /\ ToSet(r) = ToSet(timer_list) \ {t}
        /\ \A i, j \in 1..Len(r) :
             \E x, y \in 1..Len(timer_list) : /\ r[i] = timer_list[x] /\ r[j] = timer_list[y]
                                              /\ i < j => x < y
    BY <1>2, ListTypes, RemoveFacts
  <2>2. timer_list' = r
    BY <1>1
  <2> HIDE DEF r
  <2> QED
    BY <2>1, <2>2
<1>4. /\ timer_poll_list' \in Seq(Timers) /\ Distinct(timer_poll_list')
      /\ ToSet(timer_poll_list') = ToSet(timer_poll_list) \ {t}
      /\ list' \in Seq(Timers) /\ Distinct(list') /\ ToSet(list') = ToSet(list) \ {t}
  BY <1>1, <1>2, ListTypes, RemoveFacts
<1>5. ListsDistinct'
  BY <1>3, <1>4 DEF ListsDistinct, Distinct
<1>6. ListsDisjoint'
  BY <1>3, <1>4 DEF ListInv, ListsDisjoint
<1>7. ListSorted'
  <2>1. \A i \in 1..Len(timer_list') : target'[timer_list'[i]] # TIMER_POLL
    BY <1>3 DEF ListInv, ListSorted, Sorted
  <2>2. ASSUME NEW i \in 1..Len(timer_list'), NEW j \in 1..Len(timer_list'), i < j
        PROVE  target'[timer_list'[i]] <= target'[timer_list'[j]]
    <3>1. PICK x \in 1..Len(timer_list), y \in 1..Len(timer_list) :
                 timer_list'[i] = timer_list[x] /\ timer_list'[j] = timer_list[y] /\ x < y
      BY <1>3, <2>2
    <3> QED
      BY <3>1 DEF ListInv, ListSorted, Sorted
  <2> QED
    BY <2>1, <2>2 DEF ListSorted, Sorted
<1>8. Linked' = Linked \ {t}
  <2>1. Linked' = ToSet(timer_list') \cup ToSet(timer_poll_list') \cup ToSet(list')
    BY <1>3, <1>4, ThreeLists DEF Linked
  <2> QED
    BY <1>3, <1>4, <2>1, LinkedFacts
<1>9. list' # <<>> => list # <<>>
  <2>1. ToSet(list') \subseteq ToSet(list)
    BY <1>4
  <2>2. list = <<>> <=> ToSet(list) = {}
    BY ListTypes, ToSetSeq
  <2>3. list' = <<>> <=> ToSet(list') = {}
    BY <1>4, ToSetSeq
  <2> QED
    BY <2>1, <2>2, <2>3
<1>10. ASSUME HeadTold, UNCHANGED expiry, timer_list' # <<>>
       PROVE  expiry' <= target'[Head(timer_list')]
  <2>1. 1 \in 1..Len(timer_list') /\ Head(timer_list') = timer_list'[1]
    BY <1>3, <1>10
  <2>2. PICK x \in 1..Len(timer_list) : timer_list'[1] = timer_list[x]
    BY <1>3, <2>1
  <2>3. timer_list # <<>> /\ 1 \in 1..Len(timer_list) /\ Head(timer_list) = timer_list[1]
    BY <2>2, ListTypes
  <2>4. target[timer_list[1]] <= target[timer_list[x]]
        /\ target[timer_list[1]] \in Nat /\ target[timer_list[x]] \in Nat
    <3>1. target[timer_list[1]] \in Nat /\ target[timer_list[x]] \in Nat
      BY <2>2, <2>3, ListTargets, TimeFacts DEF ListInv
    <3>2. x = 1 \/ 1 < x
      BY <2>2, ListTypes
    <3>3. 1 < x => target[timer_list[1]] <= target[timer_list[x]]
      BY <2>2, <2>3 DEF ListInv, ListSorted, Sorted
    <3> QED
      BY <3>1, <3>2, <3>3
  <2>5. expiry <= target[timer_list[1]] /\ expiry \in Nat
    BY <1>10, <2>3, ListTypes, TimeFacts DEF HeadTold
  <2>6. expiry <= target[timer_list[x]]
    BY <2>4, <2>5
  <2> QED
    BY <1>10, <2>1, <2>2, <2>6
<1>11. HeadTold /\ UNCHANGED expiry => HeadTold'
  BY <1>10 DEF HeadTold
<1> QED
  BY <1>3, <1>4, <1>5, <1>6, <1>7, <1>8, <1>9, <1>11 DEF ListInv

\* Only the first element of a sorted list can be the earliest: where Insert
\* links the timer keeps the order.
LEMMA InsertSorted ==
  ASSUME NEW s \in Seq(Timers), NEW t \in Timers, NEW when \in Times, t \notin ToSet(s),
         target \in [Timers -> Times \cup {TIMER_POLL}],
         Sorted(target, s)
  PROVE  /\ Insert(s, t, when) \in Seq(Timers) /\ Insert(s, t, when) # <<>>
         /\ Sorted([target EXCEPT ![t] = when], Insert(s, t, when))
         /\ \/ Head(Insert(s, t, when)) = t
            \/ s # <<>> /\ Head(Insert(s, t, when)) = s[1] /\ s[1] # t
<1> DEFINE r == Insert(s, t, when)
           updated == [target EXCEPT ![t] = when]
<1>0. /\ \A i \in 1..Len(s) : target[s[i]] # TIMER_POLL
      /\ \A i, j \in 1..Len(s) : i < j => target[s[i]] <= target[s[j]]
  BY DEF Sorted
<1>1. PICK k \in 1..Len(s) + 1 :
           /\ r \in Seq(Timers) /\ Len(r) = Len(s) + 1
           /\ \A i \in 1..Len(s) + 1 : r[i] = IF i < k THEN s[i] ELSE IF i = k THEN t ELSE s[i - 1]
           /\ \A i \in 1..k - 1 : ~(when < target[s[i]])
           /\ k <= Len(s) => when < target[s[k]]
  BY InsertPlace
<1> HIDE DEF r
<1>2. Len(s) \in Nat /\ \A i \in 1..Len(s) : s[i] # t /\ s[i] \in Timers
  BY ToSetSeq
<1>3. /\ updated[t] = when /\ when \in Nat /\ when # TIMER_POLL
      /\ \A i \in 1..Len(s) : updated[s[i]] = target[s[i]] /\ target[s[i]] \in Nat
                              /\ updated[s[i]] # TIMER_POLL
  BY <1>0, <1>2, TimeFacts
<1> HIDE DEF updated
<1> DEFINE q(i) == IF i < k THEN i ELSE i - 1
<1>4. r[k] = t /\ \A i \in 1..Len(r) : i # k => q(i) \in 1..Len(s) /\ r[i] = s[q(i)]
  BY <1>1, <1>2
<1> HIDE DEF q
<1>5. \A i \in 1..k - 1 : target[s[i]] <= when
  BY <1>1, <1>2, <1>3
<1>6. \A i \in k..Len(s) : when <= target[s[i]]
  <2> SUFFICES ASSUME NEW i \in k..Len(s) PROVE when <= target[s[i]]
    OBVIOUS
  <2>1. k \in 1..Len(s) /\ i \in 1..Len(s) /\ (i = k \/ k < i)
    BY <1>1, <1>2
  <2>2. when < target[s[k]]
    BY <1>1, <2>1
  <2>3. target[s[k]] <= target[s[i]]
    BY <1>0, <1>3, <2>1
  <2> QED
    BY <1>3, <2>1, <2>2, <2>3
<1>7. \A i \in 1..Len(r) : updated[r[i]] # TIMER_POLL
  <2> TAKE i \in 1..Len(r)
  <2>1. CASE i = k
    BY <1>3, <1>4, <2>1
  <2>2. CASE i # k
    BY <1>3, <1>4, <2>2
  <2> QED
    BY <2>1, <2>2
<1>8. ASSUME NEW i \in 1..Len(r), NEW j \in 1..Len(r), i < j
      PROVE  updated[r[i]] <= updated[r[j]]
  <2>1. CASE i = k
    <3>1. j # k /\ q(j) \in k..Len(s)
      BY <1>1, <1>2, <1>8, <2>1 DEF q
    <3> QED
      BY <1>3, <1>4, <1>6, <2>1, <3>1
  <2>2. CASE j = k
    <3>1. i # k /\ q(i) \in 1..k - 1
      BY <1>1, <1>2, <1>8, <2>2 DEF q
    <3> QED
      BY <1>3, <1>4, <1>5, <2>2, <3>1
  <2>3. CASE i # k /\ j # k
    <3>1. q(i) < q(j)
      BY <1>1, <1>2, <1>8, <2>3 DEF q
    <3>2. /\ q(i) \in 1..Len(s) /\ q(j) \in 1..Len(s)
          /\ r[i] = s[q(i)] /\ r[j] = s[q(j)]
      BY <1>4, <2>3
    <3>3. updated[s[q(i)]] = target[s[q(i)]] /\ updated[s[q(j)]] = target[s[q(j)]]
      BY <1>3, <3>2
    <3>4. target[s[q(i)]] <= target[s[q(j)]]
      BY <1>0, <3>1, <3>2
    <3> QED
      BY <3>2, <3>3, <3>4
  <2> QED
    BY <2>1, <2>2, <2>3
<1>9. Sorted(updated, r)
  BY <1>7, <1>8 DEF Sorted
<1>10. r # <<>> /\ Head(r) = r[1] /\ 1 \in 1..Len(r)
  BY <1>1, <1>2
<1>11. CASE k = 1
  BY <1>1, <1>4, <1>10, <1>11, <1>9 DEF r, updated
<1>12. CASE k # 1
  <2>1. 1 \in 1..Len(s) /\ r[1] = s[1]
    BY <1>1, <1>2, <1>12
  <2>2. s # <<>>
    BY <2>1
  <2> QED
    BY <1>1, <1>2, <1>10, <1>9, <2>1, <2>2 DEF r, updated
<1> QED
  BY <1>11, <1>12

\* __schedule_timer_at links the timer once and keeps the lists sound; unless
\* this CPU runs a timer, the SBE knows of the first timer afterwards.
LEMMA Scheduled ==
  ASSUME TypeOK, ListInv, NEW c \in CPUs, NEW t \in Timers, NEW when \in Times \cup {TIMER_POLL},
         __schedule_timer_at(c, t, when), target' = [target EXCEPT ![t] = when]
  PROVE  /\ timer_list' \in Seq(Timers) /\ timer_poll_list' \in Seq(Timers)
         /\ list' \in Seq(Timers) /\ expiry' \in Times \cup {Never}
         /\ ListInv'
         /\ Linked' = Linked \cup {t}
         /\ list' # <<>> => list # <<>>
         /\ HeadTold /\ ~running_timer[c] => HeadTold'
<1> DEFINE s == RemoveFirst(timer_list, t)
           p == RemoveFirst(timer_poll_list, t)
<1>1. Distinct(timer_list) /\ Distinct(timer_poll_list) /\ Distinct(list)
  BY DEF ListInv, ListsDistinct
<1>2. /\ s \in Seq(Timers) /\ Distinct(s) /\ ToSet(s) = ToSet(timer_list) \ {t}
      /\ \A i, j \in 1..Len(s) :
           \E x, y \in 1..Len(timer_list) : /\ s[i] = timer_list[x] /\ s[j] = timer_list[y]
                                            /\ i < j => x < y
  BY <1>1, ListTypes, RemoveFacts
<1>3. /\ p \in Seq(Timers) /\ Distinct(p) /\ ToSet(p) = ToSet(timer_poll_list) \ {t}
      /\ list' = RemoveFirst(list, t)
      /\ list' \in Seq(Timers) /\ Distinct(list') /\ ToSet(list') = ToSet(list) \ {t}
  BY <1>1, ListTypes, RemoveFacts DEF __schedule_timer_at
<1>4. /\ timer_list' = IF when = TIMER_POLL THEN s ELSE Insert(s, t, when)
      /\ timer_poll_list' = p \o IF when = TIMER_POLL THEN <<t>> ELSE <<>>
      /\ TellSbe(c, t, when)
  BY DEF __schedule_timer_at
<1> HIDE DEF s, p
<1>5. t \notin ToSet(s) /\ t \notin ToSet(p) /\ t \notin ToSet(list')
  BY <1>2, <1>3
<1>6. list' # <<>> => list # <<>>
  <2>1. list = <<>> <=> ToSet(list) = {}
    BY ListTypes, ToSetSeq
  <2>2. list' = <<>> <=> ToSet(list') = {}
    BY <1>3, ToSetSeq
  <2> QED
    BY <1>3, <2>1, <2>2
<1>7. Sorted(target, s)
  <2>1. \A i \in 1..Len(s) : target[s[i]] # TIMER_POLL
    BY <1>2 DEF ListInv, ListSorted, Sorted
  <2>2. ASSUME NEW i \in 1..Len(s), NEW j \in 1..Len(s), i < j
        PROVE  target[s[i]] <= target[s[j]]
    <3>1. PICK x \in 1..Len(timer_list), y \in 1..Len(timer_list) :
                 s[i] = timer_list[x] /\ s[j] = timer_list[y] /\ x < y
      BY <1>2, <2>2
    <3> QED
      BY <3>1 DEF ListInv, ListSorted, Sorted
  <2> QED
    BY <2>1, <2>2 DEF Sorted
<1>8. ASSUME HeadTold, s # <<>> PROVE expiry <= target[s[1]] /\ expiry \in Nat
  <2>1. 1 \in 1..Len(s)
    BY <1>2, <1>8
  <2>2. PICK x \in 1..Len(timer_list) : s[1] = timer_list[x]
    BY <1>2, <2>1
  <2>3. timer_list # <<>> /\ 1 \in 1..Len(timer_list) /\ Head(timer_list) = timer_list[1]
    BY <2>2, ListTypes
  <2>4. target[timer_list[1]] \in Nat /\ target[timer_list[x]] \in Nat
    BY <2>2, <2>3, ListTargets, TimeFacts DEF ListInv
  <2>5. x = 1 \/ 1 < x
    BY <2>2, ListTypes
  <2>6. 1 < x => target[timer_list[1]] <= target[timer_list[x]]
    BY <2>2, <2>3 DEF ListInv, ListSorted, Sorted
  <2>7. expiry <= target[timer_list[1]] /\ expiry \in Nat
    BY <1>8, <2>3, ListTypes, TimeFacts DEF HeadTold
  <2>8. expiry <= target[timer_list[x]]
    BY <2>4, <2>5, <2>6, <2>7
  <2> QED
    BY <2>2, <2>7, <2>8
<1>9. \A x \in Timers : x # t => target'[x] = target[x]
  BY ListTypes
<1>10. CASE when = TIMER_POLL
  <2>1. timer_list' = s /\ timer_poll_list' = Append(p, t) /\ UNCHANGED expiry
    BY <1>3, <1>4, <1>10 DEF TellSbe
  <2>2. /\ timer_poll_list' \in Seq(Timers) /\ Distinct(timer_poll_list')
        /\ ToSet(timer_poll_list') = ToSet(p) \cup {t}
    BY <1>3, <1>5, <2>1, AppendFacts
  <2>3. \A i \in 1..Len(s) : s[i] \in Timers /\ s[i] # t
    <3>1. ToSet(s) = {s[i] : i \in 1..Len(s)} /\ ToSet(s) \subseteq Timers
      BY <1>2, ToSetSeq
    <3> QED
      BY <1>5, <3>1
  <2>4. ListsDistinct'
    BY <1>2, <1>3, <2>1, <2>2 DEF ListsDistinct, Distinct
  <2>5. ListsDisjoint'
    BY <1>2, <1>3, <1>5, <2>1, <2>2 DEF ListInv, ListsDisjoint
  <2>6. ListSorted'
    BY <1>7, <1>9, <2>1, <2>3 DEF ListSorted, Sorted
  <2>7. Linked' = Linked \cup {t}
    <3>1. Linked' = ToSet(timer_list') \cup ToSet(timer_poll_list') \cup ToSet(list')
      <4>1. timer_list' \in Seq(Timers)
        BY <1>2, <2>1
      <4> QED
        BY <1>3, <2>2, <4>1, ThreeLists DEF Linked
    <3> QED
      BY <1>2, <1>3, <2>1, <2>2, <3>1, LinkedFacts
  <2>8. HeadTold => HeadTold'
    <3> SUFFICES ASSUME HeadTold, s # <<>> PROVE expiry' <= target'[Head(s)]
      BY <2>1 DEF HeadTold
    <3>1. Head(s) = s[1] /\ 1 \in 1..Len(s)
      BY <1>2
    <3> QED
      BY <1>8, <1>9, <2>1, <2>3, <3>1
  <2> QED
    BY <1>2, <1>3, <1>6, <2>1, <2>2, <2>4, <2>5, <2>6, <2>7, <2>8, ListTypes DEF ListInv
<1>11. CASE when \in Times
  <2>0. when # TIMER_POLL
    BY <1>11, TimeFacts
  <2> DEFINE r == Insert(s, t, when)
  <2>1. timer_list' = r /\ timer_poll_list' = p
    BY <1>3, <1>4, <2>0
  <2>2. /\ r \in Seq(Timers) /\ r # <<>> /\ Sorted(target', r)
        /\ Head(r) = t \/ (s # <<>> /\ Head(r) = s[1] /\ target'[Head(r)] = target[s[1]])
    <3>1. s \in Seq(Timers) /\ t \notin ToSet(s)
      BY <1>2, <1>5
    <3>2. target \in [Timers -> Times \cup {TIMER_POLL}]
      BY ListTypes
    <3>3. /\ r \in Seq(Timers) /\ r # <<>> /\ Sorted([target EXCEPT ![t] = when], r)
          /\ Head(r) = t \/ (s # <<>> /\ Head(r) = s[1] /\ s[1] # t)
      BY <1>7, <1>11, <3>1, <3>2, InsertSorted
    <3>4. s # <<>> => s[1] \in Timers
      BY <3>1
    <3> HIDE DEF r
    <3> QED
      BY <1>9, <3>3, <3>4
  <2>3. Distinct(r) /\ ToSet(r) = ToSet(s) \cup {t}
    BY <1>2, <1>5, InsertFacts
  <2> HIDE DEF r
  <2>4. ListsDistinct'
    BY <1>3, <2>1, <2>3 DEF ListsDistinct, Distinct
  <2>5. ListsDisjoint'
    BY <1>2, <1>3, <1>5, <2>1, <2>3 DEF ListInv, ListsDisjoint
  <2>6. ListSorted'
    BY <2>1, <2>2 DEF ListSorted
  <2>7. Linked' = Linked \cup {t}
    <3>1. Linked' = ToSet(timer_list') \cup ToSet(timer_poll_list') \cup ToSet(list')
      BY <1>3, <2>1, <2>2, ThreeLists DEF Linked
    <3> QED
      BY <1>2, <1>3, <2>1, <2>3, <3>1, LinkedFacts
  <2>8. Head(r) \in Timers /\ target'[Head(r)] \in Times /\ target'[Head(r)] \in Nat
    <3>1. Head(r) \in Timers /\ 1 \in 1..Len(r) /\ Head(r) = r[1]
      BY <2>2
    <3>2. target'[Head(r)] \in Times \cup {TIMER_POLL} /\ target'[Head(r)] # TIMER_POLL
      BY <1>11, <2>2, <3>1, ListTypes DEF Sorted
    <3> QED
      BY <3>1, <3>2, TimeFacts
  <2>9. expiry \in Nat /\ expiry \in Times \cup {Never}
    BY ListTypes, TimeFacts
  <2>10. CASE ~running_timer[c] /\ (Head(r) = t \/ when < target[Head(r)])
    <3>1. expiry' = IF target'[Head(r)] < expiry THEN target'[Head(r)] ELSE expiry
      BY <1>4, <2>0, <2>1, <2>10 DEF TellSbe, update_timer_expiry
    <3>2. expiry' \in Times \cup {Never} /\ expiry' <= target'[Head(r)]
      BY <2>8, <2>9, <3>1
    <3>3. HeadTold'
      BY <2>1, <3>2 DEF HeadTold
    <3> QED
      BY <1>3, <1>6, <2>1, <2>2, <2>4, <2>5, <2>6, <2>7, <3>2, <3>3 DEF ListInv
  <2>11. CASE ~(~running_timer[c] /\ (Head(r) = t \/ when < target[Head(r)]))
    <3>1. UNCHANGED expiry
      BY <1>4, <2>0, <2>1, <2>11 DEF TellSbe
    <3>2. HeadTold /\ ~running_timer[c] => HeadTold'
      BY <1>8, <2>1, <2>2, <2>11, <3>1 DEF HeadTold
    <3> QED
      BY <1>3, <1>6, <2>1, <2>2, <2>4, <2>5, <2>6, <2>7, <2>9, <3>1, <3>2 DEF ListInv
  <2> QED
    BY <2>10, <2>11
<1> QED
  BY <1>10, <1>11

\* A step that leaves the lists alone.
LEMMA ListsKept ==
  ASSUME ListInv, UNCHANGED <<timer_list, timer_poll_list, list, target>>
  PROVE  ListInv' /\ Linked' = Linked
<1>1. ListInv'
  <2>1. ListsDistinct'
    BY DEF ListInv, ListsDistinct, Distinct
  <2>2. ListsDisjoint'
    BY DEF ListInv, ListsDisjoint
  <2>3. ListSorted'
    BY DEF ListInv, ListSorted, Sorted
  <2> QED
    BY <2>1, <2>2, <2>3 DEF ListInv
<1> QED
  BY <1>1 DEF Linked, ToSet

-----------------------------------------------------------------------------
(* The calls of check_timers. *)

\* A call begins: one more frame in front of the others.
LEMMA PushFacts ==
  ASSUME NEW T, NEW s \in Seq(T), NEW f \in T
  PROVE  /\ <<f>> \o s \in Seq(T) /\ Len(<<f>> \o s) = Len(s) + 1 /\ Len(s) \in Nat
         /\ <<f>> \o s # <<>>
         /\ (<<f>> \o s)[1] = f
         /\ \A i \in 2..Len(s) + 1 : (<<f>> \o s)[i] = s[i - 1] /\ i - 1 \in 1..Len(s)
         /\ \A i \in 1..Len(s) : (<<f>> \o s)[i + 1] = s[i] /\ i + 1 \in 2..Len(s) + 1
<1> DEFINE r == <<f>> \o s
<1>1. /\ r \in Seq(T) /\ Len(r) = 1 + Len(s) /\ Len(s) \in Nat
      /\ \A i \in 1..1 + Len(s) : r[i] = IF i <= 1 THEN <<f>>[i] ELSE s[i - 1]
  BY ConcatFacts
<1> HIDE DEF r
<1>2. r # <<>> /\ r[1] = f
  BY <1>1
<1>3. \A i \in 2..Len(s) + 1 : r[i] = s[i - 1] /\ i - 1 \in 1..Len(s)
  BY <1>1
<1>4. \A i \in 1..Len(s) : i + 1 \in 2..Len(s) + 1 /\ (i + 1) - 1 = i
  BY <1>1
<1>5. \A i \in 1..Len(s) : r[i + 1] = s[i]
  BY <1>3, <1>4
<1> QED
  BY <1>1, <1>2, <1>3, <1>4, <1>5 DEF r

\* A call ends: the newest frame goes.
LEMMA PopFacts ==
  ASSUME NEW T, NEW s \in Seq(T), s # <<>>
  PROVE  /\ Tail(s) \in Seq(T) /\ Len(Tail(s)) = Len(s) - 1 /\ Len(s) \in Nat \ {0}
         /\ \A i \in 1..Len(s) - 1 : Tail(s)[i] = s[i + 1] /\ i + 1 \in 2..Len(s)
         /\ \A i \in 2..Len(s) : Tail(s)[i - 1] = s[i] /\ i - 1 \in 1..Len(s) - 1
         /\ Head(s) = s[1] /\ s[1] \in T /\ 1 \in 1..Len(s)
<1>1. Len(s) \in Nat \ {0}
  OBVIOUS
<1>2. /\ Tail(s) \in Seq(T) /\ Len(Tail(s)) = Len(s) - 1
      /\ \A i \in 1..Len(s) - 1 : Tail(s)[i] = s[i + 1]
      /\ Head(s) = s[1] /\ s[1] \in T
  BY <1>1
<1>3. \A i \in 2..Len(s) : i - 1 \in 1..Len(s) - 1 /\ (i - 1) + 1 = i
  BY <1>1
<1>4. \A i \in 2..Len(s) : Tail(s)[i - 1] = s[i]
  BY <1>2, <1>3
<1>5. \A i \in 1..Len(s) - 1 : i + 1 \in 2..Len(s)
  BY <1>1
<1>6. 1 \in 1..Len(s)
  BY <1>1
<1> QED
  BY <1>1, <1>2, <1>3, <1>4, <1>5, <1>6

\* SetTop: the newest frame is replaced.
LEMMA SetTopFacts ==
  ASSUME NEW T, NEW s \in Seq(T), NEW f \in T, s # <<>>
  PROVE  /\ <<f>> \o Tail(s) \in Seq(T) /\ Len(<<f>> \o Tail(s)) = Len(s)
         /\ Len(s) \in Nat \ {0} /\ <<f>> \o Tail(s) # <<>>
         /\ (<<f>> \o Tail(s))[1] = f
         /\ \A i \in 2..Len(s) : (<<f>> \o Tail(s))[i] = s[i]
<1>1. /\ Tail(s) \in Seq(T) /\ Len(Tail(s)) = Len(s) - 1 /\ Len(s) \in Nat \ {0}
      /\ \A i \in 2..Len(s) : Tail(s)[i - 1] = s[i]
  BY PopFacts
<1> DEFINE u == Tail(s)
           r == <<f>> \o u
<1>2. /\ r \in Seq(T) /\ Len(r) = Len(u) + 1 /\ r # <<>> /\ r[1] = f
      /\ \A i \in 2..Len(u) + 1 : r[i] = u[i - 1]
  BY <1>1, PushFacts
<1> HIDE DEF r
<1>3. Len(u) + 1 = Len(s)
  BY <1>1
<1> QED
  BY <1>1, <1>2, <1>3 DEF r

\* The types of what a CPU is in.
LEMMA FrameTypes ==
  ASSUME TypeOK, NEW c \in CPUs
  PROVE  /\ frames[c] \in Seq(Frames) /\ frames \in [CPUs -> Seq(Frames)] /\ pc[c] \in Where
         /\ \A i \in 1..Len(frames[c]) : /\ frames[c][i] \in Frames
                                         /\ frames[c][i].t \in Timers \cup {NoTimer}
         /\ running \in [Timers -> CPUs \cup {NoCpu}] /\ running_timer \in [CPUs -> BOOLEAN]
         /\ pc \in [CPUs -> Where]
<1>1. frames[c] \in Seq(Frames) /\ pc[c] \in Where
  BY DEF TypeOK, Where
<1>2. ASSUME NEW i \in 1..Len(frames[c])
      PROVE  frames[c][i] \in Frames /\ frames[c][i].t \in Timers \cup {NoTimer}
  <2>1. frames[c][i] \in Frames
    BY <1>1
  <2> QED
    BY <2>1 DEF Frames
<1> QED
  BY <1>1, <1>2 DEF TypeOK, Where

\* A CPU is not disturbed by what others run.
LEMMA OthersKept ==
  ASSUME TypeOK, NEW d \in CPUs, FramesOf(d), CallsOf(d), frames'[d] = frames[d],
         pc'[d] = pc[d], arg'[d] = arg[d], running_timer'[d] = running_timer[d],
         \A t \in Timers : running'[t] = d <=> running[t] = d
  PROVE  FramesOf(d)' /\ CallsOf(d)'
<1>1. \A i \in 1..Len(frames[d]) : frames[d][i].t \in Timers \cup {NoTimer}
  BY FrameTypes
<1>2. FramesOf(d)'
  BY <1>1 DEF FramesOf
<1>3. CallsOf(d)'
  BY DEF CallsOf
<1> QED
  BY <1>2, <1>3

\* A step that enters or leaves no call of check_timers.
LEMMA FramesMoved ==
  ASSUME TypeOK, FrameInv, UNCHANGED <<frames, running, running_timer>>,
         \A d \in CPUs :
           /\ pc'[d] \in Checking <=> pc[d] \in Checking
           /\ pc'[d] = "relock" => frames[d] # <<>>
           /\ pc'[d] \in {"sync", "resync"} => frames[d] = <<>> /\ arg'[d].t \in Timers
  PROVE  FrameInv'
<1> SUFFICES ASSUME NEW d \in CPUs PROVE FramesOf(d)' /\ CallsOf(d)'
  BY DEF FrameInv
<1>1. FramesOf(d) /\ CallsOf(d)
  BY DEF FrameInv
<1>2. FramesOf(d)'
  BY <1>1 DEF FramesOf
<1>3. CallsOf(d)'
  BY <1>1 DEF CallsOf
<1> QED
  BY <1>2, <1>3

\* A frame more, a frame less.
Push(c, f) == frames' = [frames EXCEPT ![c] = <<f>> \o @]
Pop(c) == frames' = [frames EXCEPT ![c] = Tail(@)]

\* check_timers begins on a CPU that runs client code.
LEMMA FramesPushed ==
  ASSUME TypeOK, FrameInv, NEW c \in CPUs, NEW f \in Frames, f.t = NoTimer, pc[c] = "run",
         Goto(c, "peeked"), Push(c, f),
         UNCHANGED <<running, running_timer, arg>>
  PROVE  FrameInv'
<1> DEFINE s == frames[c]
           r == <<f>> \o s
<1>1. /\ r \in Seq(Frames) /\ Len(r) = Len(s) + 1 /\ Len(s) \in Nat /\ r # <<>>
      /\ r[1] = f
      /\ \A i \in 2..Len(s) + 1 : r[i] = s[i - 1] /\ i - 1 \in 1..Len(s)
      /\ \A i \in 1..Len(s) : r[i + 1] = s[i] /\ i + 1 \in 2..Len(s) + 1
  BY FrameTypes, PushFacts
<1>2. frames'[c] = r /\ pc'[c] = "peeked" /\ pc'[c] \in Checking /\ pc[c] \notin Checking
  BY FrameTypes DEF Goto, Checking, Push
<1> HIDE DEF r, s
<1>3. FramesOf(c) /\ CallsOf(c)
  BY DEF FrameInv
<1>4. \A i \in 1..Len(s) : s[i].t # NoTimer /\ running[s[i].t] = c
  BY <1>2, <1>3 DEF FramesOf, s
<1>5. \A i \in 1..Len(r) : i = 1 \/ (i \in 2..Len(s) + 1 /\ i # 1)
  BY <1>1
<1>6. FramesOf(c)'
  <2>1. ASSUME NEW i \in 1..Len(r)
        PROVE  /\ r[i].t = NoTimer <=> i = 1
               /\ r[i].t # NoTimer => running'[r[i].t] = c
    <3>1. CASE i = 1
      BY <1>1, <3>1
    <3>2. CASE i \in 2..Len(s) + 1 /\ i # 1
      BY <1>1, <1>4, <3>2
    <3> QED
      BY <1>5, <3>1, <3>2
  <2>2. ASSUME NEW i \in 1..Len(r), NEW j \in 1..Len(r), r[i].t = r[j].t PROVE i = j
    <3>1. CASE i = 1 \/ j = 1
      BY <2>1, <2>2, <3>1
    <3>2. CASE i # 1 /\ j # 1
      <4>1. i - 1 \in 1..Len(s) /\ j - 1 \in 1..Len(s) /\ s[i - 1].t = s[j - 1].t
        BY <1>1, <1>5, <2>2, <3>2
      <4>2. i - 1 = j - 1
        BY <1>3, <4>1 DEF FramesOf, s
      <4> QED
        BY <4>2
    <3> QED
      BY <3>1, <3>2
  <2>3. ASSUME NEW t \in Timers, running'[t] = c PROVE \E i \in 1..Len(r) : r[i].t = t
    <3>1. PICK i \in 1..Len(s) : s[i].t = t
      BY <1>3, <2>3 DEF FramesOf, s
    <3>2. i + 1 \in 1..Len(r) /\ r[i + 1].t = t
      BY <1>1, <3>1
    <3> QED
      BY <3>2
  <2> QED
    BY <1>2, <2>1, <2>2, <2>3 DEF FramesOf
<1>7. CallsOf(c)'
  <2>1. ASSUME running_timer[c] PROVE \E i \in 1..Len(r) : r[i].t # NoTimer
    <3>1. PICK i \in 1..Len(s) : s[i].t # NoTimer
      BY <1>3, <2>1 DEF CallsOf, s
    <3>2. i + 1 \in 1..Len(r) /\ r[i + 1].t # NoTimer
      BY <1>1, <3>1
    <3> QED
      BY <3>2
  <2> QED
    BY <1>1, <1>2, <2>1 DEF CallsOf
<1>8. ASSUME NEW d \in CPUs, d # c PROVE FramesOf(d)' /\ CallsOf(d)'
  <2>1. frames'[d] = frames[d] /\ pc'[d] = pc[d]
    BY <1>8, FrameTypes DEF Goto, Push
  <2> QED
    BY <2>1, OthersKept DEF FrameInv
<1> QED
  BY <1>6, <1>7, <1>8 DEF FrameInv

\* A CPU goes on inside of check_timers, with another newest frame that is
\* still about no timer.
LEMMA FramesChecking ==
  ASSUME TypeOK, FrameInv, NEW c \in CPUs, pc[c] \in Checking,
         NEW f \in Frames, f.t = NoTimer, SetTop(c, f),
         NEW where \in Checking, Goto(c, where),
         UNCHANGED <<running, running_timer, arg>>
  PROVE  FrameInv'
<1> DEFINE s == frames[c]
           r == <<f>> \o Tail(s)
<1>0. FramesOf(c) /\ CallsOf(c) /\ s # <<>> /\ s \in Seq(Frames)
  BY FrameTypes DEF FrameInv, CallsOf
<1>1. /\ r \in Seq(Frames) /\ Len(r) = Len(s) /\ Len(s) \in Nat \ {0} /\ r # <<>>
      /\ r[1] = f /\ \A i \in 2..Len(s) : r[i] = s[i]
  BY <1>0, SetTopFacts
<1>2. frames'[c] = r /\ pc'[c] = where
  BY FrameTypes DEF SetTop, Goto
<1> HIDE DEF r, s
<1>3. \A i \in 1..Len(s) : r[i].t = s[i].t
  <2>1. s[1].t = NoTimer
    BY <1>0, <1>1 DEF FramesOf, s
  <2>2. \A i \in 1..Len(s) : i = 1 \/ i \in 2..Len(s)
    BY <1>1
  <2> QED
    BY <1>1, <2>1, <2>2
<1>4. FramesOf(c)'
  BY <1>0, <1>1, <1>2, <1>3 DEF FramesOf, s
<1>5. CallsOf(c)'
  BY <1>0, <1>1, <1>2, <1>3 DEF CallsOf, s, Checking
<1>6. ASSUME NEW d \in CPUs, d # c PROVE FramesOf(d)' /\ CallsOf(d)'
  <2>1. frames'[d] = frames[d] /\ pc'[d] = pc[d]
    BY <1>6, FrameTypes DEF Goto, SetTop
  <2> QED
    BY <2>1, OthersKept DEF FrameInv
<1> QED
  BY <1>4, <1>5, <1>6 DEF FrameInv

\* An expiry function is called.
LEMMA FramesRun ==
  ASSUME TypeOK, FrameInv, NEW c \in CPUs, pc[c] \in Checking, NEW t \in Timers,
         running[t] = NoCpu, RunExpiry(c, t)
  PROVE  FrameInv'
<1> USE TimerAssumption
<1> DEFINE s == frames[c]
           f == [top(c) EXCEPT !.t = t]
           r == <<f>> \o Tail(s)
<1>0. FramesOf(c) /\ CallsOf(c) /\ s # <<>> /\ s \in Seq(Frames)
  BY FrameTypes DEF FrameInv, CallsOf
<1>1. f \in Frames /\ f.t = t
  <2>1. top(c) \in Frames
    BY <1>0, PopFacts DEF top
  <2> QED
    BY <2>1 DEF Frames
<1>2. /\ r \in Seq(Frames) /\ Len(r) = Len(s) /\ Len(s) \in Nat \ {0} /\ r # <<>>
      /\ r[1] = f /\ \A i \in 2..Len(s) : r[i] = s[i]
  <2> HIDE DEF f
  <2> QED
    BY <1>0, <1>1, SetTopFacts
<1>3. frames'[c] = r /\ pc'[c] = "run"
  BY FrameTypes DEF RunExpiry, SetTop, Goto
<1>4. /\ running' = [running EXCEPT ![t] = c] /\ running \in [Timers -> CPUs \cup {NoCpu}]
      /\ UNCHANGED arg
  BY FrameTypes DEF RunExpiry
<1> HIDE DEF f, r, s
<1>5. \A i \in 2..Len(s) : /\ s[i].t # NoTimer /\ running[s[i].t] = c /\ s[i].t # t
                           /\ i \in 1..Len(s) /\ i # 1
  BY <1>0, <1>2 DEF FramesOf, s
<1>6. \A i \in 1..Len(s) : i = 1 \/ i \in 2..Len(s)
  BY <1>2
<1>7. s[1].t = NoTimer
  BY <1>0, <1>2 DEF FramesOf, s
<1>8. \A i \in 2..Len(s) : s[i].t \in Timers
  BY <1>5, FrameTypes DEF s
<1>9. FramesOf(c)'
  <2>1. ASSUME NEW i \in 1..Len(r)
        PROVE  r[i].t # NoTimer /\ running'[r[i].t] = c
    <3>1. CASE i = 1
      BY <1>1, <1>2, <1>4, <3>1
    <3>2. CASE i \in 2..Len(s)
      BY <1>2, <1>4, <1>5, <1>8, <3>2
    <3> QED
      BY <1>2, <1>6, <3>1, <3>2
  <2>2. ASSUME NEW i \in 1..Len(r), NEW j \in 1..Len(r), r[i].t = r[j].t PROVE i = j
    <3>1. CASE i = 1 /\ j = 1
      BY <3>1
    <3>2. CASE i \in 2..Len(s) /\ j \in 2..Len(s)
      <4>1. s[i].t = s[j].t /\ i \in 1..Len(s) /\ j \in 1..Len(s)
        BY <1>2, <1>5, <2>2, <3>2
      <4> QED
        BY <1>0, <4>1 DEF FramesOf, s
    <3>3. CASE i = 1 /\ j \in 2..Len(s)
      BY <1>1, <1>2, <1>5, <2>2, <3>3
    <3>4. CASE i \in 2..Len(s) /\ j = 1
      BY <1>1, <1>2, <1>5, <2>2, <3>4
    <3> QED
      BY <1>2, <1>6, <3>1, <3>2, <3>3, <3>4
  <2>3. ASSUME NEW x \in Timers, running'[x] = c PROVE \E i \in 1..Len(r) : r[i].t = x
    <3>1. CASE x = t
      BY <1>1, <1>2, <3>1
    <3>2. CASE x # t
      <4>1. running[x] = c
        BY <1>4, <2>3, <3>2
      <4>2. PICK i \in 1..Len(s) : s[i].t = x
        BY <1>0, <4>1 DEF FramesOf, s
      <4>3. i \in 2..Len(s)
        BY <1>6, <1>7, <4>2
      <4> QED
        BY <1>2, <4>2, <4>3
    <3> QED
      BY <3>1, <3>2
  <2> QED
    BY <1>3, <2>1, <2>2, <2>3 DEF FramesOf, Checking
<1>10. CallsOf(c)'
  <2>1. 1 \in 1..Len(r) /\ r[1].t # NoTimer
    BY <1>1, <1>2
  <2> QED
    BY <1>3, <2>1 DEF CallsOf, Checking
<1>11. ASSUME NEW d \in CPUs, d # c PROVE FramesOf(d)' /\ CallsOf(d)'
  <2>1. /\ frames'[d] = frames[d] /\ pc'[d] = pc[d] /\ running_timer'[d] = running_timer[d]
        /\ arg'[d] = arg[d]
    BY <1>11, FrameTypes DEF Goto, SetTop, RunExpiry
  <2>2. \A x \in Timers : running'[x] = d <=> running[x] = d
    BY <1>4, <1>11
  <2> QED
    BY <2>1, <2>2, OthersKept DEF FrameInv
<1> QED
  BY <1>9, <1>10, <1>11 DEF FrameInv

\* An expiry function has returned.
LEMMA FramesRelock ==
  ASSUME TypeOK, FrameInv, NEW c \in CPUs, Relock(c)
  PROVE  FrameInv' /\ top(c).t \in Timers /\ running[top(c).t] = c
<1> USE TimerAssumption
<1> DEFINE s == frames[c]
           f == [top(c) EXCEPT !.t = NoTimer, !.stamp = IF top(c).poll THEN @ ELSE now]
           r == <<f>> \o Tail(s)
           u == top(c).t
<1>0. FramesOf(c) /\ CallsOf(c) /\ s # <<>> /\ s \in Seq(Frames) /\ pc[c] = "relock"
  BY FrameTypes DEF FrameInv, CallsOf, Relock
<1>1. f \in Frames /\ f.t = NoTimer /\ top(c) = s[1]
  <2>1. top(c) \in Frames /\ top(c) = s[1]
    BY <1>0, PopFacts DEF top
  <2>2. now \in Times
    BY DEF TypeOK
  <2> QED
    BY <2>1, <2>2 DEF Frames
<1>2. /\ r \in Seq(Frames) /\ Len(r) = Len(s) /\ Len(s) \in Nat \ {0} /\ r # <<>>
      /\ r[1] = f /\ \A i \in 2..Len(s) : r[i] = s[i]
  <2> HIDE DEF f
  <2> QED
    BY <1>0, <1>1, SetTopFacts
<1>3. frames'[c] = r /\ pc'[c] \in {"poll", "timers"}
  BY FrameTypes DEF Relock, SetTop, Goto
<1>4. /\ running' = [running EXCEPT ![u] = NoCpu] /\ running \in [Timers -> CPUs \cup {NoCpu}]
      /\ running_timer'[c] = FALSE /\ UNCHANGED arg
  BY FrameTypes DEF Relock
<1>5. u = s[1].t
  BY <1>1
<1> HIDE DEF f, r, s, u
<1>6. \A i \in 1..Len(s) : /\ s[i].t # NoTimer /\ running[s[i].t] = c
                           /\ i = 1 \/ (i # 1 /\ i \in 2..Len(s))
  BY <1>0, <1>2 DEF FramesOf, s, Checking
<1>7. \A i \in 1..Len(s) : s[i].t \in Timers
  BY <1>6, FrameTypes DEF s
<1>8. u \in Timers /\ running[u] = c
  BY <1>2, <1>5, <1>6, <1>7
<1>9. \A i \in 2..Len(s) : i \in 1..Len(s) /\ i # 1 /\ s[i].t # u
  BY <1>0, <1>2, <1>5 DEF FramesOf, s
<1>10. FramesOf(c)'
  <2>1. ASSUME NEW i \in 1..Len(r)
        PROVE  /\ r[i].t = NoTimer <=> i = 1
               /\ r[i].t # NoTimer => running'[r[i].t] = c
    <3>1. CASE i = 1
      BY <1>1, <1>2, <3>1
    <3>2. CASE i \in 2..Len(s)
      BY <1>2, <1>4, <1>6, <1>7, <1>9, <3>2
    <3> QED
      BY <1>2, <1>6, <3>1, <3>2
  <2>2. ASSUME NEW i \in 1..Len(r), NEW j \in 1..Len(r), r[i].t = r[j].t PROVE i = j
    <3>1. CASE i = 1 \/ j = 1
      BY <2>1, <2>2, <3>1
    <3>2. CASE i \in 2..Len(s) /\ j \in 2..Len(s)
      <4>1. s[i].t = s[j].t /\ i \in 1..Len(s) /\ j \in 1..Len(s)
        BY <1>2, <1>9, <2>2, <3>2
      <4> QED
        BY <1>0, <4>1 DEF FramesOf, s
    <3> QED
      BY <1>2, <1>6, <3>1, <3>2
  <2>3. ASSUME NEW x \in Timers, running'[x] = c PROVE \E i \in 1..Len(r) : r[i].t = x
    <3>1. running[x] = c /\ x # u
      BY <1>4, <1>8, <2>3
    <3>2. PICK i \in 1..Len(s) : s[i].t = x
      BY <1>0, <3>1 DEF FramesOf, s
    <3>3. i \in 2..Len(s)
      BY <1>5, <1>6, <3>1, <3>2
    <3> QED
      BY <1>2, <3>2, <3>3
  <2> QED
    BY <1>3, <2>1, <2>2, <2>3 DEF FramesOf, Checking
<1>11. CallsOf(c)'
  BY <1>2, <1>3, <1>4 DEF CallsOf
<1>12. ASSUME NEW d \in CPUs, d # c PROVE FramesOf(d)' /\ CallsOf(d)'
  <2>1. /\ frames'[d] = frames[d] /\ pc'[d] = pc[d] /\ running_timer'[d] = running_timer[d]
        /\ arg'[d] = arg[d]
    BY <1>12, FrameTypes DEF Goto, SetTop, Relock
  <2>2. \A x \in Timers : running'[x] = d <=> running[x] = d
    BY <1>4, <1>8, <1>12
  <2> QED
    BY <2>1, <2>2, OthersKept DEF FrameInv
<1>13. FrameInv'
  BY <1>10, <1>11, <1>12 DEF FrameInv
<1> QED
  BY <1>8, <1>13 DEF u

\* check_timers returns.
LEMMA FramesPopped ==
  ASSUME TypeOK, FrameInv, NEW c \in CPUs, pc[c] \in Checking,
         Pop(c), Goto(c, "run"),
         UNCHANGED <<running, running_timer, arg>>
  PROVE  FrameInv'
<1> DEFINE s == frames[c]
           r == Tail(s)
<1>0. FramesOf(c) /\ CallsOf(c) /\ s # <<>> /\ s \in Seq(Frames)
  BY FrameTypes DEF FrameInv, CallsOf
<1>1. /\ r \in Seq(Frames) /\ Len(r) = Len(s) - 1 /\ Len(s) \in Nat \ {0}
      /\ \A i \in 1..Len(s) - 1 : r[i] = s[i + 1] /\ i + 1 \in 2..Len(s)
      /\ \A i \in 2..Len(s) : r[i - 1] = s[i] /\ i - 1 \in 1..Len(s) - 1
      /\ 1 \in 1..Len(s)
  BY <1>0, PopFacts
<1>2. frames'[c] = r /\ pc'[c] = "run"
  BY FrameTypes DEF Goto, Pop
<1> HIDE DEF r, s
<1>3. \A i \in 2..Len(s) : /\ s[i].t # NoTimer /\ running[s[i].t] = c
                           /\ i \in 1..Len(s) /\ i # 1
  BY <1>0, <1>1 DEF FramesOf, s
<1>4. s[1].t = NoTimer
  BY <1>0, <1>1 DEF FramesOf, s
<1>5. \A i \in 1..Len(s) : i = 1 \/ i \in 2..Len(s)
  BY <1>1
<1>6. FramesOf(c)'
  <2>1. \A i \in 1..Len(r) : r[i].t # NoTimer /\ running'[r[i].t] = c
    BY <1>1, <1>3
  <2>2. ASSUME NEW i \in 1..Len(r), NEW j \in 1..Len(r), r[i].t = r[j].t PROVE i = j
    <3>1. s[i + 1].t = s[j + 1].t /\ i + 1 \in 1..Len(s) /\ j + 1 \in 1..Len(s)
      BY <1>1, <1>3, <2>2
    <3>2. i + 1 = j + 1
      BY <1>0, <3>1 DEF FramesOf, s
    <3> QED
      BY <3>2
  <2>3. ASSUME NEW x \in Timers, running'[x] = c PROVE \E i \in 1..Len(r) : r[i].t = x
    <3>1. PICK i \in 1..Len(s) : s[i].t = x
      BY <1>0, <2>3 DEF FramesOf, s
    <3>2. i \in 2..Len(s)
      BY <1>4, <1>5, <3>1, TimerAssumption
    <3>3. i - 1 \in 1..Len(r) /\ r[i - 1].t = x
      BY <1>1, <3>1, <3>2
    <3> QED
      BY <3>3
  <2> QED
    BY <1>2, <2>1, <2>2, <2>3 DEF FramesOf, Checking
<1>7. CallsOf(c)'
  <2>1. ASSUME running_timer[c] PROVE \E i \in 1..Len(r) : r[i].t # NoTimer
    <3>1. PICK i \in 1..Len(s) : s[i].t # NoTimer
      BY <1>0, <2>1 DEF CallsOf, s
    <3>2. i \in 2..Len(s)
      BY <1>4, <1>5, <3>1
    <3>3. i - 1 \in 1..Len(r) /\ r[i - 1].t # NoTimer
      BY <1>1, <3>1, <3>2
    <3> QED
      BY <3>3
  <2> QED
    BY <1>2, <2>1 DEF CallsOf, Checking
<1>8. ASSUME NEW d \in CPUs, d # c PROVE FramesOf(d)' /\ CallsOf(d)'
  <2>1. frames'[d] = frames[d] /\ pc'[d] = pc[d]
    BY <1>8, FrameTypes DEF Goto, Pop
  <2> QED
    BY <2>1, OthersKept DEF FrameInv
<1> QED
  BY <1>6, <1>7, <1>8 DEF FrameInv

-----------------------------------------------------------------------------
(* The steps. *)

\* sync_timer and cancel_timer unlink the timer or leave the lists alone.
LEMMA SyncLists ==
  ASSUME TypeOK, ListInv, NEW c \in CPUs, NEW t \in Timers, NEW cancel \in BOOLEAN,
         SyncBody(c, t, cancel)
  PROVE  /\ timer_list' \in Seq(Timers) /\ timer_poll_list' \in Seq(Timers)
         /\ list' \in Seq(Timers)
         /\ ListInv'
         /\ list' # <<>> => list # <<>>
         /\ HeadTold => HeadTold'
         /\ \/ /\ running[t] = NoCpu /\ Linked' = Linked \ {t}
               /\ cancelled' = cancelled \cup {t}
            \/ Linked' = Linked /\ UNCHANGED cancelled
<1>0. UNCHANGED <<target, expiry>>
  BY DEF SyncBody
<1>1. CASE UNCHANGED <<timer_list, timer_poll_list, list, cancelled>>
  <2>1. ListInv' /\ Linked' = Linked
    BY <1>0, <1>1, ListsKept
  <2>2. HeadTold => HeadTold'
    BY <1>0, <1>1 DEF HeadTold
  <2> QED
    BY <1>1, <2>1, <2>2, ListTypes
<1>2. CASE running[t] = NoCpu /\ __remove_timer(t) /\ cancelled' = cancelled \cup {t}
  BY <1>0, <1>2, Unlinked
<1> QED
  BY <1>1, <1>2 DEF SyncBody, Synced, MustWait

\* A timer that is started is unlinked.
LEMMA RunLists ==
  ASSUME TypeOK, ListInv, NEW c \in CPUs, NEW t \in Timers, RunExpiry(c, t)
  PROVE  /\ timer_list' \in Seq(Timers) /\ timer_poll_list' \in Seq(Timers)
         /\ list' \in Seq(Timers)
         /\ ListInv'
         /\ list' # <<>> => list # <<>>
         /\ Linked' = Linked \ {t}
         /\ running' = [running EXCEPT ![t] = c]
         /\ UNCHANGED <<cancelled, timer_in_poll>>
<1>1. __remove_timer(t) /\ UNCHANGED target
  BY DEF RunExpiry
<1>2. running' = [running EXCEPT ![t] = c] /\ UNCHANGED <<cancelled, timer_in_poll>>
  BY DEF RunExpiry
<1> QED
  BY <1>1, <1>2, Unlinked

\* __check_poll_timers moves the list of poll timers to its private list, ...
LEMMA PollLists ==
  ASSUME TypeOK, ListInv, list = <<>>, list' = timer_poll_list, timer_poll_list' = <<>>,
         UNCHANGED <<timer_list, target>>
  PROVE  ListInv' /\ Linked' = Linked
<1>1. ToSet(<<>>) = {} /\ Distinct(<<>>)
  BY DEF ToSet, Distinct
<1>2. ListsDistinct'
  BY <1>1 DEF ListInv, ListsDistinct, Distinct
<1>3. ListsDisjoint'
  BY <1>1 DEF ListInv, ListsDisjoint
<1>4. ListSorted'
  BY DEF ListInv, ListSorted
<1>5. Linked' = ToSet(timer_list') \cup ToSet(timer_poll_list') \cup ToSet(list')
  <2>1. timer_list' \in Seq(Timers) /\ timer_poll_list' \in Seq(Timers) /\ list' \in Seq(Timers)
    BY ListTypes
  <2> QED
    BY <2>1, LinkedNext
<1>6. Linked' = Linked
  BY <1>1, <1>5, LinkedFacts
<1> QED
  BY <1>2, <1>3, <1>4, <1>6 DEF ListInv

\* ... and a timer that is still running back.
LEMMA SkipLists ==
  ASSUME TypeOK, ListInv, list # <<>>, list' = Tail(list),
         timer_poll_list' = Append(timer_poll_list, Head(list)),
         UNCHANGED <<timer_list, target>>
  PROVE  /\ ListInv' /\ Linked' = Linked
         /\ timer_poll_list' \in Seq(Timers) /\ list' \in Seq(Timers)
<1>1. Distinct(timer_list) /\ Distinct(timer_poll_list) /\ Distinct(list)
  BY DEF ListInv, ListsDistinct
<1>2. /\ Head(list) \in Timers /\ Head(list) \in ToSet(list)
      /\ list' \in Seq(Timers) /\ Distinct(list') /\ ToSet(list') = ToSet(list) \ {Head(list)}
  BY <1>1, ListTypes, TailFacts
<1>3. Head(list) \notin ToSet(timer_poll_list) /\ Head(list) \notin ToSet(timer_list)
  BY <1>2 DEF ListInv, ListsDisjoint
<1>4. /\ timer_poll_list' \in Seq(Timers) /\ Distinct(timer_poll_list')
      /\ ToSet(timer_poll_list') = ToSet(timer_poll_list) \cup {Head(list)}
  BY <1>1, <1>2, <1>3, ListTypes, AppendFacts
<1>5. ListsDistinct'
  BY <1>1, <1>2, <1>4 DEF ListsDistinct, Distinct
<1>6. ListsDisjoint'
  BY <1>2, <1>3, <1>4 DEF ListInv, ListsDisjoint
<1>7. ListSorted'
  BY DEF ListInv, ListSorted
<1>8. Linked' = Linked
  <2>1. Linked' = ToSet(timer_list') \cup ToSet(timer_poll_list') \cup ToSet(list')
    <3>1. timer_list' \in Seq(Timers)
      BY ListTypes
    <3> QED
      BY <1>2, <1>4, <3>1, LinkedNext
  <2> QED
    BY <1>2, <1>4, <2>1, LinkedFacts
<1> QED
  BY <1>2, <1>4, <1>5, <1>6, <1>7, <1>8 DEF ListInv

\* The timer at the top of one of the lists is linked.
LEMMA TopLinked ==
  ASSUME TypeOK
  PROVE  /\ list # <<>> => Head(list) \in Timers /\ Head(list) \in Linked
         /\ timer_list # <<>> => Head(timer_list) \in Timers /\ Head(timer_list) \in Linked
<1>1. ASSUME NEW s \in Seq(Timers), s # <<>> PROVE Head(s) \in Timers /\ Head(s) \in ToSet(s)
  <2>1. 1 \in 1..Len(s) /\ Head(s) = s[1] /\ s[1] \in Timers
    BY <1>1
  <2> QED
    BY <2>1, ToSetSeq
<1> QED
  BY <1>1, ListTypes, LinkedFacts

\* A step that keeps the calls and leaves the SBE informed if it was.
LEMMA ToldKept ==
  ASSUME NoLostExpiry, UNCHANGED frames, HeadTold => HeadTold'
  PROVE  NoLostExpiry'
BY DEF NoLostExpiry, HeadTold

\* Nothing is promised while a CPU is in check_timers.
LEMMA ToldBusy ==
  ASSUME NEW c \in CPUs, frames'[c] # <<>>
  PROVE  NoLostExpiry'
BY DEF NoLostExpiry

\* The types of what a step leaves, in parts.
LEMMA TypesMade ==
  ASSUME TypeOK,
         timer_lock' \in CPUs \cup {NoCpu},
         timer_list' \in Seq(Timers), timer_poll_list' \in Seq(Timers), list' \in Seq(Timers),
         timer_in_poll' \in BOOLEAN,
         target' \in [Timers -> Times \cup {TIMER_POLL}],
         running' \in [Timers -> CPUs \cup {NoCpu}],
         running_timer' \in [CPUs -> BOOLEAN],
         expiry' \in Times \cup {Never}, now' \in Times,
         pc' \in [CPUs -> Where], frames' \in [CPUs -> Seq(Frames)],
         arg' \in [CPUs -> [t: Timers \cup {NoTimer}, cancel: BOOLEAN]],
         calls' \in 0..MaxCalls, cancelled' \subseteq Timers
  PROVE  TypeOK'
<1>1. {timer_list', timer_poll_list', list'} \subseteq Seq(Timers)
  OBVIOUS
<1> QED
  BY <1>1 DEF TypeOK, Where

\* Every step keeps the lists sound, and the private list empty outside of a
\* poll.
LEMMA ListStep == TimerInv /\ [Next]_vars => (ListInv /\ PollList)'
<1> SUFFICES ASSUME TimerInv, [Next]_vars PROVE (ListInv /\ PollList)'
  OBVIOUS
<1>0. TypeOK /\ ListInv /\ PollList /\ FrameInv /\ NoLostExpiry
  BY DEF TimerInv
<1>1. ASSUME NEW c \in CPUs, NEW t \in Timers, schedule_timer(c, t) PROVE (ListInv /\ PollList)'
  <2>1. PICK when \in Times \cup {TIMER_POLL} :
             /\ target' = [target EXCEPT ![t] = when]
             /\ __schedule_timer_at(c, t, when)
             /\ UNCHANGED timer_in_poll
    BY <1>1 DEF schedule_timer
  <2>2. ListInv' /\ (list' # <<>> => list # <<>>)
    BY <1>0, <2>1, Scheduled
  <2> QED
    BY <1>0, <2>1, <2>2 DEF PollList
<1>2. ASSUME NEW c \in CPUs, NEW t \in Timers, cancel_timer_async(c, t) PROVE (ListInv /\ PollList)'
  <2>1. __remove_timer(t) /\ UNCHANGED <<target, timer_in_poll>>
    BY <1>2 DEF cancel_timer_async
  <2>2. ListInv' /\ (list' # <<>> => list # <<>>)
    BY <1>0, <2>1, Unlinked
  <2> QED
    BY <1>0, <2>1, <2>2 DEF PollList
<1>3. ASSUME NEW c \in CPUs, NEW t \in Timers, sync_timer(c, t) PROVE (ListInv /\ PollList)'
  <2>1. SyncBody(c, t, FALSE) /\ UNCHANGED timer_in_poll
    BY <1>3 DEF sync_timer, SyncBody
  <2>2. ListInv' /\ (list' # <<>> => list # <<>>)
    BY <1>0, <2>1, SyncLists
  <2> QED
    BY <1>0, <2>1, <2>2 DEF PollList
<1>4. ASSUME NEW c \in CPUs, NEW t \in Timers, cancel_timer(c, t) PROVE (ListInv /\ PollList)'
  <2>1. SyncBody(c, t, TRUE) /\ UNCHANGED timer_in_poll
    BY <1>4 DEF cancel_timer, SyncBody
  <2>2. ListInv' /\ (list' # <<>> => list # <<>>)
    BY <1>0, <2>1, SyncLists
  <2> QED
    BY <1>0, <2>1, <2>2 DEF PollList
<1>5. ASSUME NEW c \in CPUs, check_timers(c) PROVE (ListInv /\ PollList)'
  <2>1. UNCHANGED <<timer_list, timer_poll_list, list, target, timer_in_poll>>
    BY <1>5 DEF check_timers, core
  <2> QED
    BY <1>0, <2>1, ListsKept DEF PollList
<1>6. ASSUME NEW c \in CPUs, SbeInterrupt(c) PROVE (ListInv /\ PollList)'
  <2>1. UNCHANGED <<timer_list, timer_poll_list, list, target, timer_in_poll>>
    BY <1>6 DEF SbeInterrupt, core
  <2> QED
    BY <1>0, <2>1, ListsKept DEF PollList
<1>7. ASSUME NEW c \in CPUs, SyncSees(c) PROVE (ListInv /\ PollList)'
  <2>1. UNCHANGED <<timer_list, timer_poll_list, list, target, timer_in_poll>>
    BY <1>7 DEF SyncSees, core
  <2> QED
    BY <1>0, <2>1, ListsKept DEF PollList
<1>8. ASSUME NEW c \in CPUs, SyncRelock(c) PROVE (ListInv /\ PollList)'
  <2>0. arg[c].t \in Timers /\ arg[c].cancel \in BOOLEAN
    <3>1. arg[c].t \in Timers
      BY <1>0, <1>8 DEF FrameInv, CallsOf, SyncRelock
    <3>2. arg[c] \in [t: Timers \cup {NoTimer}, cancel: BOOLEAN]
      BY <1>0 DEF TypeOK
    <3> QED
      BY <3>1, <3>2
  <2>1. SyncBody(c, arg[c].t, arg[c].cancel) /\ UNCHANGED timer_in_poll
    BY <1>8 DEF SyncRelock, SyncBody
  <2>2. ListInv' /\ (list' # <<>> => list # <<>>)
    BY <1>0, <2>0, <2>1, SyncLists
  <2> QED
    BY <1>0, <2>1, <2>2 DEF PollList
<1>9. ASSUME NEW c \in CPUs, CheckLock(c) PROVE (ListInv /\ PollList)'
  <2>1. UNCHANGED <<timer_list, target>>
    BY <1>9 DEF CheckLock
  <2>2. CASE UNCHANGED <<timer_in_poll, list, timer_poll_list>>
    BY <1>0, <2>1, <2>2, ListsKept DEF PollList
  <2>3. CASE ~timer_in_poll /\ timer_in_poll' = TRUE /\ list' = timer_poll_list
             /\ timer_poll_list' = <<>>
    <3>1. list = <<>>
      BY <1>0, <2>3 DEF PollList
    <3>2. ListInv'
      BY <1>0, <2>1, <2>3, <3>1, PollLists
    <3> QED
      BY <2>3, <3>2 DEF PollList
  <2> QED
    BY <1>9, <2>2, <2>3 DEF CheckLock
<1>10. ASSUME NEW c \in CPUs, PollSkip(c) PROVE (ListInv /\ PollList)'
  <2>1. /\ list # <<>> /\ list' = Tail(list)
        /\ timer_poll_list' = Append(timer_poll_list, Head(list))
        /\ UNCHANGED <<timer_list, target, timer_in_poll>>
    BY <1>10 DEF PollSkip
  <2>2. ListInv'
    BY <1>0, <2>1, SkipLists
  <2> QED
    BY <1>0, <2>1, <2>2 DEF PollList
<1>11. ASSUME NEW c \in CPUs, PollRun(c) PROVE (ListInv /\ PollList)'
  <2>1. /\ RunExpiry(c, Head(list)) /\ list # <<>> /\ running[Head(list)] = NoCpu
        /\ pc[c] \in Checking
    BY <1>11 DEF PollRun, Checking
  <2>2. Head(list) \in Timers /\ Head(list) \in Linked
    BY <1>0, <2>1, TopLinked
  <2>3. ListInv' /\ (list' # <<>> => list # <<>>) /\ UNCHANGED timer_in_poll
    BY <1>0, <2>1, <2>2, RunLists
  <2> QED
    BY <1>0, <2>3 DEF PollList
<1>12. ASSUME NEW c \in CPUs, PollDone(c) PROVE (ListInv /\ PollList)'
  <2>1. UNCHANGED <<timer_list, timer_poll_list, list, target>> /\ list = <<>>
    BY <1>12 DEF PollDone
  <2> QED
    BY <1>0, <2>1, ListsKept DEF PollList
<1>13. ASSUME NEW c \in CPUs, TimersRun(c) PROVE (ListInv /\ PollList)'
  <2>1. /\ RunExpiry(c, Head(timer_list)) /\ timer_list # <<>> /\ running[Head(timer_list)] = NoCpu
        /\ pc[c] \in Checking
    BY <1>13 DEF TimersRun, Checking
  <2>2. Head(timer_list) \in Timers /\ Head(timer_list) \in Linked
    BY <1>0, <2>1, TopLinked
  <2>3. ListInv' /\ (list' # <<>> => list # <<>>) /\ UNCHANGED timer_in_poll
    BY <1>0, <2>1, <2>2, RunLists
  <2> QED
    BY <1>0, <2>3 DEF PollList
<1>14. ASSUME NEW c \in CPUs, CheckDone(c) PROVE (ListInv /\ PollList)'
  <2>1. UNCHANGED <<timer_list, timer_poll_list, list, target, timer_in_poll>>
    BY <1>14 DEF CheckDone, core
  <2> QED
    BY <1>0, <2>1, ListsKept DEF PollList
<1>15. ASSUME NEW c \in CPUs, ExpiryReturns(c) PROVE (ListInv /\ PollList)'
  <2>1. UNCHANGED <<timer_list, timer_poll_list, list, target, timer_in_poll>>
    BY <1>15 DEF ExpiryReturns, core
  <2> QED
    BY <1>0, <2>1, ListsKept DEF PollList
<1>16. ASSUME NEW c \in CPUs, Relock(c) PROVE (ListInv /\ PollList)'
  <2>1. UNCHANGED <<timer_list, timer_poll_list, list, target, timer_in_poll>>
    BY <1>16 DEF Relock, core
  <2> QED
    BY <1>0, <2>1, ListsKept DEF PollList
<1>17. CASE Tick
  <2>1. UNCHANGED <<timer_list, timer_poll_list, list, target, timer_in_poll>>
    BY <1>17 DEF Tick, core
  <2> QED
    BY <1>0, <2>1, ListsKept DEF PollList
<1>18. CASE UNCHANGED vars
  <2>1. UNCHANGED <<timer_list, timer_poll_list, list, target, timer_in_poll>>
    BY <1>18 DEF vars, moving, core
  <2> QED
    BY <1>0, <2>1, ListsKept DEF PollList
<1> QED
  BY <1>1, <1>2, <1>3, <1>4, <1>5, <1>6, <1>7, <1>8, <1>9, <1>10, <1>11, <1>12,
     <1>13, <1>14, <1>15, <1>16, <1>17, <1>18
  DEF Next, CpuStep

\* Every step keeps the frames in accord with t->running and running_timer.
LEMMA FrameStep == TimerInv /\ [Next]_vars => FrameInv'
<1> SUFFICES ASSUME TimerInv, [Next]_vars PROVE FrameInv'
  OBVIOUS
<1>0. TypeOK /\ ListInv /\ PollList /\ FrameInv /\ NoLostExpiry
  BY DEF TimerInv
<1>1. ASSUME NEW c \in CPUs, NEW t \in Timers, schedule_timer(c, t) PROVE FrameInv'
  <2>1. UNCHANGED <<frames, running, running_timer, arg, pc>>
    BY <1>1 DEF schedule_timer, core
  <2> QED
    BY <1>0, <2>1, FramesMoved DEF FrameInv, CallsOf
<1>2. ASSUME NEW c \in CPUs, NEW t \in Timers, cancel_timer_async(c, t) PROVE FrameInv'
  <2>1. UNCHANGED <<frames, running, running_timer, arg, pc>>
    BY <1>2 DEF cancel_timer_async, core
  <2> QED
    BY <1>0, <2>1, FramesMoved DEF FrameInv, CallsOf
<1>3. ASSUME NEW c \in CPUs, NEW t \in Timers, sync_timer(c, t) PROVE FrameInv'
  <2>1. SyncBody(c, t, FALSE) /\ UNCHANGED <<frames, running, running_timer>> /\ frames[c] = <<>>
        /\ pc[c] \notin Checking
    BY <1>0, <1>3 DEF sync_timer, SyncBody, ClientCall, FrameInv, CallsOf, Checking
  <2>2. \/ pc' = [pc EXCEPT ![c] = "run"]
           /\ arg' = [arg EXCEPT ![c] = [t |-> NoTimer, cancel |-> FALSE]]
        \/ pc' = [pc EXCEPT ![c] = "sync"]
           /\ arg' = [arg EXCEPT ![c] = [t |-> t, cancel |-> FALSE]]
    BY <2>1 DEF SyncBody, Synced, MustWait, Goto
  <2>3. ASSUME NEW d \in CPUs
        PROVE  /\ pc'[d] \in Checking <=> pc[d] \in Checking
               /\ pc'[d] = "relock" => frames[d] # <<>>
               /\ pc'[d] \in {"sync", "resync"} => frames[d] = <<>> /\ arg'[d].t \in Timers
    <3>0. pc \in [CPUs -> Where] /\ arg \in [CPUs -> [t: Timers \cup {NoTimer}, cancel: BOOLEAN]]
      BY <1>0 DEF TypeOK, Where
    <3>1. CASE d # c
      <4>1. pc'[d] = pc[d] /\ arg'[d] = arg[d]
        BY <2>2, <3>0, <3>1
      <4> QED
        BY <1>0, <4>1 DEF FrameInv, CallsOf
    <3>2. CASE d = c
      <4>2. \/ pc'[c] = "run"
            \/ pc'[c] = "sync" /\ arg'[c] = [t |-> t, cancel |-> FALSE]
        BY <2>2, <3>0
      <4> QED
        BY <2>1, <3>2, <4>2 DEF Checking
    <3> QED
      BY <3>1, <3>2
  <2> QED
    BY <1>0, <2>1, <2>3, FramesMoved
<1>4. ASSUME NEW c \in CPUs, NEW t \in Timers, cancel_timer(c, t) PROVE FrameInv'
  <2>1. SyncBody(c, t, TRUE) /\ UNCHANGED <<frames, running, running_timer>> /\ frames[c] = <<>>
        /\ pc[c] \notin Checking
    BY <1>0, <1>4 DEF cancel_timer, SyncBody, ClientCall, FrameInv, CallsOf, Checking
  <2>2. \/ pc' = [pc EXCEPT ![c] = "run"]
           /\ arg' = [arg EXCEPT ![c] = [t |-> NoTimer, cancel |-> FALSE]]
        \/ pc' = [pc EXCEPT ![c] = "sync"]
           /\ arg' = [arg EXCEPT ![c] = [t |-> t, cancel |-> TRUE]]
    BY <2>1 DEF SyncBody, Synced, MustWait, Goto
  <2>3. ASSUME NEW d \in CPUs
        PROVE  /\ pc'[d] \in Checking <=> pc[d] \in Checking
               /\ pc'[d] = "relock" => frames[d] # <<>>
               /\ pc'[d] \in {"sync", "resync"} => frames[d] = <<>> /\ arg'[d].t \in Timers
    <3>0. pc \in [CPUs -> Where] /\ arg \in [CPUs -> [t: Timers \cup {NoTimer}, cancel: BOOLEAN]]
      BY <1>0 DEF TypeOK, Where
    <3>1. CASE d # c
      <4>1. pc'[d] = pc[d] /\ arg'[d] = arg[d]
        BY <2>2, <3>0, <3>1
      <4> QED
        BY <1>0, <4>1 DEF FrameInv, CallsOf
    <3>2. CASE d = c
      <4>2. \/ pc'[c] = "run"
            \/ pc'[c] = "sync" /\ arg'[c] = [t |-> t, cancel |-> TRUE]
        BY <2>2, <3>0
      <4> QED
        BY <2>1, <3>2, <4>2 DEF Checking
    <3> QED
      BY <3>1, <3>2
  <2> QED
    BY <1>0, <2>1, <2>3, FramesMoved
<1>5. ASSUME NEW c \in CPUs, check_timers(c) PROVE FrameInv'
  <2>1. /\ pc[c] = "run" /\ CheckPeek(c, FALSE)
        /\ UNCHANGED <<running, running_timer, arg>>
    BY <1>5 DEF check_timers, core
  <2>2. Frame(now, FALSE) \in Frames /\ Frame(now, FALSE).t = NoTimer
    BY <1>0 DEF TypeOK, Frame, Frames
  <2>3. CASE UNCHANGED <<pc, frames>>
    BY <1>0, <2>1, <2>3, FramesMoved DEF FrameInv, CallsOf
  <2>4. CASE Goto(c, "peeked") /\ Push(c, Frame(now, FALSE))
    BY <1>0, <2>1, <2>2, <2>4, FramesPushed
  <2> QED
    BY <2>1, <2>3, <2>4 DEF CheckPeek, Push
<1>6. ASSUME NEW c \in CPUs, SbeInterrupt(c) PROVE FrameInv'
  <2>1. /\ pc[c] = "run" /\ CheckPeek(c, TRUE)
        /\ UNCHANGED <<running, running_timer, arg>>
    BY <1>6 DEF SbeInterrupt, core
  <2>2. Frame(now, TRUE) \in Frames /\ Frame(now, TRUE).t = NoTimer
    BY <1>0 DEF TypeOK, Frame, Frames
  <2>3. CASE UNCHANGED <<pc, frames>>
    BY <1>0, <2>1, <2>3, FramesMoved DEF FrameInv, CallsOf
  <2>4. CASE Goto(c, "peeked") /\ Push(c, Frame(now, TRUE))
    BY <1>0, <2>1, <2>2, <2>4, FramesPushed
  <2> QED
    BY <2>1, <2>3, <2>4 DEF CheckPeek, Push
<1>7. ASSUME NEW c \in CPUs, SyncSees(c) PROVE FrameInv'
  <2>1. /\ pc[c] = "sync" /\ pc' = [pc EXCEPT ![c] = "resync"]
        /\ UNCHANGED <<frames, running, running_timer, arg>>
    BY <1>7 DEF SyncSees, Goto, core
  <2>2. ASSUME NEW d \in CPUs
        PROVE  /\ pc'[d] \in Checking <=> pc[d] \in Checking
               /\ pc'[d] = "relock" => frames[d] # <<>>
               /\ pc'[d] \in {"sync", "resync"} => frames[d] = <<>> /\ arg'[d].t \in Timers
    <3>1. pc'[d] = IF d = c THEN "resync" ELSE pc[d]
      BY <1>0, <2>1 DEF TypeOK
    <3>2. FramesOf(d) /\ CallsOf(d)
      BY <1>0 DEF FrameInv
    <3> QED
      BY <1>7, <2>1, <3>1, <3>2 DEF CallsOf, Checking, SyncSees
  <2> QED
    BY <1>0, <2>1, <2>2, FramesMoved
<1>8. ASSUME NEW c \in CPUs, SyncRelock(c) PROVE FrameInv'
  <2>0. arg[c].t \in Timers /\ arg[c].cancel \in BOOLEAN
    <3>1. arg[c].t \in Timers
      BY <1>0, <1>8 DEF FrameInv, CallsOf, SyncRelock
    <3>2. arg[c] \in [t: Timers \cup {NoTimer}, cancel: BOOLEAN]
      BY <1>0 DEF TypeOK
    <3> QED
      BY <3>1, <3>2
  <2>1. SyncBody(c, arg[c].t, arg[c].cancel) /\ UNCHANGED <<frames, running, running_timer>> /\ frames[c] = <<>>
        /\ pc[c] \notin Checking
    BY <1>0, <1>8 DEF SyncRelock, SyncBody, ClientCall, FrameInv, CallsOf, Checking
  <2>2. \/ pc' = [pc EXCEPT ![c] = "run"]
           /\ arg' = [arg EXCEPT ![c] = [t |-> NoTimer, cancel |-> FALSE]]
        \/ pc' = [pc EXCEPT ![c] = "sync"]
           /\ arg' = [arg EXCEPT ![c] = [t |-> arg[c].t, cancel |-> arg[c].cancel]]
    BY <2>1 DEF SyncBody, Synced, MustWait, Goto
  <2>3. ASSUME NEW d \in CPUs
        PROVE  /\ pc'[d] \in Checking <=> pc[d] \in Checking
               /\ pc'[d] = "relock" => frames[d] # <<>>
               /\ pc'[d] \in {"sync", "resync"} => frames[d] = <<>> /\ arg'[d].t \in Timers
    <3>0. pc \in [CPUs -> Where] /\ arg \in [CPUs -> [t: Timers \cup {NoTimer}, cancel: BOOLEAN]]
      BY <1>0 DEF TypeOK, Where
    <3>1. CASE d # c
      <4>1. pc'[d] = pc[d] /\ arg'[d] = arg[d]
        BY <2>2, <3>0, <3>1
      <4> QED
        BY <1>0, <4>1 DEF FrameInv, CallsOf
    <3>2. CASE d = c
      <4>2. \/ pc'[c] = "run"
            \/ pc'[c] = "sync" /\ arg'[c] = [t |-> arg[c].t, cancel |-> arg[c].cancel]
        BY <2>2, <3>0
      <4> QED
        BY <2>0, <2>1, <3>2, <4>2 DEF Checking
    <3> QED
      BY <3>1, <3>2
  <2> QED
    BY <1>0, <2>1, <2>3, FramesMoved
<1>9. ASSUME NEW c \in CPUs, CheckLock(c) PROVE FrameInv'
  <2>1. pc[c] \in Checking /\ frames[c] # <<>> /\ frames[c] \in Seq(Frames)
    BY <1>0, <1>9, FrameTypes DEF FrameInv, CallsOf, CheckLock, Checking
  <2>2. top(c) \in Frames /\ top(c).t = NoTimer
    <3>1. top(c) = frames[c][1] /\ top(c) \in Frames /\ 1 \in 1..Len(frames[c])
      BY <2>1, PopFacts DEF top
    <3> QED
      BY <1>0, <2>1, <3>1 DEF FrameInv, FramesOf
  <2>3. pc[c] = "peeked" /\ UNCHANGED <<running, running_timer, arg>>
    BY <1>9 DEF CheckLock
  <2>4. CASE Goto(c, "timers") /\ UNCHANGED frames
    <3>1. \A d \in CPUs : pc'[d] = IF d = c THEN "timers" ELSE pc[d]
      BY <1>0, <2>4 DEF Goto, TypeOK
    <3>2. \A d \in CPUs : CallsOf(d)
      BY <1>0 DEF FrameInv
    <3> QED
      BY <1>0, <2>3, <2>4, <3>1, <3>2, FramesMoved DEF Checking, CallsOf
  <2>5. CASE Goto(c, "poll") /\ SetTop(c, [top(c) EXCEPT !.poll = TRUE])
    <3>1. [top(c) EXCEPT !.poll = TRUE] \in Frames /\ [top(c) EXCEPT !.poll = TRUE].t = NoTimer
      BY <2>2 DEF Frames
    <3>2. "poll" \in Checking
      BY DEF Checking
    <3> QED
      BY <1>0, <2>1, <2>3, <2>5, <3>1, <3>2, FramesChecking
  <2> QED
    BY <1>9, <2>4, <2>5 DEF CheckLock
<1>10. ASSUME NEW c \in CPUs, PollSkip(c) PROVE FrameInv'
  <2>1. UNCHANGED <<frames, running, running_timer, arg, pc>>
    BY <1>10 DEF PollSkip, core
  <2> QED
    BY <1>0, <2>1, FramesMoved DEF FrameInv, CallsOf
<1>11. ASSUME NEW c \in CPUs, PollRun(c) PROVE FrameInv'
  <2>1. /\ RunExpiry(c, Head(list)) /\ list # <<>> /\ running[Head(list)] = NoCpu
        /\ pc[c] \in Checking
    BY <1>11 DEF PollRun, Checking
  <2>2. Head(list) \in Timers /\ Head(list) \in Linked
    BY <1>0, <2>1, TopLinked
  <2> QED
    BY <1>0, <2>1, <2>2, FramesRun
<1>12. ASSUME NEW c \in CPUs, PollDone(c) PROVE FrameInv'
  <2>1. pc[c] \in Checking /\ frames[c] # <<>> /\ frames[c] \in Seq(Frames)
    BY <1>0, <1>12, FrameTypes DEF FrameInv, CallsOf, PollDone, Checking
  <2>2. top(c) \in Frames /\ top(c).t = NoTimer
    <3>1. top(c) = frames[c][1] /\ top(c) \in Frames /\ 1 \in 1..Len(frames[c])
      BY <2>1, PopFacts DEF top
    <3> QED
      BY <1>0, <2>1, <3>1 DEF FrameInv, FramesOf
  <2>3. /\ UNCHANGED <<running, running_timer, arg>>
        /\ Goto(c, "timers") /\ SetTop(c, [top(c) EXCEPT !.poll = FALSE])
    BY <1>12 DEF PollDone
  <2>4. [top(c) EXCEPT !.poll = FALSE] \in Frames /\ [top(c) EXCEPT !.poll = FALSE].t = NoTimer
    BY <2>2 DEF Frames
  <2>5. "timers" \in Checking
    BY DEF Checking
  <2> QED
    BY <1>0, <2>1, <2>3, <2>4, <2>5, FramesChecking
<1>13. ASSUME NEW c \in CPUs, TimersRun(c) PROVE FrameInv'
  <2>1. /\ RunExpiry(c, Head(timer_list)) /\ timer_list # <<>> /\ running[Head(timer_list)] = NoCpu
        /\ pc[c] \in Checking
    BY <1>13 DEF TimersRun, Checking
  <2>2. Head(timer_list) \in Timers /\ Head(timer_list) \in Linked
    BY <1>0, <2>1, TopLinked
  <2> QED
    BY <1>0, <2>1, <2>2, FramesRun
<1>14. ASSUME NEW c \in CPUs, CheckDone(c) PROVE FrameInv'
  <2>1. pc[c] \in Checking /\ Goto(c, "run") /\ Pop(c) /\ UNCHANGED <<running, running_timer, arg>>
    BY <1>14 DEF CheckDone, Checking, Pop
  <2> QED
    BY <1>0, <2>1, FramesPopped
<1>15. ASSUME NEW c \in CPUs, ExpiryReturns(c) PROVE FrameInv'
  <2>1. /\ pc[c] = "run" /\ pc' = [pc EXCEPT ![c] = "relock"]
        /\ UNCHANGED <<frames, running, running_timer, arg>>
    BY <1>15 DEF ExpiryReturns, Goto, core
  <2>2. ASSUME NEW d \in CPUs
        PROVE  /\ pc'[d] \in Checking <=> pc[d] \in Checking
               /\ pc'[d] = "relock" => frames[d] # <<>>
               /\ pc'[d] \in {"sync", "resync"} => frames[d] = <<>> /\ arg'[d].t \in Timers
    <3>1. pc'[d] = IF d = c THEN "relock" ELSE pc[d]
      BY <1>0, <2>1 DEF TypeOK
    <3>2. FramesOf(d) /\ CallsOf(d)
      BY <1>0 DEF FrameInv
    <3> QED
      BY <1>15, <2>1, <3>1, <3>2 DEF CallsOf, Checking, ExpiryReturns
  <2> QED
    BY <1>0, <2>1, <2>2, FramesMoved
<1>16. ASSUME NEW c \in CPUs, Relock(c) PROVE FrameInv'
  BY <1>0, <1>16, FramesRelock
<1>17. CASE Tick
  <2>1. UNCHANGED <<frames, running, running_timer, arg, pc>>
    BY <1>17 DEF Tick, core
  <2> QED
    BY <1>0, <2>1, FramesMoved DEF FrameInv, CallsOf
<1>18. CASE UNCHANGED vars
  <2>1. UNCHANGED <<frames, running, running_timer, arg, pc>>
    BY <1>18 DEF vars, moving, core
  <2> QED
    BY <1>0, <2>1, FramesMoved DEF FrameInv, CallsOf
<1> QED
  BY <1>1, <1>2, <1>3, <1>4, <1>5, <1>6, <1>7, <1>8, <1>9, <1>10, <1>11, <1>12,
     <1>13, <1>14, <1>15, <1>16, <1>17, <1>18
  DEF Next, CpuStep

\* No step leaves the SBE unaware of the first timer with nobody to tell it: a
\* CPU leaves check_timers with the SBE told, or while another CPU is in it.
LEMMA ExpiryStep == TimerInv /\ [Next]_vars => NoLostExpiry'
<1> SUFFICES ASSUME TimerInv, [Next]_vars PROVE NoLostExpiry'
  OBVIOUS
<1>0. TypeOK /\ ListInv /\ PollList /\ FrameInv /\ NoLostExpiry
  BY DEF TimerInv
<1>1. ASSUME NEW c \in CPUs, NEW t \in Timers, schedule_timer(c, t) PROVE NoLostExpiry'
  <2>1. PICK when \in Times \cup {TIMER_POLL} :
             /\ target' = [target EXCEPT ![t] = when]
             /\ __schedule_timer_at(c, t, when)
             /\ UNCHANGED frames
    BY <1>1 DEF schedule_timer
  <2>2. CASE frames[c] # <<>>
    BY <2>1, <2>2, ToldBusy
  <2>3. CASE frames[c] = <<>>
    <3>1. ~running_timer[c]
      <4>1. 1..Len(frames[c]) = {}
        BY <2>3
      <4> QED
        BY <1>0, <4>1 DEF FrameInv, CallsOf
    <3>2. HeadTold => HeadTold'
      BY <1>0, <2>1, <3>1, Scheduled
    <3> QED
      BY <1>0, <2>1, <3>2, ToldKept
  <2> QED
    BY <2>2, <2>3
<1>2. ASSUME NEW c \in CPUs, NEW t \in Timers, cancel_timer_async(c, t) PROVE NoLostExpiry'
  <2>1. __remove_timer(t) /\ UNCHANGED <<target, expiry, frames>>
    BY <1>2 DEF cancel_timer_async
  <2>2. HeadTold => HeadTold'
    BY <1>0, <2>1, Unlinked
  <2> QED
    BY <1>0, <2>1, <2>2, ToldKept
<1>3. ASSUME NEW c \in CPUs, NEW t \in Timers, sync_timer(c, t) PROVE NoLostExpiry'
  <2>1. SyncBody(c, t, FALSE) /\ UNCHANGED frames
    BY <1>3 DEF sync_timer, SyncBody
  <2>2. HeadTold => HeadTold'
    BY <1>0, <2>1, SyncLists
  <2> QED
    BY <1>0, <2>1, <2>2, ToldKept
<1>4. ASSUME NEW c \in CPUs, NEW t \in Timers, cancel_timer(c, t) PROVE NoLostExpiry'
  <2>1. SyncBody(c, t, TRUE) /\ UNCHANGED frames
    BY <1>4 DEF cancel_timer, SyncBody
  <2>2. HeadTold => HeadTold'
    BY <1>0, <2>1, SyncLists
  <2> QED
    BY <1>0, <2>1, <2>2, ToldKept
<1>5. ASSUME NEW c \in CPUs, check_timers(c) PROVE NoLostExpiry'
  <2>1. /\ pc[c] = "run" /\ CheckPeek(c, FALSE)
        /\ UNCHANGED <<running, running_timer, arg>>
    BY <1>5 DEF check_timers, core
  <2>2. Frame(now, FALSE) \in Frames /\ Frame(now, FALSE).t = NoTimer
    BY <1>0 DEF TypeOK, Frame, Frames
  <2>3. CASE timer_list = <<>> /\ UNCHANGED timer_list
    BY <2>3 DEF NoLostExpiry
  <2>4. CASE Push(c, Frame(now, FALSE))
    <3> DEFINE f == Frame(now, FALSE)
    <3>1. frames[c] \in Seq(Frames) /\ frames \in [CPUs -> Seq(Frames)] /\ f \in Frames
      BY <1>0, <2>2, FrameTypes
    <3>2. frames'[c] = <<f>> \o frames[c]
      BY <2>4, <3>1 DEF Push
    <3> HIDE DEF f
    <3>3. frames'[c] # <<>>
      BY <3>1, <3>2, PushFacts
    <3> QED
      BY <3>3, ToldBusy
  <2> QED
    BY <1>5, <2>1, <2>3, <2>4 DEF check_timers, CheckPeek, Push, core
<1>6. ASSUME NEW c \in CPUs, SbeInterrupt(c) PROVE NoLostExpiry'
  <2>1. /\ pc[c] = "run" /\ CheckPeek(c, TRUE)
        /\ UNCHANGED <<running, running_timer, arg>>
    BY <1>6 DEF SbeInterrupt, core
  <2>2. Frame(now, TRUE) \in Frames /\ Frame(now, TRUE).t = NoTimer
    BY <1>0 DEF TypeOK, Frame, Frames
  <2>3. CASE timer_list = <<>> /\ UNCHANGED timer_list
    BY <2>3 DEF NoLostExpiry
  <2>4. CASE Push(c, Frame(now, TRUE))
    <3> DEFINE f == Frame(now, TRUE)
    <3>1. frames[c] \in Seq(Frames) /\ frames \in [CPUs -> Seq(Frames)] /\ f \in Frames
      BY <1>0, <2>2, FrameTypes
    <3>2. frames'[c] = <<f>> \o frames[c]
      BY <2>4, <3>1 DEF Push
    <3> HIDE DEF f
    <3>3. frames'[c] # <<>>
      BY <3>1, <3>2, PushFacts
    <3> QED
      BY <3>3, ToldBusy
  <2> QED
    BY <1>6, <2>1, <2>3, <2>4 DEF SbeInterrupt, CheckPeek, Push, core
<1>7. ASSUME NEW c \in CPUs, SyncSees(c) PROVE NoLostExpiry'
  <2>1. UNCHANGED <<frames, timer_list, target, expiry>>
    BY <1>7 DEF SyncSees, core
  <2>2. HeadTold => HeadTold'
    BY <2>1 DEF HeadTold
  <2> QED
    BY <1>0, <2>1, <2>2, ToldKept
<1>8. ASSUME NEW c \in CPUs, SyncRelock(c) PROVE NoLostExpiry'
  <2>0. arg[c].t \in Timers /\ arg[c].cancel \in BOOLEAN
    <3>1. arg[c].t \in Timers
      BY <1>0, <1>8 DEF FrameInv, CallsOf, SyncRelock
    <3>2. arg[c] \in [t: Timers \cup {NoTimer}, cancel: BOOLEAN]
      BY <1>0 DEF TypeOK
    <3> QED
      BY <3>1, <3>2
  <2>1. SyncBody(c, arg[c].t, arg[c].cancel) /\ UNCHANGED frames
    BY <1>8 DEF SyncRelock, SyncBody
  <2>2. HeadTold => HeadTold'
    BY <1>0, <2>0, <2>1, SyncLists
  <2> QED
    BY <1>0, <2>1, <2>2, ToldKept
<1>9. ASSUME NEW c \in CPUs, CheckLock(c) PROVE NoLostExpiry'
  <2>1. pc[c] \in Checking /\ frames[c] # <<>> /\ frames[c] \in Seq(Frames)
    BY <1>0, <1>9, FrameTypes DEF FrameInv, CallsOf, CheckLock, Checking
  <2>2. top(c) \in Frames /\ top(c).t = NoTimer
    <3>1. top(c) = frames[c][1] /\ top(c) \in Frames /\ 1 \in 1..Len(frames[c])
      BY <2>1, PopFacts DEF top
    <3> QED
      BY <1>0, <2>1, <3>1 DEF FrameInv, FramesOf
  <2>3. CASE SetTop(c, [top(c) EXCEPT !.poll = TRUE])
    <3> DEFINE f == [top(c) EXCEPT !.poll = TRUE]
    <3>1. f \in Frames /\ frames \in [CPUs -> Seq(Frames)]
      BY <1>0, <2>2, FrameTypes DEF Frames
    <3>2. frames'[c] = <<f>> \o Tail(frames[c])
      BY <2>3, <3>1 DEF SetTop
    <3> HIDE DEF f
    <3>3. frames'[c] # <<>>
      BY <2>1, <3>1, <3>2, SetTopFacts
    <3> QED
      BY <3>3, ToldBusy
  <2>4. CASE UNCHANGED frames
    BY <2>1, <2>4, ToldBusy
  <2> QED
    BY <1>9, <2>3, <2>4 DEF CheckLock
<1>10. ASSUME NEW c \in CPUs, PollSkip(c) PROVE NoLostExpiry'
  <2>1. UNCHANGED <<frames, timer_list, target, expiry>>
    BY <1>10 DEF PollSkip, core
  <2>2. HeadTold => HeadTold'
    BY <2>1 DEF HeadTold
  <2> QED
    BY <1>0, <2>1, <2>2, ToldKept
<1>11. ASSUME NEW c \in CPUs, PollRun(c) PROVE NoLostExpiry'
  <2>1. /\ RunExpiry(c, Head(list)) /\ list # <<>> /\ running[Head(list)] = NoCpu
        /\ pc[c] \in Checking
    BY <1>11 DEF PollRun, Checking
  <2>2. Head(list) \in Timers /\ Head(list) \in Linked
    BY <1>0, <2>1, TopLinked
  <2>3. frames[c] # <<>> /\ frames[c] \in Seq(Frames) /\ frames \in [CPUs -> Seq(Frames)]
    BY <1>0, <2>1, FrameTypes DEF FrameInv, CallsOf
  <2>4. \E f \in Frames : frames'[c] = <<f>> \o Tail(frames[c])
    <3>1. top(c) \in Frames
      BY <2>3, PopFacts DEF top
    <3>2. frames' = [frames EXCEPT ![c] = <<[top(c) EXCEPT !.t = Head(list)]>> \o Tail(@)]
      BY <2>1 DEF RunExpiry, SetTop
    <3>3. [top(c) EXCEPT !.t = Head(list)] \in Frames
      BY <2>2, <3>1 DEF Frames
    <3> QED
      BY <2>3, <3>2, <3>3
  <2>5. frames'[c] # <<>>
    BY <2>3, <2>4, SetTopFacts
  <2> QED
    BY <2>5, ToldBusy
<1>12. ASSUME NEW c \in CPUs, PollDone(c) PROVE NoLostExpiry'
  <2>1. pc[c] \in Checking /\ frames[c] # <<>> /\ frames[c] \in Seq(Frames)
    BY <1>0, <1>12, FrameTypes DEF FrameInv, CallsOf, PollDone, Checking
  <2>2. top(c) \in Frames /\ top(c).t = NoTimer
    <3>1. top(c) = frames[c][1] /\ top(c) \in Frames /\ 1 \in 1..Len(frames[c])
      BY <2>1, PopFacts DEF top
    <3> QED
      BY <1>0, <2>1, <3>1 DEF FrameInv, FramesOf
  <2>3. CASE SetTop(c, [top(c) EXCEPT !.poll = FALSE])
    <3> DEFINE f == [top(c) EXCEPT !.poll = FALSE]
    <3>1. f \in Frames /\ frames \in [CPUs -> Seq(Frames)]
      BY <1>0, <2>2, FrameTypes DEF Frames
    <3>2. frames'[c] = <<f>> \o Tail(frames[c])
      BY <2>3, <3>1 DEF SetTop
    <3> HIDE DEF f
    <3>3. frames'[c] # <<>>
      BY <2>1, <3>1, <3>2, SetTopFacts
    <3> QED
      BY <3>3, ToldBusy
  <2> QED
    BY <1>12, <2>3 DEF PollDone
<1>13. ASSUME NEW c \in CPUs, TimersRun(c) PROVE NoLostExpiry'
  <2>1. /\ RunExpiry(c, Head(timer_list)) /\ timer_list # <<>> /\ running[Head(timer_list)] = NoCpu
        /\ pc[c] \in Checking
    BY <1>13 DEF TimersRun, Checking
  <2>2. Head(timer_list) \in Timers /\ Head(timer_list) \in Linked
    BY <1>0, <2>1, TopLinked
  <2>3. frames[c] # <<>> /\ frames[c] \in Seq(Frames) /\ frames \in [CPUs -> Seq(Frames)]
    BY <1>0, <2>1, FrameTypes DEF FrameInv, CallsOf
  <2>4. \E f \in Frames : frames'[c] = <<f>> \o Tail(frames[c])
    <3>1. top(c) \in Frames
      BY <2>3, PopFacts DEF top
    <3>2. frames' = [frames EXCEPT ![c] = <<[top(c) EXCEPT !.t = Head(timer_list)]>> \o Tail(@)]
      BY <2>1 DEF RunExpiry, SetTop
    <3>3. [top(c) EXCEPT !.t = Head(timer_list)] \in Frames
      BY <2>2, <3>1 DEF Frames
    <3> QED
      BY <2>3, <3>2, <3>3
  <2>5. frames'[c] # <<>>
    BY <2>3, <2>4, SetTopFacts
  <2> QED
    BY <2>5, ToldBusy
<1>14. ASSUME NEW c \in CPUs, CheckDone(c) PROVE NoLostExpiry'
  <2>1. /\ pc[c] = "timers" /\ frames' = [frames EXCEPT ![c] = Tail(@)] /\ CheckTells(c)
        /\ timer_list # <<>> => \/ target[Head(timer_list)] > top(c).stamp
                                \/ running[Head(timer_list)] # NoCpu
        /\ UNCHANGED <<timer_list, target>>
    BY <1>14 DEF CheckDone
  <2> SUFFICES ASSUME \A d \in CPUs : frames'[d] = <<>>, timer_list # <<>>
               PROVE  expiry' <= target[Head(timer_list)]
    BY <2>1 DEF NoLostExpiry
  <2>2. /\ frames[c] # <<>> /\ frames[c] \in Seq(Frames) /\ frames \in [CPUs -> Seq(Frames)]
        /\ running \in [Timers -> CPUs \cup {NoCpu}]
    BY <1>0, <2>1, FrameTypes DEF FrameInv, CallsOf, Checking
  <2>3. Head(timer_list) \in Timers /\ target[Head(timer_list)] \in Times
    <3>1. Head(timer_list) = timer_list[1] /\ 1 \in 1..Len(timer_list)
      BY <1>0, ListHead
    <3> QED
      BY <1>0, <3>1, ListTargets DEF ListInv
  <2>4. ASSUME NEW d \in CPUs, running[Head(timer_list)] = d PROVE FALSE
    <3>1. PICK i \in 1..Len(frames[d]) : frames[d][i].t = Head(timer_list)
      BY <1>0, <2>3, <2>4 DEF FrameInv, FramesOf
    <3>2. CASE d # c
      <4>1. frames[d] = <<>>
        BY <2>1, <2>2, <3>2
      <4> QED
        BY <3>1, <4>1
    <3>3. CASE d = c
      <4>1. Tail(frames[c]) = <<>>
        BY <2>1, <2>2
      <4>2. Len(frames[c]) = 1
        <5>1. Len(Tail(frames[c])) = Len(frames[c]) - 1 /\ Len(frames[c]) \in Nat \ {0}
          BY <2>2, PopFacts
        <5>2. Len(<<>>) = 0
          OBVIOUS
        <5>3. Len(Tail(frames[c])) = 0
          BY <4>1, <5>2
        <5> QED
          BY <5>1, <5>3
      <4>3. i = 1
        BY <3>1, <3>3, <4>2
      <4>4. frames[c][1].t = NoTimer
        BY <1>0, <2>1, <4>2 DEF FrameInv, FramesOf, Checking
      <4> QED
        BY <2>3, <3>1, <3>3, <4>3, <4>4, TimerAssumption
    <3> QED
      BY <3>2, <3>3
  <2>5. target[Head(timer_list)] > top(c).stamp
    BY <2>1, <2>2, <2>3, <2>4
  <2>6. expiry' = IF target[Head(timer_list)] < expiry THEN target[Head(timer_list)] ELSE expiry
    BY <2>1, <2>5 DEF CheckTells, update_timer_expiry
  <2>7. expiry \in Nat /\ target[Head(timer_list)] \in Nat
    BY <1>0, <2>3, ListTypes, TimeFacts
  <2> QED
    BY <2>6, <2>7
<1>15. ASSUME NEW c \in CPUs, ExpiryReturns(c) PROVE NoLostExpiry'
  <2>1. UNCHANGED <<frames, timer_list, target, expiry>>
    BY <1>15 DEF ExpiryReturns, core
  <2>2. HeadTold => HeadTold'
    BY <2>1 DEF HeadTold
  <2> QED
    BY <1>0, <2>1, <2>2, ToldKept
<1>16. ASSUME NEW c \in CPUs, Relock(c) PROVE NoLostExpiry'
  <2>1. frames[c] # <<>> /\ frames[c] \in Seq(Frames) /\ frames \in [CPUs -> Seq(Frames)]
    BY <1>0, <1>16, FrameTypes DEF FrameInv, CallsOf, Relock
  <2>2. top(c) \in Frames /\ now \in Times
    BY <1>0, <2>1, PopFacts DEF top, TypeOK
  <2> DEFINE f == [top(c) EXCEPT !.t = NoTimer, !.stamp = IF top(c).poll THEN @ ELSE now]
  <2>3. f \in Frames
    BY <2>2 DEF Frames
  <2>4. frames'[c] = <<f>> \o Tail(frames[c])
    BY <1>16, <2>1 DEF Relock, SetTop
  <2> HIDE DEF f
  <2>5. frames'[c] # <<>>
    BY <2>1, <2>3, <2>4, SetTopFacts
  <2> QED
    BY <2>5, ToldBusy
<1>17. CASE Tick
  <2>1. UNCHANGED <<frames, timer_list, target, expiry>>
    BY <1>17 DEF Tick, core
  <2>2. HeadTold => HeadTold'
    BY <2>1 DEF HeadTold
  <2> QED
    BY <1>0, <2>1, <2>2, ToldKept
<1>18. CASE UNCHANGED vars
  <2>1. UNCHANGED <<frames, timer_list, target, expiry>>
    BY <1>18 DEF vars, moving, core
  <2>2. HeadTold => HeadTold'
    BY <2>1 DEF HeadTold
  <2> QED
    BY <1>0, <2>1, <2>2, ToldKept
<1> QED
  BY <1>1, <1>2, <1>3, <1>4, <1>5, <1>6, <1>7, <1>8, <1>9, <1>10, <1>11, <1>12,
     <1>13, <1>14, <1>15, <1>16, <1>17, <1>18
  DEF Next, CpuStep

\* Every step keeps the types.
LEMMA TypeStep == TimerInv /\ [Next]_vars => TypeOK'
<1> SUFFICES ASSUME TimerInv, [Next]_vars PROVE TypeOK'
  OBVIOUS
<1>0. TypeOK /\ ListInv /\ PollList /\ FrameInv /\ NoLostExpiry
  BY DEF TimerInv
<1>1. ASSUME NEW c \in CPUs, NEW t \in Timers, schedule_timer(c, t) PROVE TypeOK'
  <2>1. PICK when \in Times \cup {TIMER_POLL} :
             /\ target' = [target EXCEPT ![t] = when]
             /\ __schedule_timer_at(c, t, when)
    BY <1>1 DEF schedule_timer
  <2>2. /\ timer_list' \in Seq(Timers) /\ timer_poll_list' \in Seq(Timers) /\ list' \in Seq(Timers)
        /\ expiry' \in Times \cup {Never}
    BY <1>0, <2>1, Scheduled
  <2>3. /\ calls < MaxCalls /\ calls' = calls + 1 /\ cancelled' = cancelled \ {t}
        /\ UNCHANGED <<timer_lock, timer_in_poll, running, running_timer, now, pc, frames, arg>>
    BY <1>1 DEF schedule_timer, ClientCall
  <2>4. calls' \in 0..MaxCalls
    BY <1>0, <2>3, TimerAssumption DEF TypeOK
  <2>5. target' \in [Timers -> Times \cup {TIMER_POLL}]
    BY <1>0, <2>1 DEF TypeOK
  <2> QED
    BY <1>0, <2>2, <2>3, <2>4, <2>5, TypesMade DEF TypeOK, Where
<1>2. ASSUME NEW c \in CPUs, NEW t \in Timers, cancel_timer_async(c, t) PROVE TypeOK'
  <2>1. /\ __remove_timer(t) /\ calls < MaxCalls /\ calls' = calls + 1
        /\ UNCHANGED <<timer_lock, timer_in_poll, target, running, running_timer, expiry, now, pc,
                       frames, arg, cancelled>>
    BY <1>2 DEF cancel_timer_async, ClientCall
  <2>2. timer_list' \in Seq(Timers) /\ timer_poll_list' \in Seq(Timers) /\ list' \in Seq(Timers)
    BY <1>0, <2>1, Unlinked
  <2>3. calls' \in 0..MaxCalls
    BY <1>0, <2>1, TimerAssumption DEF TypeOK
  <2> QED
    BY <1>0, <2>1, <2>2, <2>3, TypesMade DEF TypeOK, Where
<1>3. ASSUME NEW c \in CPUs, NEW t \in Timers, sync_timer(c, t) PROVE TypeOK'
  <2>1. SyncBody(c, t, FALSE) /\ calls' \in 0..MaxCalls
    <3>1. SyncBody(c, t, FALSE)
      BY <1>3 DEF sync_timer
    <3>2. calls' = calls \/ (calls < MaxCalls /\ calls' = calls + 1)
      BY <1>3 DEF sync_timer, ClientCall
    <3>3. calls \in 0..MaxCalls
      BY <1>0 DEF TypeOK
    <3>4. calls' \in 0..MaxCalls
      BY <3>2, <3>3, TimerAssumption
    <3> QED
      BY <3>1, <3>4
  <2>2. timer_list' \in Seq(Timers) /\ timer_poll_list' \in Seq(Timers) /\ list' \in Seq(Timers)
        /\ cancelled' \subseteq Timers
    <3>1. timer_list' \in Seq(Timers) /\ timer_poll_list' \in Seq(Timers) /\ list' \in Seq(Timers)
      BY <1>0, <2>1, SyncLists
    <3>2. cancelled' = cancelled \cup {t} \/ UNCHANGED cancelled
      BY <1>0, <2>1, SyncLists
    <3>3. cancelled' \subseteq Timers
      BY <1>0, <3>2 DEF TypeOK
    <3> QED
      BY <3>1, <3>3
  <2>3. UNCHANGED <<timer_lock, timer_in_poll, target, running, running_timer, expiry, now, frames>>
    BY <2>1 DEF SyncBody
  <2>4. pc' \in [CPUs -> Where]
    BY <1>0, <2>1 DEF TypeOK, SyncBody, Synced, MustWait, Goto, Where
  <2>5. arg' \in [CPUs -> [t: Timers \cup {NoTimer}, cancel: BOOLEAN]]
    <3>1. \/ arg' = [arg EXCEPT ![c] = [t |-> NoTimer, cancel |-> FALSE]]
          \/ arg' = [arg EXCEPT ![c] = [t |-> t, cancel |-> FALSE]]
      BY <2>1 DEF SyncBody, Synced, MustWait
    <3>2. /\ [t |-> NoTimer, cancel |-> FALSE] \in [t: Timers \cup {NoTimer}, cancel: BOOLEAN]
          /\ [t |-> t, cancel |-> FALSE] \in [t: Timers \cup {NoTimer}, cancel: BOOLEAN]
      OBVIOUS
    <3> QED
      BY <1>0, <3>1, <3>2 DEF TypeOK
  <2> QED
    BY <1>0, <2>1, <2>2, <2>3, <2>4, <2>5, TypesMade DEF TypeOK, Where
<1>4. ASSUME NEW c \in CPUs, NEW t \in Timers, cancel_timer(c, t) PROVE TypeOK'
  <2>1. SyncBody(c, t, TRUE) /\ calls' \in 0..MaxCalls
    <3>1. SyncBody(c, t, TRUE)
      BY <1>4 DEF cancel_timer
    <3>2. calls' = calls \/ (calls < MaxCalls /\ calls' = calls + 1)
      BY <1>4 DEF cancel_timer, ClientCall
    <3>3. calls \in 0..MaxCalls
      BY <1>0 DEF TypeOK
    <3>4. calls' \in 0..MaxCalls
      BY <3>2, <3>3, TimerAssumption
    <3> QED
      BY <3>1, <3>4
  <2>2. timer_list' \in Seq(Timers) /\ timer_poll_list' \in Seq(Timers) /\ list' \in Seq(Timers)
        /\ cancelled' \subseteq Timers
    <3>1. timer_list' \in Seq(Timers) /\ timer_poll_list' \in Seq(Timers) /\ list' \in Seq(Timers)
      BY <1>0, <2>1, SyncLists
    <3>2. cancelled' = cancelled \cup {t} \/ UNCHANGED cancelled
      BY <1>0, <2>1, SyncLists
    <3>3. cancelled' \subseteq Timers
      BY <1>0, <3>2 DEF TypeOK
    <3> QED
      BY <3>1, <3>3
  <2>3. UNCHANGED <<timer_lock, timer_in_poll, target, running, running_timer, expiry, now, frames>>
    BY <2>1 DEF SyncBody
  <2>4. pc' \in [CPUs -> Where]
    BY <1>0, <2>1 DEF TypeOK, SyncBody, Synced, MustWait, Goto, Where
  <2>5. arg' \in [CPUs -> [t: Timers \cup {NoTimer}, cancel: BOOLEAN]]
    <3>1. \/ arg' = [arg EXCEPT ![c] = [t |-> NoTimer, cancel |-> FALSE]]
          \/ arg' = [arg EXCEPT ![c] = [t |-> t, cancel |-> TRUE]]
      BY <2>1 DEF SyncBody, Synced, MustWait
    <3>2. /\ [t |-> NoTimer, cancel |-> FALSE] \in [t: Timers \cup {NoTimer}, cancel: BOOLEAN]
          /\ [t |-> t, cancel |-> TRUE] \in [t: Timers \cup {NoTimer}, cancel: BOOLEAN]
      OBVIOUS
    <3> QED
      BY <1>0, <3>1, <3>2 DEF TypeOK
  <2> QED
    BY <1>0, <2>1, <2>2, <2>3, <2>4, <2>5, TypesMade DEF TypeOK, Where
<1>5. ASSUME NEW c \in CPUs, check_timers(c) PROVE TypeOK'
  <2>1. /\ pc[c] = "run" /\ CheckPeek(c, FALSE)
        /\ UNCHANGED <<running, running_timer, arg>>
    BY <1>5 DEF check_timers, core
  <2>2. Frame(now, FALSE) \in Frames /\ Frame(now, FALSE).t = NoTimer
    BY <1>0 DEF TypeOK, Frame, Frames
  <2>3. pc' \in [CPUs -> Where] /\ frames' \in [CPUs -> Seq(Frames)]
    <3>1. CASE UNCHANGED <<pc, frames>>
      BY <1>0, <3>1 DEF TypeOK, Where
    <3>2. CASE Goto(c, "peeked") /\ Push(c, Frame(now, FALSE))
      <4> DEFINE f == Frame(now, FALSE)
      <4>1. frames[c] \in Seq(Frames) /\ frames \in [CPUs -> Seq(Frames)] /\ f \in Frames
        BY <1>0, <2>2, FrameTypes
      <4>2. frames' = [frames EXCEPT ![c] = <<f>> \o @]
        BY <3>2 DEF Push
      <4> HIDE DEF f
      <4>3. <<f>> \o frames[c] \in Seq(Frames)
        BY <4>1, PushFacts
      <4>4. pc' \in [CPUs -> Where]
        BY <1>0, <3>2 DEF TypeOK, Goto, Where
      <4> QED
        BY <4>1, <4>2, <4>3, <4>4
    <3> QED
      BY <2>1, <3>1, <3>2 DEF CheckPeek, Push
  <2>4. /\ UNCHANGED <<timer_lock, timer_list, timer_poll_list, list, timer_in_poll, target, running,
                       running_timer, cancelled, now, arg, calls>>
        /\ expiry' \in {expiry, Never}
    BY <1>5 DEF check_timers, core
  <2> QED
    BY <1>0, <2>3, <2>4, TypesMade DEF TypeOK, Where
<1>6. ASSUME NEW c \in CPUs, SbeInterrupt(c) PROVE TypeOK'
  <2>1. /\ pc[c] = "run" /\ CheckPeek(c, TRUE)
        /\ UNCHANGED <<running, running_timer, arg>>
    BY <1>6 DEF SbeInterrupt, core
  <2>2. Frame(now, TRUE) \in Frames /\ Frame(now, TRUE).t = NoTimer
    BY <1>0 DEF TypeOK, Frame, Frames
  <2>3. pc' \in [CPUs -> Where] /\ frames' \in [CPUs -> Seq(Frames)]
    <3>1. CASE UNCHANGED <<pc, frames>>
      BY <1>0, <3>1 DEF TypeOK, Where
    <3>2. CASE Goto(c, "peeked") /\ Push(c, Frame(now, TRUE))
      <4> DEFINE f == Frame(now, TRUE)
      <4>1. frames[c] \in Seq(Frames) /\ frames \in [CPUs -> Seq(Frames)] /\ f \in Frames
        BY <1>0, <2>2, FrameTypes
      <4>2. frames' = [frames EXCEPT ![c] = <<f>> \o @]
        BY <3>2 DEF Push
      <4> HIDE DEF f
      <4>3. <<f>> \o frames[c] \in Seq(Frames)
        BY <4>1, PushFacts
      <4>4. pc' \in [CPUs -> Where]
        BY <1>0, <3>2 DEF TypeOK, Goto, Where
      <4> QED
        BY <4>1, <4>2, <4>3, <4>4
    <3> QED
      BY <2>1, <3>1, <3>2 DEF CheckPeek, Push
  <2>4. /\ UNCHANGED <<timer_lock, timer_list, timer_poll_list, list, timer_in_poll, target, running,
                       running_timer, cancelled, now, arg, calls>>
        /\ expiry' \in {expiry, Never}
    BY <1>6 DEF SbeInterrupt, core
  <2> QED
    BY <1>0, <2>3, <2>4, TypesMade DEF TypeOK, Where
<1>7. ASSUME NEW c \in CPUs, SyncSees(c) PROVE TypeOK'
  BY <1>0, <1>7 DEF SyncSees, core, Goto, TypeOK
<1>8. ASSUME NEW c \in CPUs, SyncRelock(c) PROVE TypeOK'
  <2>0. arg[c].t \in Timers /\ arg[c].cancel \in BOOLEAN
    <3>1. arg[c].t \in Timers
      BY <1>0, <1>8 DEF FrameInv, CallsOf, SyncRelock
    <3>2. arg[c] \in [t: Timers \cup {NoTimer}, cancel: BOOLEAN]
      BY <1>0 DEF TypeOK
    <3> QED
      BY <3>1, <3>2
  <2>1. SyncBody(c, arg[c].t, arg[c].cancel) /\ calls' \in 0..MaxCalls
    <3>1. SyncBody(c, arg[c].t, arg[c].cancel)
      BY <1>8 DEF SyncRelock
    <3>2. calls' = calls \/ (calls < MaxCalls /\ calls' = calls + 1)
      BY <1>8 DEF SyncRelock, ClientCall
    <3>3. calls \in 0..MaxCalls
      BY <1>0 DEF TypeOK
    <3>4. calls' \in 0..MaxCalls
      BY <3>2, <3>3, TimerAssumption
    <3> QED
      BY <3>1, <3>4
  <2>2. timer_list' \in Seq(Timers) /\ timer_poll_list' \in Seq(Timers) /\ list' \in Seq(Timers)
        /\ cancelled' \subseteq Timers
    <3>1. timer_list' \in Seq(Timers) /\ timer_poll_list' \in Seq(Timers) /\ list' \in Seq(Timers)
      BY <1>0, <2>0, <2>1, SyncLists
    <3>2. cancelled' = cancelled \cup {arg[c].t} \/ UNCHANGED cancelled
      BY <1>0, <2>0, <2>1, SyncLists
    <3>3. cancelled' \subseteq Timers
      BY <1>0, <2>0, <3>2 DEF TypeOK
    <3> QED
      BY <3>1, <3>3
  <2>3. UNCHANGED <<timer_lock, timer_in_poll, target, running, running_timer, expiry, now, frames>>
    BY <2>1 DEF SyncBody
  <2>4. pc' \in [CPUs -> Where]
    BY <1>0, <2>1 DEF TypeOK, SyncBody, Synced, MustWait, Goto, Where
  <2>5. arg' \in [CPUs -> [t: Timers \cup {NoTimer}, cancel: BOOLEAN]]
    <3>1. \/ arg' = [arg EXCEPT ![c] = [t |-> NoTimer, cancel |-> FALSE]]
          \/ arg' = [arg EXCEPT ![c] = [t |-> arg[c].t, cancel |-> arg[c].cancel]]
      BY <2>1 DEF SyncBody, Synced, MustWait
    <3>2. /\ [t |-> NoTimer, cancel |-> FALSE] \in [t: Timers \cup {NoTimer}, cancel: BOOLEAN]
          /\ [t |-> arg[c].t, cancel |-> arg[c].cancel] \in [t: Timers \cup {NoTimer}, cancel: BOOLEAN]
      BY <2>0
    <3> QED
      BY <1>0, <3>1, <3>2 DEF TypeOK
  <2> QED
    BY <1>0, <2>1, <2>2, <2>3, <2>4, <2>5, TypesMade DEF TypeOK, Where
<1>9. ASSUME NEW c \in CPUs, CheckLock(c) PROVE TypeOK'
  <2>1. pc[c] \in Checking /\ frames[c] # <<>> /\ frames[c] \in Seq(Frames)
    BY <1>0, <1>9, FrameTypes DEF FrameInv, CallsOf, CheckLock, Checking
  <2>2. top(c) \in Frames /\ top(c).t = NoTimer
    <3>1. top(c) = frames[c][1] /\ top(c) \in Frames /\ 1 \in 1..Len(frames[c])
      BY <2>1, PopFacts DEF top
    <3> QED
      BY <1>0, <2>1, <3>1 DEF FrameInv, FramesOf
  <2>3. ASSUME SetTop(c, [top(c) EXCEPT !.poll = TRUE]) PROVE frames' \in [CPUs -> Seq(Frames)]
    <3> DEFINE f == [top(c) EXCEPT !.poll = TRUE]
    <3>1. f \in Frames /\ frames \in [CPUs -> Seq(Frames)]
      BY <1>0, <2>2, FrameTypes DEF Frames
    <3>2. frames' = [frames EXCEPT ![c] = <<f>> \o Tail(@)]
      BY <2>3 DEF SetTop
    <3> HIDE DEF f
    <3>3. <<f>> \o Tail(frames[c]) \in Seq(Frames)
      BY <2>1, <3>1, SetTopFacts
    <3> QED
      BY <3>1, <3>2, <3>3
  <2>4. frames' \in [CPUs -> Seq(Frames)]
    BY <1>0, <1>9, <2>3, FrameTypes DEF CheckLock
  <2>5. pc' \in [CPUs -> Where] /\ timer_in_poll' \in BOOLEAN
    BY <1>0, <1>9 DEF CheckLock, Goto, TypeOK, Where
  <2>6. timer_poll_list' \in Seq(Timers) /\ list' \in Seq(Timers)
    <3>1. \/ UNCHANGED <<list, timer_poll_list>>
          \/ list' = timer_poll_list /\ timer_poll_list' = <<>>
      BY <1>9 DEF CheckLock
    <3>2. <<>> \in Seq(Timers)
      OBVIOUS
    <3> QED
      BY <1>0, <3>1, <3>2, ListTypes
  <2>7. /\ timer_lock' = c
        /\ UNCHANGED <<timer_list, target, running, running_timer, expiry, cancelled, now, arg, calls>>
    BY <1>9 DEF CheckLock
  <2> QED
    BY <1>0, <2>4, <2>5, <2>6, <2>7, TypesMade DEF TypeOK
<1>10. ASSUME NEW c \in CPUs, PollSkip(c) PROVE TypeOK'
  <2>1. /\ list # <<>> /\ list' = Tail(list)
        /\ timer_poll_list' = Append(timer_poll_list, Head(list))
        /\ UNCHANGED <<timer_lock, timer_list, timer_in_poll, target, running, running_timer, expiry,
                       cancelled, now, pc, frames, arg, calls>>
    BY <1>10 DEF PollSkip
  <2>2. timer_poll_list' \in Seq(Timers) /\ list' \in Seq(Timers)
    BY <1>0, <2>1, SkipLists
  <2> QED
    BY <1>0, <2>1, <2>2, TypesMade DEF TypeOK, Where
<1>11. ASSUME NEW c \in CPUs, PollRun(c) PROVE TypeOK'
  <2>1. /\ RunExpiry(c, Head(list)) /\ list # <<>> /\ running[Head(list)] = NoCpu
        /\ pc[c] \in Checking
    BY <1>11 DEF PollRun, Checking
  <2>2. Head(list) \in Timers /\ Head(list) \in Linked
    BY <1>0, <2>1, TopLinked
  <2>3. /\ timer_list' \in Seq(Timers) /\ timer_poll_list' \in Seq(Timers) /\ list' \in Seq(Timers)
        /\ running' = [running EXCEPT ![Head(list)] = c]
    BY <1>0, <2>1, <2>2, RunLists
  <2>4. frames[c] # <<>> /\ frames[c] \in Seq(Frames) /\ frames \in [CPUs -> Seq(Frames)]
    BY <1>0, <2>1, FrameTypes DEF FrameInv, CallsOf
  <2>5. frames' \in [CPUs -> Seq(Frames)]
    <3> DEFINE f == [top(c) EXCEPT !.t = Head(list)]
    <3>1. top(c) \in Frames
      BY <2>4, PopFacts DEF top
    <3>2. frames' = [frames EXCEPT ![c] = <<f>> \o Tail(@)]
      BY <2>1 DEF RunExpiry, SetTop
    <3>3. f \in Frames
      BY <2>2, <3>1 DEF Frames
    <3> HIDE DEF f
    <3>4. <<f>> \o Tail(frames[c]) \in Seq(Frames)
      BY <2>4, <3>3, SetTopFacts
    <3> QED
      BY <2>4, <3>2, <3>4
  <2>6. /\ timer_lock' = NoCpu /\ running_timer' = [running_timer EXCEPT ![c] = TRUE]
        /\ pc' = [pc EXCEPT ![c] = "run"]
        /\ UNCHANGED <<timer_in_poll, target, expiry, cancelled, now, arg, calls>>
    BY <2>1 DEF RunExpiry, Goto
  <2> QED
    BY <1>0, <2>2, <2>3, <2>5, <2>6, TypesMade DEF TypeOK, Where
<1>12. ASSUME NEW c \in CPUs, PollDone(c) PROVE TypeOK'
  <2>1. pc[c] \in Checking /\ frames[c] # <<>> /\ frames[c] \in Seq(Frames)
    BY <1>0, <1>12, FrameTypes DEF FrameInv, CallsOf, PollDone, Checking
  <2>2. top(c) \in Frames /\ top(c).t = NoTimer
    <3>1. top(c) = frames[c][1] /\ top(c) \in Frames /\ 1 \in 1..Len(frames[c])
      BY <2>1, PopFacts DEF top
    <3> QED
      BY <1>0, <2>1, <3>1 DEF FrameInv, FramesOf
  <2>3. ASSUME SetTop(c, [top(c) EXCEPT !.poll = FALSE]) PROVE frames' \in [CPUs -> Seq(Frames)]
    <3> DEFINE f == [top(c) EXCEPT !.poll = FALSE]
    <3>1. f \in Frames /\ frames \in [CPUs -> Seq(Frames)]
      BY <1>0, <2>2, FrameTypes DEF Frames
    <3>2. frames' = [frames EXCEPT ![c] = <<f>> \o Tail(@)]
      BY <2>3 DEF SetTop
    <3> HIDE DEF f
    <3>3. <<f>> \o Tail(frames[c]) \in Seq(Frames)
      BY <2>1, <3>1, SetTopFacts
    <3> QED
      BY <3>1, <3>2, <3>3
  <2>4. frames' \in [CPUs -> Seq(Frames)]
    BY <1>12, <2>3 DEF PollDone
  <2>5. pc' \in [CPUs -> Where] /\ timer_in_poll' \in BOOLEAN
    BY <1>0, <1>12 DEF PollDone, Goto, TypeOK, Where
  <2>6. UNCHANGED <<timer_lock, timer_list, timer_poll_list, list, target, running, running_timer,
                    expiry, cancelled, now, arg, calls>>
    BY <1>12 DEF PollDone
  <2> QED
    BY <1>0, <2>4, <2>5, <2>6, TypesMade DEF TypeOK
<1>13. ASSUME NEW c \in CPUs, TimersRun(c) PROVE TypeOK'
  <2>1. /\ RunExpiry(c, Head(timer_list)) /\ timer_list # <<>> /\ running[Head(timer_list)] = NoCpu
        /\ pc[c] \in Checking
    BY <1>13 DEF TimersRun, Checking
  <2>2. Head(timer_list) \in Timers /\ Head(timer_list) \in Linked
    BY <1>0, <2>1, TopLinked
  <2>3. /\ timer_list' \in Seq(Timers) /\ timer_poll_list' \in Seq(Timers) /\ list' \in Seq(Timers)
        /\ running' = [running EXCEPT ![Head(timer_list)] = c]
    BY <1>0, <2>1, <2>2, RunLists
  <2>4. frames[c] # <<>> /\ frames[c] \in Seq(Frames) /\ frames \in [CPUs -> Seq(Frames)]
    BY <1>0, <2>1, FrameTypes DEF FrameInv, CallsOf
  <2>5. frames' \in [CPUs -> Seq(Frames)]
    <3> DEFINE f == [top(c) EXCEPT !.t = Head(timer_list)]
    <3>1. top(c) \in Frames
      BY <2>4, PopFacts DEF top
    <3>2. frames' = [frames EXCEPT ![c] = <<f>> \o Tail(@)]
      BY <2>1 DEF RunExpiry, SetTop
    <3>3. f \in Frames
      BY <2>2, <3>1 DEF Frames
    <3> HIDE DEF f
    <3>4. <<f>> \o Tail(frames[c]) \in Seq(Frames)
      BY <2>4, <3>3, SetTopFacts
    <3> QED
      BY <2>4, <3>2, <3>4
  <2>6. /\ timer_lock' = NoCpu /\ running_timer' = [running_timer EXCEPT ![c] = TRUE]
        /\ pc' = [pc EXCEPT ![c] = "run"]
        /\ UNCHANGED <<timer_in_poll, target, expiry, cancelled, now, arg, calls>>
    BY <2>1 DEF RunExpiry, Goto
  <2> QED
    BY <1>0, <2>2, <2>3, <2>5, <2>6, TypesMade DEF TypeOK, Where
<1>14. ASSUME NEW c \in CPUs, CheckDone(c) PROVE TypeOK'
  <2>1. pc[c] = "timers" /\ frames[c] # <<>> /\ frames[c] \in Seq(Frames)
    BY <1>0, <1>14, FrameTypes DEF FrameInv, CallsOf, CheckDone, Checking
  <2>2. Tail(frames[c]) \in Seq(Frames)
    BY <2>1, PopFacts
  <2>3. frames' \in [CPUs -> Seq(Frames)]
    BY <1>0, <1>14, <2>2, FrameTypes DEF CheckDone
  <2>4. expiry' \in Times \cup {Never}
    <3>1. top(c).stamp \in Times
      <4>1. top(c) \in Frames
        BY <2>1, PopFacts DEF top
      <4> QED
        BY <4>1 DEF Frames
    <3>2. expiry \in Times \cup {Never} /\ Horizon \in Nat
      BY <1>0, TimerAssumption DEF TypeOK
    <3>3. ASSUME timer_list # <<>> PROVE target[Head(timer_list)] \in Times
      <4>1. Head(timer_list) = timer_list[1] /\ 1 \in 1..Len(timer_list)
        BY <1>0, <3>3, ListHead
      <4> QED
        BY <1>0, <4>1, ListTargets DEF ListInv
    <3>4. (IF top(c).stamp < Horizon THEN top(c).stamp + 1 ELSE Horizon) \in Times
      BY <3>1, <3>2 DEF Times
    <3>5. \A when \in Times : update_timer_expiry(when) => expiry' \in Times \cup {Never}
      BY <3>2 DEF update_timer_expiry
    <3> QED
      BY <1>14, <3>2, <3>3, <3>4, <3>5 DEF CheckDone, CheckTells
  <2>5. pc' \in [CPUs -> Where]
    BY <1>0, <1>14 DEF CheckDone, Goto, TypeOK, Where
  <2>6. /\ timer_lock' = NoCpu
        /\ UNCHANGED <<timer_list, timer_poll_list, list, timer_in_poll, target, running,
                       running_timer, cancelled, now, arg, calls>>
    BY <1>14 DEF CheckDone
  <2> QED
    BY <1>0, <2>3, <2>4, <2>5, <2>6, TypesMade DEF TypeOK
<1>15. ASSUME NEW c \in CPUs, ExpiryReturns(c) PROVE TypeOK'
  BY <1>0, <1>15 DEF ExpiryReturns, core, Goto, TypeOK
<1>16. ASSUME NEW c \in CPUs, Relock(c) PROVE TypeOK'
  <2>1. frames[c] # <<>> /\ frames[c] \in Seq(Frames) /\ frames \in [CPUs -> Seq(Frames)]
    BY <1>0, <1>16, FrameTypes DEF FrameInv, CallsOf, Relock
  <2>2. top(c) \in Frames /\ now \in Times
    BY <1>0, <2>1, PopFacts DEF top, TypeOK
  <2> DEFINE f == [top(c) EXCEPT !.t = NoTimer, !.stamp = IF top(c).poll THEN @ ELSE now]
  <2>3. f \in Frames
    BY <2>2 DEF Frames
  <2>4. frames' = [frames EXCEPT ![c] = <<f>> \o Tail(@)]
    BY <1>16 DEF Relock, SetTop
  <2> HIDE DEF f
  <2>5. frames' \in [CPUs -> Seq(Frames)]
    <3>1. <<f>> \o Tail(frames[c]) \in Seq(Frames)
      BY <2>1, <2>3, SetTopFacts
    <3> QED
      BY <2>1, <2>4, <3>1
  <2>6. pc' \in [CPUs -> Where]
    BY <1>0, <1>16 DEF Relock, Goto, TypeOK, Where
  <2>7. /\ timer_lock' = c /\ running_timer' = [running_timer EXCEPT ![c] = FALSE]
        /\ running' = [running EXCEPT ![top(c).t] = NoCpu]
        /\ UNCHANGED <<timer_list, timer_poll_list, list, timer_in_poll, target, expiry, cancelled,
                       now, arg, calls>>
    BY <1>16 DEF Relock
  <2> QED
    BY <1>0, <2>5, <2>6, <2>7, TypesMade DEF TypeOK
<1>17. CASE Tick
  <2>1. now' \in Times
    BY <1>0, <1>17, TimerAssumption DEF Tick, TypeOK, Times
  <2> QED
    BY <1>0, <1>17, <2>1 DEF Tick, core, TypeOK
<1>18. CASE UNCHANGED vars
  BY <1>0, <1>18 DEF vars, moving, core, TypeOK
<1> QED
  BY <1>1, <1>2, <1>3, <1>4, <1>5, <1>6, <1>7, <1>8, <1>9, <1>10, <1>11, <1>12,
     <1>13, <1>14, <1>15, <1>16, <1>17, <1>18
  DEF Next, CpuStep

\* Every step is a step of TimerService or changes nothing it shows: the move to
\* the private list of __check_poll_timers and back is not seen.
LEMMA RefineStep == TimerInv /\ [Next]_vars => [Service!Next]_Service!vars
<1> SUFFICES ASSUME TimerInv, [Next]_vars PROVE [Service!Next]_Service!vars
  OBVIOUS
<1>0. TypeOK /\ ListInv /\ PollList /\ FrameInv /\ NoLostExpiry
  BY DEF TimerInv
<1>1. ASSUME NEW c \in CPUs, NEW t \in Timers, schedule_timer(c, t) PROVE [Service!Next]_Service!vars
  <2>1. PICK when \in Times \cup {TIMER_POLL} :
             /\ target' = [target EXCEPT ![t] = when]
             /\ __schedule_timer_at(c, t, when)
    BY <1>1 DEF schedule_timer
  <2>2. Linked' = Linked \cup {t}
    BY <1>0, <2>1, Scheduled
  <2>3. Service!Schedule(t)
    BY <1>1, <2>2 DEF schedule_timer, Service!Schedule
  <2> QED
    BY <2>3 DEF Service!Next
<1>2. ASSUME NEW c \in CPUs, NEW t \in Timers, cancel_timer_async(c, t) PROVE [Service!Next]_Service!vars
  <2>1. __remove_timer(t) /\ UNCHANGED <<target, running, cancelled>>
    BY <1>2 DEF cancel_timer_async
  <2>2. Linked' = Linked \ {t}
    BY <1>0, <2>1, Unlinked
  <2>3. Service!CancelAsync(t)
    BY <2>1, <2>2 DEF Service!CancelAsync
  <2> QED
    BY <2>3 DEF Service!Next
<1>3. ASSUME NEW c \in CPUs, NEW t \in Timers, sync_timer(c, t) PROVE [Service!Next]_Service!vars
  <2>1. SyncBody(c, t, FALSE) /\ UNCHANGED running
    BY <1>3 DEF sync_timer, SyncBody
  <2>2. \/ /\ running[t] = NoCpu /\ Linked' = Linked \ {t}
           /\ cancelled' = cancelled \cup {t}
        \/ Linked' = Linked /\ UNCHANGED cancelled
    BY <1>0, <2>1, SyncLists
  <2> QED
    BY <2>1, <2>2 DEF Service!Next, Service!Cancel, Service!vars
<1>4. ASSUME NEW c \in CPUs, NEW t \in Timers, cancel_timer(c, t) PROVE [Service!Next]_Service!vars
  <2>1. SyncBody(c, t, TRUE) /\ UNCHANGED running
    BY <1>4 DEF cancel_timer, SyncBody
  <2>2. \/ /\ running[t] = NoCpu /\ Linked' = Linked \ {t}
           /\ cancelled' = cancelled \cup {t}
        \/ Linked' = Linked /\ UNCHANGED cancelled
    BY <1>0, <2>1, SyncLists
  <2> QED
    BY <2>1, <2>2 DEF Service!Next, Service!Cancel, Service!vars
<1>5. ASSUME NEW c \in CPUs, check_timers(c) PROVE [Service!Next]_Service!vars
  <2>1. UNCHANGED <<timer_list, timer_poll_list, list, target, running, cancelled>>
    BY <1>5 DEF check_timers, core
  <2>2. Linked' = Linked
    BY <1>0, <2>1, ListsKept
  <2> QED
    BY <2>1, <2>2 DEF Service!vars
<1>6. ASSUME NEW c \in CPUs, SbeInterrupt(c) PROVE [Service!Next]_Service!vars
  <2>1. UNCHANGED <<timer_list, timer_poll_list, list, target, running, cancelled>>
    BY <1>6 DEF SbeInterrupt, core
  <2>2. Linked' = Linked
    BY <1>0, <2>1, ListsKept
  <2> QED
    BY <2>1, <2>2 DEF Service!vars
<1>7. ASSUME NEW c \in CPUs, SyncSees(c) PROVE [Service!Next]_Service!vars
  <2>1. UNCHANGED <<timer_list, timer_poll_list, list, target, running, cancelled>>
    BY <1>7 DEF SyncSees, core
  <2>2. Linked' = Linked
    BY <1>0, <2>1, ListsKept
  <2> QED
    BY <2>1, <2>2 DEF Service!vars
<1>8. ASSUME NEW c \in CPUs, SyncRelock(c) PROVE [Service!Next]_Service!vars
  <2>0. arg[c].t \in Timers /\ arg[c].cancel \in BOOLEAN
    <3>1. arg[c].t \in Timers
      BY <1>0, <1>8 DEF FrameInv, CallsOf, SyncRelock
    <3>2. arg[c] \in [t: Timers \cup {NoTimer}, cancel: BOOLEAN]
      BY <1>0 DEF TypeOK
    <3> QED
      BY <3>1, <3>2
  <2>1. SyncBody(c, arg[c].t, arg[c].cancel) /\ UNCHANGED running
    BY <1>8 DEF SyncRelock, SyncBody
  <2>2. \/ /\ running[arg[c].t] = NoCpu /\ Linked' = Linked \ {arg[c].t}
           /\ cancelled' = cancelled \cup {arg[c].t}
        \/ Linked' = Linked /\ UNCHANGED cancelled
    BY <1>0, <2>0, <2>1, SyncLists
  <2> QED
    BY <2>0, <2>1, <2>2 DEF Service!Next, Service!Cancel, Service!vars
<1>9. ASSUME NEW c \in CPUs, CheckLock(c) PROVE [Service!Next]_Service!vars
  <2>1. UNCHANGED <<timer_list, target, running, cancelled>>
    BY <1>9 DEF CheckLock
  <2>2. CASE UNCHANGED <<list, timer_poll_list>>
    <3>1. Linked' = Linked
      BY <1>0, <2>1, <2>2, ListsKept
    <3> QED
      BY <2>1, <3>1 DEF Service!vars
  <2>3. CASE ~timer_in_poll /\ list' = timer_poll_list /\ timer_poll_list' = <<>>
    <3>1. list = <<>>
      BY <1>0, <2>3 DEF PollList
    <3>2. Linked' = Linked
      BY <1>0, <2>1, <2>3, <3>1, PollLists
    <3> QED
      BY <2>1, <3>2 DEF Service!vars
  <2> QED
    BY <1>9, <2>2, <2>3 DEF CheckLock
<1>10. ASSUME NEW c \in CPUs, PollSkip(c) PROVE [Service!Next]_Service!vars
  <2>1. /\ list # <<>> /\ list' = Tail(list)
        /\ timer_poll_list' = Append(timer_poll_list, Head(list))
        /\ UNCHANGED <<timer_list, target, running, cancelled>>
    BY <1>10 DEF PollSkip
  <2>2. Linked' = Linked
    BY <1>0, <2>1, SkipLists
  <2> QED
    BY <2>1, <2>2 DEF Service!vars
<1>11. ASSUME NEW c \in CPUs, PollRun(c) PROVE [Service!Next]_Service!vars
  <2>1. /\ RunExpiry(c, Head(list)) /\ list # <<>> /\ running[Head(list)] = NoCpu
        /\ pc[c] \in Checking
    BY <1>11 DEF PollRun, Checking
  <2>2. Head(list) \in Timers /\ Head(list) \in Linked
    BY <1>0, <2>1, TopLinked
  <2>3. /\ Linked' = Linked \ {Head(list)} /\ running' = [running EXCEPT ![Head(list)] = c]
        /\ UNCHANGED cancelled
    BY <1>0, <2>1, <2>2, RunLists
  <2>4. Service!Start(c, Head(list))
    BY <2>1, <2>2, <2>3 DEF Service!Start
  <2> QED
    BY <2>2, <2>4 DEF Service!Next
<1>12. ASSUME NEW c \in CPUs, PollDone(c) PROVE [Service!Next]_Service!vars
  <2>1. UNCHANGED <<timer_list, timer_poll_list, list, target, running, cancelled>>
    BY <1>12 DEF PollDone, core
  <2>2. Linked' = Linked
    BY <1>0, <2>1, ListsKept
  <2> QED
    BY <2>1, <2>2 DEF Service!vars
<1>13. ASSUME NEW c \in CPUs, TimersRun(c) PROVE [Service!Next]_Service!vars
  <2>1. /\ RunExpiry(c, Head(timer_list)) /\ timer_list # <<>> /\ running[Head(timer_list)] = NoCpu
        /\ pc[c] \in Checking
    BY <1>13 DEF TimersRun, Checking
  <2>2. Head(timer_list) \in Timers /\ Head(timer_list) \in Linked
    BY <1>0, <2>1, TopLinked
  <2>3. /\ Linked' = Linked \ {Head(timer_list)} /\ running' = [running EXCEPT ![Head(timer_list)] = c]
        /\ UNCHANGED cancelled
    BY <1>0, <2>1, <2>2, RunLists
  <2>4. Service!Start(c, Head(timer_list))
    BY <2>1, <2>2, <2>3 DEF Service!Start
  <2> QED
    BY <2>2, <2>4 DEF Service!Next
<1>14. ASSUME NEW c \in CPUs, CheckDone(c) PROVE [Service!Next]_Service!vars
  <2>1. UNCHANGED <<timer_list, timer_poll_list, list, target, running, cancelled>>
    BY <1>14 DEF CheckDone, core
  <2>2. Linked' = Linked
    BY <1>0, <2>1, ListsKept
  <2> QED
    BY <2>1, <2>2 DEF Service!vars
<1>15. ASSUME NEW c \in CPUs, ExpiryReturns(c) PROVE [Service!Next]_Service!vars
  <2>1. UNCHANGED <<timer_list, timer_poll_list, list, target, running, cancelled>>
    BY <1>15 DEF ExpiryReturns, core
  <2>2. Linked' = Linked
    BY <1>0, <2>1, ListsKept
  <2> QED
    BY <2>1, <2>2 DEF Service!vars
<1>16. ASSUME NEW c \in CPUs, Relock(c) PROVE [Service!Next]_Service!vars
  <2>1. top(c).t \in Timers /\ running[top(c).t] = c
    BY <1>0, <1>16, FramesRelock
  <2>2. /\ UNCHANGED <<timer_list, timer_poll_list, list, target, cancelled>>
        /\ running' = [running EXCEPT ![top(c).t] = NoCpu]
    BY <1>16 DEF Relock
  <2>3. Linked' = Linked
    BY <1>0, <2>2, ListsKept
  <2>4. Service!Finish(c, top(c).t)
    BY <2>1, <2>2, <2>3 DEF Service!Finish
  <2> QED
    BY <2>1, <2>4 DEF Service!Next
<1>17. CASE Tick
  <2>1. UNCHANGED <<timer_list, timer_poll_list, list, target, running, cancelled>>
    BY <1>17 DEF Tick, core
  <2>2. Linked' = Linked
    BY <1>0, <2>1, ListsKept
  <2> QED
    BY <2>1, <2>2 DEF Service!vars
<1>18. CASE UNCHANGED vars
  <2>1. UNCHANGED <<timer_list, timer_poll_list, list, target, running, cancelled>>
    BY <1>18 DEF vars, moving, core
  <2>2. Linked' = Linked
    BY <1>0, <2>1, ListsKept
  <2> QED
    BY <2>1, <2>2 DEF Service!vars
<1> QED
  BY <1>1, <1>2, <1>3, <1>4, <1>5, <1>6, <1>7, <1>8, <1>9, <1>10, <1>11, <1>12,
     <1>13, <1>14, <1>15, <1>16, <1>17, <1>18
  DEF Next, CpuStep

-----------------------------------------------------------------------------
(* The theorems. *)

\* Before the first call there is no timer on a list and no CPU in
\* check_timers.
LEMMA InitTimer == Init => TimerInv
<1> SUFFICES ASSUME Init PROVE TimerInv
  OBVIOUS
<1> USE TimerAssumption DEF Init
<1>1. TypeOK
  <2>1. 0 \in Times /\ Never \in Times \cup {Never} /\ 0 \in 0..MaxCalls
    BY DEF Times
  <2>2. {timer_list, timer_poll_list, list} \subseteq Seq(Timers)
    OBVIOUS
  <2>3. frames \in [CPUs -> Seq(Frames)]
    OBVIOUS
  <2> QED
    BY <2>1, <2>2, <2>3 DEF TypeOK
<1>2. ListInv
  <2>1. Len(<<>>) = 0 /\ ToSet(<<>>) = {}
    BY DEF ToSet
  <2> QED
    BY <2>1 DEF ListInv, ListsDistinct, ListsDisjoint, ListSorted, Sorted, Distinct
<1>3. FrameInv
  <2> SUFFICES ASSUME NEW c \in CPUs PROVE FramesOf(c) /\ CallsOf(c)
    BY DEF FrameInv
  <2>1. frames[c] = <<>> /\ Len(frames[c]) = 0 /\ pc[c] = "run" /\ ~running_timer[c]
    OBVIOUS
  <2>2. \A t \in Timers : running[t] # c
    OBVIOUS
  <2> QED
    BY <2>1, <2>2 DEF FramesOf, CallsOf, Checking
<1>4. PollList /\ NoLostExpiry
  BY DEF PollList, NoLostExpiry
<1> QED
  BY <1>1, <1>2, <1>3, <1>4 DEF TimerInv

\* The invariant holds in every state the timer core can reach.
THEOREM TimerInvariant == Spec => []TimerInv
<1>1. TimerInv /\ [Next]_vars => TimerInv'
  BY TypeStep, ListStep, FrameStep, ExpiryStep DEF TimerInv
<1> QED
  BY <1>1, InitTimer, PTL DEF Spec

\* Every timer is linked at most once over the three lists, and the list of
\* timers is in the order of their targets, whatever is scheduled and
\* cancelled while timers run.
THEOREM TimerListsSound == Spec => []ListsSound
<1>1. TimerInv => ListsSound
  <2> SUFFICES ASSUME TimerInv PROVE ListsSound
    OBVIOUS
  <2>1. TypeOK /\ ListInv
    BY DEF TimerInv
  <2>2. Distinct(timer_list \o timer_poll_list \o list)
    BY <2>1, ListTypes, ThreeLists DEF ListInv, ListsDistinct, ListsDisjoint
  <2> QED
    BY <2>1, <2>2 DEF ListsSound, Distinct, ListInv, ListSorted, Sorted
<1> QED
  BY <1>1, TimerInvariant, PTL

\* When no CPU is in check_timers() the SBE will interrupt no later than the
\* target of the first timer.
THEOREM TimerNoLostExpiry == Spec => []NoLostExpiry
<1>1. TimerInv => NoLostExpiry
  BY DEF TimerInv
<1> QED
  BY <1>1, TimerInvariant, PTL

\* The timer core implements the service that include/timer.h promises: an
\* expiry function runs once per scheduling, on one CPU at a time, and not
\* after cancel_timer() has returned.
THEOREM TimerImplementsService == Spec => ImplementsService
<1>1. Init => Service!Init
  <2> SUFFICES ASSUME Init PROVE Service!Init
    OBVIOUS
  <2>1. Linked = {}
    BY DEF Init, Linked, ToSet
  <2> QED
    BY <2>1 DEF Init, Service!Init
<1>2. TimerInv /\ [Next]_vars => [Service!Next]_Service!vars
  BY RefineStep
<1> QED
  BY <1>1, <1>2, TimerInvariant, PTL DEF Spec, ImplementsService, Service!Spec
=============================================================================
