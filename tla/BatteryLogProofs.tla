--------------------------- MODULE BatteryLogProofs ---------------------------
(***************************************************************************)
(* For rings of any size, clean-ups of any period and any clock: each of   *)
(* the two rings, with the file behind it, is a RecentLog, and the figures *)
(* computed from them are those of what happened.                          *)
(*                                                                         *)
(* The second part rests on what a log that lost its oldest events still   *)
(* tells of the past: the latest event up to a tick says what the tick was *)
(* like (SleepTold, DarkTold), events come in turns (SleepsAlternate,      *)
(* LightsAlternate) and a sleep leaves its mark between two samples        *)
(* (SleepsMarked, ChargersSampled).  TellInv, their conjunction with IInv, *)
(* is inductive.                                                           *)
(***************************************************************************)
EXTENDS BatteryLog, FiniteSetTheorems, SequenceTheorems, TLAPS

(***************************************************************************)
(* The arithmetic of a ring.                                               *)
(***************************************************************************)
LEMMA Remainder ==
  ASSUME NEW n \in Nat \ {0}, NEW a \in 0..2 * n - 1
  PROVE  a % n = IF a < n THEN a ELSE a - n
OBVIOUS

LEMMA NextIndex ==
  ASSUME NEW n \in Nat \ {0}, NEW k \in 0..n - 1
  PROVE  (k + 1) % n = IF k + 1 < n THEN k + 1 ELSE 0
<1>1. k + 1 \in 0..2 * n - 1
  OBVIOUS
<1>2. CASE k + 1 < n
  BY <1>1, <1>2, Remainder
<1>3. CASE k + 1 = n
  BY <1>3
<1> QED BY <1>2, <1>3

\* The slot of the i-th oldest entry, without the remainder.
Slot(ring, size, i) ==
  LET a == ring.next_index - ring.count + i - 1 IN IF a < 0 THEN a + size ELSE a

LEMMA RingInOrder ==
  ASSUME NEW size \in Nat \ {0}, NEW entries, NEW ring \in Rings(size, entries)
  PROVE  /\ ring.count \in 0..size /\ ring.next_index \in 0..size - 1
         /\ Len(InOrder(ring, size)) = ring.count
         /\ DOMAIN InOrder(ring, size) = 1..ring.count
         /\ \A i \in 1..ring.count :
              /\ Slot(ring, size, i) \in 0..size - 1
              /\ InOrder(ring, size)[i] = ring.slots[Slot(ring, size, i)]
<1>1. ring.count \in 0..size /\ ring.next_index \in 0..size - 1
  BY DEF Rings
<1>2. ASSUME NEW i \in 1..ring.count
      PROVE  /\ Slot(ring, size, i) \in 0..size - 1
             /\ (ring.next_index - ring.count + i - 1 + size) % size = Slot(ring, size, i)
  <2> DEFINE a == ring.next_index - ring.count + i - 1 + size
  <2>1. a \in 0..2 * size - 1
    BY <1>1
  <2>2. a % size = IF a < size THEN a ELSE a - size
    BY <2>1, Remainder
  <2> QED BY <1>1, <2>1, <2>2 DEF Slot
<1>3. DOMAIN InOrder(ring, size) = 1..ring.count
  BY DEF InOrder
<1>4. Len(InOrder(ring, size)) = ring.count
  BY <1>1 DEF InOrder
<1>5. ASSUME NEW i \in 1..ring.count
      PROVE  InOrder(ring, size)[i] = ring.slots[Slot(ring, size, i)]
  BY <1>2, <1>5 DEF InOrder
<1> QED BY <1>1, <1>2, <1>3, <1>4, <1>5

\* What a ring of this size makes of a sequence: at most the newest `size' entries.
Newest(s, size) == IF Len(s) > size THEN Tail(s) ELSE s

\* Writing an entry appends it, and drops the oldest one if the ring is full.
LEMMA PutAppends ==
  ASSUME NEW size \in Nat \ {0}, NEW entries, NEW ring \in Rings(size, entries),
         InOrder(ring, size) \in Seq(entries), NEW x \in entries
  PROVE  /\ Put(ring, size, x) \in Rings(size, entries)
         /\ InOrder(Put(ring, size, x), size) \in Seq(entries)
         /\ InOrder(Put(ring, size, x), size) = Newest(Append(InOrder(ring, size), x), size)
<1> DEFINE put == Put(ring, size, x)
           old == InOrder(ring, size)
           new == InOrder(put, size)
           s == Append(old, x)
<1>1. ring.count \in 0..size /\ ring.next_index \in 0..size - 1
  BY DEF Rings
<1>2. ring.slots \in [0..size - 1 -> entries \cup {NoEntry}]
  BY DEF Rings
<1>3. (ring.next_index + 1) % size = IF ring.next_index + 1 < size THEN ring.next_index + 1 ELSE 0
  BY <1>1, NextIndex
<1>4. put.slots = [ring.slots EXCEPT ![ring.next_index] = x]
  BY DEF Put
<1>5. /\ put.next_index = IF ring.next_index + 1 < size THEN ring.next_index + 1 ELSE 0
      /\ put.count = IF ring.count < size THEN ring.count + 1 ELSE ring.count
  BY <1>3 DEF Put
<1>6. put \in Rings(size, entries)
  <2>1. put.slots \in [0..size - 1 -> entries \cup {NoEntry}]
    BY <1>4, <1>2
  <2>2. put.next_index \in 0..size - 1 /\ put.count \in 0..size
    BY <1>1, <1>5
  <2>3. put = [slots |-> put.slots, next_index |-> put.next_index, count |-> put.count]
    BY DEF Put
  <2> HIDE DEF put
  <2> QED BY <2>1, <2>2, <2>3 DEF Rings
<1> HIDE DEF put
<1>7. Len(old) = ring.count /\ Len(new) = put.count
  BY <1>6, RingInOrder
<1>8. Len(s) = ring.count + 1 /\ s \in Seq(entries)
      /\ \A i \in 1..ring.count + 1 : s[i] = IF i = ring.count + 1 THEN x ELSE old[i]
  BY <1>1, <1>7
<1>9. Len(Newest(s, size)) = put.count /\ Newest(s, size) \in Seq(entries)
  BY <1>1, <1>5, <1>8 DEF Newest
<1>10. ASSUME NEW i \in 1..put.count
      PROVE  new[i] = Newest(s, size)[i]
  <2>1. new[i] = put.slots[Slot(put, size, i)] /\ Slot(put, size, i) \in 0..size - 1
    BY <1>6, <1>10, RingInOrder
  <2>2. \A j \in 1..ring.count :
          old[j] = ring.slots[Slot(ring, size, j)] /\ Slot(ring, size, j) \in 0..size - 1
    BY RingInOrder
  <2>3. \A k \in 0..size - 1 : put.slots[k] = IF k = ring.next_index THEN x ELSE ring.slots[k]
    BY <1>4, <1>2
  <2>4. CASE ring.count < size
    <3>1. Newest(s, size)[i] = IF i = ring.count + 1 THEN x ELSE old[i]
      BY <1>1, <1>5, <1>8, <1>10, <2>4 DEF Newest
    <3>2. CASE i = ring.count + 1
      <4>1. Slot(put, size, i) = ring.next_index
        BY <1>1, <1>5, <2>4, <3>2 DEF Slot
      <4> QED BY <2>1, <2>3, <3>1, <3>2, <4>1
    <3>3. CASE i # ring.count + 1
      <4>1. i \in 1..ring.count
        BY <1>1, <1>5, <1>10, <2>4, <3>3
      <4>2. Slot(put, size, i) = Slot(ring, size, i) /\ Slot(put, size, i) # ring.next_index
        <5>1. CASE ring.next_index + 1 < size
          <6>1. put.next_index = ring.next_index + 1 /\ put.count = ring.count + 1
            BY <1>5, <2>4, <5>1
          <6>2. Slot(put, size, i) = Slot(ring, size, i)
            BY <1>1, <4>1, <6>1 DEF Slot
          <6>3. Slot(ring, size, i) # ring.next_index
            BY <1>1, <2>4, <4>1 DEF Slot
          <6> QED BY <6>2, <6>3
        <5>2. CASE ring.next_index + 1 = size
          BY <1>1, <1>5, <2>4, <4>1, <5>2 DEF Slot
        <5> QED BY <1>1, <5>1, <5>2
      <4> QED BY <2>1, <2>2, <2>3, <3>1, <3>3, <4>1, <4>2
    <3> QED BY <3>2, <3>3
  <2>5. CASE ring.count = size
    <3>1. Newest(s, size)[i] = IF i = size THEN x ELSE old[i + 1]
      BY <1>1, <1>5, <1>8, <1>10, <2>5 DEF Newest
    <3>2. CASE i = size
      <4>1. Slot(put, size, i) = ring.next_index
        BY <1>1, <1>5, <2>5, <3>2 DEF Slot
      <4> QED BY <2>1, <2>3, <3>1, <3>2, <4>1
    <3>3. CASE i # size
      <4>1. i + 1 \in 1..ring.count
        BY <1>1, <1>5, <1>10, <2>5, <3>3
      <4>2. Slot(put, size, i) = Slot(ring, size, i + 1) /\ Slot(put, size, i) # ring.next_index
        BY <1>1, <1>5, <1>10, <2>5, <4>1 DEF Slot
      <4> QED BY <2>1, <2>2, <2>3, <3>1, <3>3, <4>1, <4>2
    <3> QED BY <3>2, <3>3
  <2> QED BY <1>1, <2>4, <2>5
<1>11. new \in [1..put.count -> entries]
  <2>1. \A i \in 1..put.count : Newest(s, size)[i] \in entries
    BY <1>9, ElementOfSeq
  <2>2. DOMAIN new = 1..put.count /\ new = [i \in DOMAIN new |-> new[i]]
    BY <1>6, RingInOrder DEF InOrder
  <2> HIDE DEF new, s
  <2> QED BY <1>10, <2>1, <2>2
<1>12. put.count \in Nat
  BY <1>6 DEF Rings
<1>13. new \in Seq(entries)
  BY <1>11, <1>12
<1>14. new = Newest(s, size)
  <2> HIDE DEF new, s
  <2> QED BY <1>7, <1>9, <1>10, <1>13, SeqEqual
<1> QED BY <1>6, <1>13, <1>14 DEF put

(***************************************************************************)
(* The clean-up.                                                           *)
(***************************************************************************)
LEMMA LeastElement ==
  ASSUME NEW T \in SUBSET Nat, T # {}
  PROVE  \E m \in T : \A y \in T : m <= y
<1>1. IsWellFoundedOn(OpToRel(<, Nat), Nat)
  BY NatLessThanWellFounded
<1>2. PICK m \in T : \A y \in T : ~ (<<y, m>> \in OpToRel(<, Nat))
  BY <1>1, WFMin
<1>3. \A y \in T : ~ (y < m)
  BY <1>2 DEF OpToRel
<1> QED BY <1>3

\* In order, the k-th of the last ones is the k-th by rank.
LEMMA RankInInterval ==
  ASSUME NEW n \in Nat, NEW m \in 1..n + 1, NEW k \in 1..n - m + 1
  PROVE  (CHOOSE i \in m..n : Cardinality({j \in m..n : j <= i}) = k) = m + k - 1
<1>1. ASSUME NEW i \in m..n
      PROVE  Cardinality({j \in m..n : j <= i}) = i - m + 1
  <2>1. {j \in m..n : j <= i} = m..i
    OBVIOUS
  <2>2. Cardinality(m..i) = i - m + 1
    BY FS_Interval
  <2> QED BY <2>1, <2>2
<1>2. m + k - 1 \in m..n /\ (m + k - 1) - m + 1 = k
  OBVIOUS
<1>3. Cardinality({j \in m..n : j <= m + k - 1}) = k
  BY <1>1, <1>2
<1>4. \A i \in m..n : Cardinality({j \in m..n : j <= i}) = k => i = m + k - 1
  BY <1>1
<1> QED BY <1>2, <1>3, <1>4

\* The entries of a log that was written in order expire from the old end.
LEMMA ValidIsSuffix ==
  ASSUME now \in Nat, NEW l, WrittenBy(l, now)
  PROVE  \E n \in 0..Len(InOrder(l.events, EVENTS_SIZE)) :
           ValidEvents(l) = SubSeq(InOrder(l.events, EVENTS_SIZE), n + 1,
                                   Len(InOrder(l.events, EVENTS_SIZE)))
<1> DEFINE events == InOrder(l.events, EVENTS_SIZE)
           count == Len(events)
           valid == {i \in DOMAIN events : events[i].timestamp >= now - KeepPeriod}
<1>1. /\ events \in Seq(Events) /\ Ordered(events)
      /\ count \in Nat /\ DOMAIN events = 1..count
  BY DEF WrittenBy, UpTo
<1>2. \A i \in 1..count : events[i].timestamp \in Int
  <2>1. \A i \in 1..count : events[i] \in Events
    BY <1>1, ElementOfSeq
  <2> QED BY <2>1, BatteryLogAssumption DEF Events, Times
<1>3. KeepPeriod \in Nat
  BY BatteryLogAssumption
<1>4. \E m \in 1..count + 1 : valid = m..count
  <2>1. CASE valid = {}
    BY <1>1, <2>1
  <2>2. CASE valid # {}
    <3>0. valid \in SUBSET Nat
      BY <1>1
    <3> HIDE DEF valid
    <3>1. PICK m \in valid : \A y \in valid : m <= y
      BY <2>2, <3>0, LeastElement
    <3> USE DEF valid
    <3>2. m \in 1..count /\ events[m].timestamp >= now - KeepPeriod
      BY <1>1
    <3>3. \A i \in m..count : events[i].timestamp >= events[m].timestamp
      BY <1>1, <3>2 DEF Ordered
    <3>4. \A i \in m..count : i \in valid
      BY <1>1, <1>2, <1>3, <3>2, <3>3
    <3> QED BY <1>1, <3>1, <3>2, <3>4
  <2> QED BY <2>1, <2>2
<1>5. PICK m \in 1..count + 1 : valid = m..count
  BY <1>4
<1>6. ValidEvents(l) = [k \in 1..Cardinality(valid) |->
                         events[CHOOSE i \in valid : Cardinality({j \in valid : j <= i}) = k]]
  BY DEF ValidEvents
<1> HIDE DEF events, valid
<1>7. Cardinality(valid) = count - m + 1
  <2>1. Cardinality(m..count) = IF m > count THEN 0 ELSE count - m + 1
    <3>1. m \in Int /\ count \in Int
      BY <1>1
    <3> HIDE DEF count
    <3> QED BY <3>1, FS_Interval
  <2>2. (IF m > count THEN 0 ELSE count - m + 1) = count - m + 1
    BY <1>1
  <2> QED BY <1>5, <2>1, <2>2
<1>8. \A k \in 1..count - m + 1 :
        (CHOOSE i \in valid : Cardinality({j \in valid : j <= i}) = k) = m + k - 1
  <2>1. SUFFICES ASSUME NEW k \in 1..count - m + 1
                 PROVE  (CHOOSE i \in m..count : Cardinality({j \in m..count : j <= i}) = k)
                          = m + k - 1
    BY <1>5
  <2> QED BY <1>1, RankInInterval
<1>9. ValidEvents(l) = [k \in 1..count - m + 1 |-> events[m + k - 1]]
  BY <1>6, <1>7, <1>8
<1>10. SubSeq(events, m, count) = [k \in 1..count - m + 1 |-> events[m + k - 1]]
  BY <1>1
<1>11. m - 1 \in 0..count /\ (m - 1) + 1 = m
  BY <1>1
<1> QED BY <1>9, <1>10, <1>11 DEF events

\* Moved to the front of a fresh ring, the entries stay what they were.
LEMMA FreshRing ==
  ASSUME NEW s \in Seq(Events), Len(s) <= EVENTS_SIZE
  PROVE  LET ring == [slots |-> MovedToFront(s), next_index |-> Len(s) % EVENTS_SIZE,
                      count |-> Len(s)]
         IN  ring \in Rings(EVENTS_SIZE, Events) /\ InOrder(ring, EVENTS_SIZE) = s
<1> DEFINE size == EVENTS_SIZE
           ring == [slots |-> MovedToFront(s), next_index |-> Len(s) % size, count |-> Len(s)]
<1>1. size \in Nat \ {0} /\ Len(s) \in 0..size
  BY BatteryLogAssumption
<1>2. Len(s) % size = IF Len(s) < size THEN Len(s) ELSE 0
  <2>1. Len(s) \in 0..2 * size - 1
    BY <1>1
  <2> HIDE DEF size
  <2>2. CASE Len(s) < size
    BY <1>1, <2>1, <2>2, Remainder
  <2>3. CASE Len(s) = size
    BY <1>1, <2>3
  <2> QED BY <1>1, <2>2, <2>3
<1>3. \A i \in 1..Len(s) : s[i] \in Events
  BY ElementOfSeq
<1>4. MovedToFront(s) \in [0..size - 1 -> Events \cup {NoEntry}]
  <2>1. \A i \in 0..size - 1 : i < Len(s) => i + 1 \in 1..Len(s)
    BY <1>1
  <2> QED BY <1>1, <1>3, <2>1 DEF MovedToFront
<1>5. ring \in Rings(size, Events)
  <2>1. Len(s) % size \in 0..size - 1
    BY <1>1, <1>2
  <2> HIDE DEF size
  <2> QED BY <1>1, <1>4, <2>1 DEF Rings
<1>6. /\ ring.slots = MovedToFront(s) /\ ring.count = Len(s)
      /\ ring.next_index = IF Len(s) < size THEN Len(s) ELSE 0
  BY <1>2
<1> HIDE DEF ring
<1>7. ASSUME NEW i \in 1..Len(s)
      PROVE  InOrder(ring, size)[i] = s[i]
  <2>1. Slot(ring, size, i) = i - 1
    BY <1>1, <1>6, <1>7 DEF Slot
  <2>2. i - 1 \in 0..size - 1 /\ i - 1 < Len(s) /\ (i - 1) + 1 = i
    BY <1>1
  <2>3. MovedToFront(s)[i - 1] = s[i]
    BY <2>2 DEF MovedToFront
  <2>4. InOrder(ring, size)[i] = ring.slots[Slot(ring, size, i)]
    BY <1>1, <1>5, <1>6, RingInOrder
  <2> QED BY <1>6, <2>1, <2>3, <2>4
<1>8. InOrder(ring, size) = s
  <2>1. DOMAIN InOrder(ring, size) = 1..Len(s)
    BY <1>1, <1>5, <1>6, RingInOrder
  <2>2. InOrder(ring, size) = [i \in DOMAIN InOrder(ring, size) |-> InOrder(ring, size)[i]]
    BY DEF InOrder
  <2>3. s = [i \in 1..Len(s) |-> s[i]]
    OBVIOUS
  <2> HIDE DEF size
  <2> QED BY <1>7, <2>1, <2>2, <2>3
<1> QED BY <1>5, <1>8 DEF ring

LEMMA CleanupExpires ==
  ASSUME now \in Times, NEW l, WrittenBy(l, now)
  PROVE  /\ WrittenBy(CleanupOldEvents(l), now)
         /\ CleanupOldEvents(l).samples = l.samples
         /\ \E n \in 0..Len(InOrder(l.events, EVENTS_SIZE)) :
              InOrder(CleanupOldEvents(l).events, EVENTS_SIZE)
                = SubSeq(InOrder(l.events, EVENTS_SIZE), n + 1,
                         Len(InOrder(l.events, EVENTS_SIZE)))
<1> DEFINE events == InOrder(l.events, EVENTS_SIZE)
           count == Len(events)
           valid == ValidEvents(l)
           ring == [slots |-> MovedToFront(valid), next_index |-> Len(valid) % EVENTS_SIZE,
                    count |-> Len(valid)]
<1>1. /\ l \in Logs /\ l.events \in Rings(EVENTS_SIZE, Events)
      /\ events \in Seq(Events) /\ Ordered(events)
      /\ \A i \in DOMAIN events : events[i].timestamp <= now
      /\ InOrder(l.samples, HISTORY_SIZE) \in Seq(Samples)
      /\ UpTo(now, InOrder(l.samples, HISTORY_SIZE))
  BY DEF WrittenBy, UpTo, Logs
<1>2. count \in 0..EVENTS_SIZE /\ DOMAIN events = 1..count
  BY <1>1, RingInOrder, BatteryLogAssumption
<1>3. now \in Nat
  BY BatteryLogAssumption DEF Times
<1>4. PICK n \in 0..count : valid = SubSeq(events, n + 1, count)
  BY <1>3, ValidIsSuffix
<1> HIDE DEF events, valid
<1>5. /\ valid \in Seq(Events) /\ Len(valid) = count - n
      /\ \A i \in 1..count - n : valid[i] = events[n + i] /\ n + i \in 1..count
  BY <1>1, <1>2, <1>4
<1>6. ring \in Rings(EVENTS_SIZE, Events) /\ InOrder(ring, EVENTS_SIZE) = valid
  <2>1. Len(valid) <= EVENTS_SIZE
    BY <1>2, <1>5, BatteryLogAssumption
  <2> QED BY <1>5, <2>1, FreshRing
<1>7. UpTo(now, valid)
  <2>1. DOMAIN valid = 1..count - n
    BY <1>5
  <2>2. \A i \in DOMAIN valid : valid[i].timestamp <= now
    BY <1>1, <1>2, <1>5, <2>1
  <2>3. \A i, j \in 1..count - n : i <= j => n + i <= n + j
    BY <1>2
  <2>4. Ordered(valid)
    BY <1>1, <1>2, <1>5, <2>1, <2>3 DEF Ordered
  <2> QED BY <2>2, <2>4 DEF UpTo
<1> HIDE DEF ring
<1>8. CASE now - l.last_cleanup < CleanupPeriod
  <2>1. CleanupOldEvents(l) = l
    BY <1>8 DEF CleanupOldEvents
  <2>2. events = SubSeq(events, 0 + 1, count) /\ 0 \in 0..count
    BY <1>1, <1>2
  <2> QED BY <2>1, <2>2 DEF events
<1>9. CASE ~(now - l.last_cleanup < CleanupPeriod)
  <2> DEFINE new == CleanupOldEvents(l)
  <2>1. new = [l EXCEPT !.events = ring, !.last_cleanup = now]
    BY <1>9 DEF CleanupOldEvents, ring, valid
  <2>2. new = [samples |-> l.samples, events |-> ring, last_cleanup |-> now]
    BY <1>1, <2>1 DEF Logs
  <2>3. new \in Logs
    BY <1>1, <1>6, <2>2 DEF Logs
  <2>4. new.samples = l.samples /\ new.events = ring
    BY <2>2
  <2> HIDE DEF new
  <2>5. WrittenBy(new, now)
    BY <1>1, <1>5, <1>6, <1>7, <2>3, <2>4 DEF WrittenBy
  <2> QED BY <1>4, <1>6, <2>4, <2>5 DEF new, events
<1> QED BY <1>8, <1>9

(***************************************************************************)
(* What a written entry does to a log.                                     *)
(***************************************************************************)
LEMMA NewestUpTo ==
  ASSUME NEW entries, \A e \in entries : e.timestamp \in Int, NEW t \in Int,
         NEW old \in Seq(entries), UpTo(t, old), NEW x \in entries, x.timestamp = t,
         NEW size \in Nat
  PROVE  UpTo(t, Newest(Append(old, x), size))
<1> DEFINE s == Append(old, x)
           recent == Newest(s, size)
<1>1. /\ Len(old) \in Nat /\ Len(s) = Len(old) + 1 /\ s \in Seq(entries)
      /\ \A i \in 1..Len(s) : s[i] = IF i <= Len(old) THEN old[i] ELSE x
  OBVIOUS
<1>2. \A i \in 1..Len(s) : s[i].timestamp <= t
  <2> HIDE DEF s
  <2> QED BY <1>1 DEF UpTo
<1>3. \A i, j \in 1..Len(s) : i <= j => s[i].timestamp <= s[j].timestamp
  <2>1. \A i, j \in 1..Len(old) : i <= j => old[i].timestamp <= old[j].timestamp
    BY <1>1 DEF UpTo, Ordered
  <2> HIDE DEF s
  <2> QED BY <1>1, <1>2, <2>1
<1> HIDE DEF s
<1>4. ASSUME recent = s
      PROVE  UpTo(t, recent)
  <2> HIDE DEF recent
  <2> QED BY <1>1, <1>2, <1>3, <1>4 DEF UpTo, Ordered
<1>5. ASSUME recent = Tail(s)
      PROVE  UpTo(t, recent)
  <2>1. /\ DOMAIN recent = 1..Len(old)
        /\ \A i \in 1..Len(old) : recent[i] = s[i + 1] /\ i + 1 \in 1..Len(s)
    BY <1>1, <1>5
  <2> HIDE DEF recent
  <2>2. \A i, j \in 1..Len(old) : i <= j => i + 1 <= j + 1
    BY <1>1
  <2>3. \A i, j \in 1..Len(old) : i <= j => recent[i].timestamp <= recent[j].timestamp
    BY <1>3, <2>1, <2>2
  <2> QED BY <1>2, <2>1, <2>3 DEF UpTo, Ordered
<1>6. Newest(Append(old, x), size) = recent /\ (recent = s \/ recent = Tail(s))
  BY DEF s, Newest
<1> HIDE DEF recent
<1> QED BY <1>4, <1>5, <1>6

LEMMA AddEventWrites ==
  ASSUME now \in Times, NEW l, WrittenBy(l, now), NEW type \in EventTypes
  PROVE  /\ WrittenBy(AddEvent(l, type), now)
         /\ AddEvent(l, type).samples = l.samples
         /\ [timestamp |-> now, type |-> type] \in Events
         /\ InOrder(AddEvent(l, type).events, EVENTS_SIZE)
              = Newest(Append(InOrder(l.events, EVENTS_SIZE), [timestamp |-> now, type |-> type]),
                       EVENTS_SIZE)
<1> DEFINE old == InOrder(l.events, EVENTS_SIZE)
           x == [timestamp |-> now, type |-> type]
           ring == Put(l.events, EVENTS_SIZE, x)
           recent == Newest(Append(old, x), EVENTS_SIZE)
           new == AddEvent(l, type)
<1>1. /\ l \in Logs /\ l.events \in Rings(EVENTS_SIZE, Events)
      /\ old \in Seq(Events) /\ UpTo(now, old)
      /\ InOrder(l.samples, HISTORY_SIZE) \in Seq(Samples)
      /\ UpTo(now, InOrder(l.samples, HISTORY_SIZE))
  BY DEF WrittenBy, Logs
<1>2. now \in Int /\ EVENTS_SIZE \in Nat /\ \A e \in Events : e.timestamp \in Int
  BY BatteryLogAssumption DEF Times, Events
<1>3. x \in Events /\ x.timestamp = now
  BY DEF Events
<1> HIDE DEF x
<1>4. /\ ring \in Rings(EVENTS_SIZE, Events)
      /\ InOrder(ring, EVENTS_SIZE) = recent /\ recent \in Seq(Events)
  BY <1>1, <1>3, PutAppends, BatteryLogAssumption
<1>5. UpTo(now, recent)
  BY <1>1, <1>2, <1>3, NewestUpTo
<1> HIDE DEF ring, recent
<1>6. new = [l EXCEPT !.events = ring]
  BY DEF AddEvent, ring, x
<1>7. new = [samples |-> l.samples, events |-> ring, last_cleanup |-> l.last_cleanup]
  BY <1>1, <1>6 DEF Logs
<1>8. new \in Logs
  BY <1>1, <1>4, <1>7 DEF Logs
<1>9. new.samples = l.samples /\ new.events = ring
  BY <1>7
<1> HIDE DEF new
<1>10. WrittenBy(new, now)
  BY <1>1, <1>4, <1>5, <1>8, <1>9 DEF WrittenBy
<1> QED BY <1>3, <1>4, <1>9, <1>10 DEF new, recent, old, x

LEMMA AddSampleWrites ==
  ASSUME now \in Times, NEW l, WrittenBy(l, now),
         NEW capacity \in Capacities, NEW charging \in 0..2
  PROVE  LET new == AddSample(l, capacity, charging)
             x == [timestamp |-> now, capacity |-> capacity, charging |-> charging]
         IN  /\ WrittenBy(new, now)
             /\ x \in Samples
             /\ InOrder(new.samples, HISTORY_SIZE)
                  = Newest(Append(InOrder(l.samples, HISTORY_SIZE), x), HISTORY_SIZE)
             /\ \E n \in 0..Len(InOrder(l.events, EVENTS_SIZE)) :
                  InOrder(new.events, EVENTS_SIZE)
                    = SubSeq(InOrder(l.events, EVENTS_SIZE), n + 1,
                             Len(InOrder(l.events, EVENTS_SIZE)))
<1> DEFINE old == InOrder(l.samples, HISTORY_SIZE)
           x == [timestamp |-> now, capacity |-> capacity, charging |-> charging]
           ring == Put(l.samples, HISTORY_SIZE, x)
           put == [l EXCEPT !.samples = ring]
           new == AddSample(l, capacity, charging)
<1>1. /\ l \in Logs /\ l.samples \in Rings(HISTORY_SIZE, Samples)
      /\ old \in Seq(Samples) /\ UpTo(now, old)
      /\ InOrder(l.events, EVENTS_SIZE) \in Seq(Events)
      /\ UpTo(now, InOrder(l.events, EVENTS_SIZE))
  BY DEF WrittenBy, Logs
<1>2. x \in Samples /\ x.timestamp = now
  BY DEF Samples
<1>0. now \in Int /\ HISTORY_SIZE \in Nat /\ \A e \in Samples : e.timestamp \in Int
  BY BatteryLogAssumption DEF Times, Samples
<1> HIDE DEF x
<1>3. /\ ring \in Rings(HISTORY_SIZE, Samples)
      /\ InOrder(ring, HISTORY_SIZE) = Newest(Append(old, x), HISTORY_SIZE)
      /\ InOrder(ring, HISTORY_SIZE) \in Seq(Samples)
  BY <1>1, <1>2, PutAppends, BatteryLogAssumption
<1>10. UpTo(now, InOrder(ring, HISTORY_SIZE))
  BY <1>0, <1>1, <1>2, <1>3, NewestUpTo
<1> HIDE DEF ring, old
<1>4. put = [samples |-> ring, events |-> l.events, last_cleanup |-> l.last_cleanup]
  BY <1>1 DEF Logs
<1>5. put \in Logs
  BY <1>1, <1>3, <1>4 DEF Logs
<1>6. put.samples = ring /\ put.events = l.events
  BY <1>4
<1> HIDE DEF put
<1>7. WrittenBy(put, now)
  BY <1>1, <1>3, <1>5, <1>6, <1>10 DEF WrittenBy
<1>8. new = CleanupOldEvents(put)
  BY DEF AddSample, put, ring, x
<1> HIDE DEF new
<1>9. /\ WrittenBy(new, now) /\ new.samples = ring
      /\ \E n \in 0..Len(InOrder(l.events, EVENTS_SIZE)) :
           InOrder(new.events, EVENTS_SIZE)
             = SubSeq(InOrder(l.events, EVENTS_SIZE), n + 1, Len(InOrder(l.events, EVENTS_SIZE)))
  BY <1>6, <1>7, <1>8, CleanupExpires
<1> QED BY <1>2, <1>3, <1>9 DEF new, old, x

(***************************************************************************)
(* The invariant: the log in memory and those in the files were written    *)
(* in order, up to now.                                                    *)
(***************************************************************************)
Dated == now \in Times /\ day \in Seq([slept : {"no", "deep", "light"}, dark : BOOLEAN])

Readable(f) == f \in {NoFile, Misfit} \/ \E l \in Logs : f = File(l) /\ WrittenBy(l, now)

Written == WrittenBy(log, now) /\ Readable(file) /\ Readable(oldFile)

\* TypeOK without the log and its files.
Unlit == {<<>>, <<"CHARGER_CONNECTED">>, <<"CHARGER_DISCONNECTED">>}
Lighting ==
  {<<"SCREEN_ON">>, <<"CHARGER_CONNECTED", "SCREEN_ON">>, <<"CHARGER_DISCONNECTED", "SCREEN_ON">>}

ClientOK ==
  /\ client \in {"down", "running", "saving", "writing"}
  /\ todo \in Unlit \/ (todo \in Lighting /\ dark)
  /\ pending \in Ways \cup {"woken", "none"} /\ asleep \in Ways \cup {"others", "none"}
  /\ since \in Times /\ dark \in BOOLEAN
  /\ calls \in Nat /\ mishaps \subseteq Mishaps \cup {"dropped"}

IInv == Dated /\ ClientOK /\ Written

\* What a log or a file was, it still is when time has gone by.
LEMMA TimePasses ==
  ASSUME NEW l, NEW t \in Times, NEW u \in Times, t <= u, WrittenBy(l, t)
  PROVE  WrittenBy(l, u)
<1> DEFINE events == InOrder(l.events, EVENTS_SIZE)
           samples == InOrder(l.samples, HISTORY_SIZE)
<1>1. /\ events \in Seq(Events) /\ UpTo(t, events)
      /\ samples \in Seq(Samples) /\ UpTo(t, samples)
  BY DEF WrittenBy
<1>2. t \in Int /\ u \in Int /\ \A e \in Events \cup Samples : e.timestamp \in Int
  BY BatteryLogAssumption DEF Events, Samples, Times
<1>3. UpTo(u, events)
  <2> HIDE DEF events
  <2>1. \A i \in DOMAIN events : events[i] \in Events
    BY <1>1, ElementOfSeq
  <2> QED BY <1>1, <1>2, <2>1 DEF UpTo
<1>4. UpTo(u, samples)
  <2> HIDE DEF samples
  <2>1. \A i \in DOMAIN samples : samples[i] \in Samples
    BY <1>1, ElementOfSeq
  <2> QED BY <1>1, <1>2, <2>1 DEF UpTo
<1> QED BY <1>3, <1>4 DEF WrittenBy

LEMMA FilesDiffer ==
  ASSUME NEW l
  PROVE  /\ NoFile # Misfit /\ File(l) \notin {NoFile, Misfit} /\ File(l).log = l
  BY DEF NoFile, Misfit, File

LEMMA EmptyLog ==
  ASSUME NEW t \in Times
  PROVE  /\ WrittenBy(Cleared(t), t)
         /\ InOrder(Cleared(t).samples, HISTORY_SIZE) = <<>>
         /\ InOrder(Cleared(t).events, EVENTS_SIZE) = <<>>
<1>1. ASSUME NEW size \in Nat \ {0}, NEW entries
      PROVE  EmptyRing(size) \in Rings(size, entries) /\ InOrder(EmptyRing(size), size) = <<>>
  <2>1. EmptyRing(size) \in Rings(size, entries)
    BY DEF EmptyRing, Rings
  <2>2. InOrder(EmptyRing(size), size) = <<>>
    BY DEF EmptyRing, InOrder
  <2> QED BY <2>1, <2>2
<1>2. Cleared(t) \in Logs
  BY <1>1, BatteryLogAssumption DEF Cleared, Logs
<1>3. /\ InOrder(Cleared(t).samples, HISTORY_SIZE) = <<>>
      /\ InOrder(Cleared(t).events, EVENTS_SIZE) = <<>>
  BY <1>1, BatteryLogAssumption DEF Cleared
<1> QED BY <1>2, <1>3 DEF WrittenBy, UpTo, Ordered

\* What load() finds is what the file, or that of the earlier version, holds.
LEMMA LoadFinds ==
  ASSUME now \in Times, Readable(file), Readable(oldFile)
  PROVE  LET l == Load(now)
         IN  /\ WrittenBy(l.log, now) /\ Readable(l.file) /\ Readable(l.oldFile)
             /\ l.oldFile = oldFile \/ (oldFile = Misfit /\ l.oldFile = NoFile)
             /\ CASE file \notin {NoFile, Misfit} -> l.log = file.log /\ l.file = file
                  [] file = NoFile /\ oldFile \notin {NoFile, Misfit} ->
                       l.log = oldFile.log /\ l.file = NoFile
                  [] OTHER -> l.log = Cleared(now) /\ l.file = NoFile
<1>1. CASE file = Misfit
  BY <1>1, EmptyLog, FilesDiffer DEF Load, Readable
<1>2. CASE file = NoFile /\ oldFile \in {NoFile, Misfit}
  BY <1>2, EmptyLog, FilesDiffer DEF Load, Readable
<1>3. CASE file = NoFile /\ oldFile \notin {NoFile, Misfit}
  <2>1. PICK l \in Logs : oldFile = File(l) /\ WrittenBy(l, now)
    BY <1>3 DEF Readable
  <2>2. oldFile.log = l
    BY <2>1, FilesDiffer
  <2> QED BY <1>3, <2>1, <2>2, FilesDiffer DEF Load, Readable
<1>4. CASE file \notin {NoFile, Misfit}
  <2>1. PICK l \in Logs : file = File(l) /\ WrittenBy(l, now)
    BY <1>4 DEF Readable
  <2>2. file.log = l
    BY <2>1, FilesDiffer
  <2> QED BY <1>4, <2>1, <2>2, FilesDiffer DEF Load, Readable
<1> QED BY <1>1, <1>2, <1>3, <1>4

(***************************************************************************)
(* What a step can do to the log and its files.                            *)
(***************************************************************************)
Quiet == UNCHANGED <<log, files>>
EventWritten == \E type \in EventTypes : log' = AddEvent(log, type) /\ UNCHANGED files
SampleWritten ==
  \E capacity \in Capacities, state \in 0..2 :
    log' = AddSample(log, capacity, state) /\ UNCHANGED files
Saved == file' \in {File(log), Misfit} /\ UNCHANGED <<log, oldFile>>
Started == log' = Load(now).log /\ file' = Load(now).file /\ oldFile' = Load(now).oldFile

LEMMA ShortSequences ==
  ASSUME NEW x, NEW y
  PROVE  /\ Head(<<x>>) = x /\ Tail(<<x>>) = <<>> /\ Append(<<x>>, y) = <<x, y>>
         /\ Head(<<x, y>>) = x /\ Tail(<<x, y>>) = <<y>>
         /\ <<x, y>> # <<>> /\ \A z : <<x, y>> # <<z>>
<1>1. Head(<<x>>) = x /\ Head(<<x, y>>) = x
  OBVIOUS
<1>2. Tail(<<x>>) = <<>>
  OBVIOUS
<1>3. Tail(<<x, y>>) = <<y>>
  OBVIOUS
<1>4. Append(<<x>>, y) = <<x, y>>
  <2> DEFINE s == Append(<<x>>, y)
  <2>1. <<x>> \in Seq({x, y}) /\ <<x, y>> \in Seq({x, y}) /\ y \in {x, y}
    OBVIOUS
  <2>2. s \in Seq({x, y}) /\ Len(s) = Len(<<x>>) + 1 /\ s[1] = <<x>>[1] /\ s[2] = y
    BY <2>1, AppendProperties
  <2>3. Len(s) = Len(<<x, y>>) /\ \A i \in 1..Len(s) : s[i] = <<x, y>>[i]
    BY <2>2
  <2> HIDE DEF s
  <2>4. s = <<x, y>>
    BY <2>1, <2>2, <2>3, SeqEqual
  <2> QED BY <2>4 DEF s
<1>5. Len(<<x, y>>) = 2 /\ Len(<<>>) = 0 /\ \A z : Len(<<z>>) = 1
  OBVIOUS
<1>6. <<x, y>> # <<>> /\ \A z : <<x, y>> # <<z>>
  BY <1>5
<1> QED BY <1>1, <1>2, <1>3, <1>4, <1>6

\* What a handler has yet to log.
LEMMA TodoFacts ==
  ASSUME todo \in Unlit \cup Lighting, todo # <<>>
  PROVE  /\ Head(todo) \in ChargerTypes \cup {"SCREEN_ON"} /\ Head(todo) \in EventTypes
         /\ Head(todo) = "SCREEN_ON" => todo \in Lighting /\ Tail(todo) \in Unlit
         /\ Tail(todo) \in Unlit \/ (todo \notin Unlit /\ Tail(todo) \in Lighting)
<1>1. CASE todo \in Unlit
  <2>1. PICK type \in ChargerTypes : todo = <<type>>
    BY <1>1 DEF Unlit, ChargerTypes
  <2>2. Tail(todo) = <<>> /\ Head(todo) = type
    BY <2>1, ShortSequences
  <2>3. Head(todo) \in ChargerTypes /\ Tail(todo) \in Unlit
    BY <2>1, <2>2 DEF Unlit
  <2> QED BY <2>3 DEF EventTypes, ChargerTypes
<1>2. CASE todo = <<"SCREEN_ON">>
  BY <1>2 DEF Unlit, Lighting, EventTypes, ScreenTypes
<1>3. CASE todo \in {<<"CHARGER_CONNECTED", "SCREEN_ON">>, <<"CHARGER_DISCONNECTED", "SCREEN_ON">>}
  <2>0. PICK type \in ChargerTypes : todo = <<type, "SCREEN_ON">>
    BY <1>3 DEF ChargerTypes
  <2>1. Tail(todo) = <<"SCREEN_ON">> /\ Head(todo) \in ChargerTypes /\ todo \in Lighting
    BY <1>3, <2>0, ShortSequences DEF Lighting
  <2>2. Head(todo) # "SCREEN_ON"
    BY <2>1 DEF ChargerTypes
  <2>3. todo \notin Unlit
    BY <2>0, ShortSequences DEF Unlit
  <2> QED BY <2>1, <2>2, <2>3 DEF Lighting, EventTypes
<1> QED BY <1>1, <1>2, <1>3 DEF Lighting

LEMMA StepKinds ==
  ASSUME ClientOK, [Next]_vars
  PROVE  \/ (Quiet \/ EventWritten \/ SampleWritten \/ Saved \/ Started) /\ UNCHANGED day
         \/ Quiet /\ Tick
<1> USE DEF files, history
<1>1. ASSUME NEW capacity \in Capacities, NEW state \in States, BatteryChanges(capacity, state)
      PROVE  SampleWritten /\ UNCHANGED day
  BY <1>1, BatteryLogAssumption DEF BatteryChanges, SampleWritten, Remember
<1>2. CASE LogNext
  <2>1. Head(todo) \in EventTypes
    BY <1>2, TodoFacts DEF LogNext, ClientOK
  <2> QED BY <1>2, <2>1 DEF LogNext, EventWritten, Remember
<1>3. CASE TurnScreen
  BY <1>3 DEF TurnScreen, EventWritten, Remember, EventTypes, ScreenTypes
<1>4. ASSUME NEW way \in WaysUsed, Sleep(way)
      PROVE  EventWritten /\ UNCHANGED day
  BY <1>4, BatteryLogAssumption DEF Sleep, EventWritten, Remember, EventTypes, Ways
<1>5. CASE LogindAnswers
  BY <1>5 DEF LogindAnswers, Quiet
<1>6. CASE OpenFile
  BY <1>6 DEF OpenFile, Saved, Quiet
<1>7. CASE WriteFile
  BY <1>7 DEF WriteFile, Saved
<1>8. CASE PrepareForShutdown \/ OnResume \/ MachineWakes
  BY <1>8 DEF PrepareForShutdown, OnResume, MachineWakes, Quiet
<1>9. CASE OthersSleep
  BY <1>9 DEF OthersSleep, Quiet
<1>10. CASE AfterWakeActions
  BY <1>10 DEF AfterWakeActions, EventWritten, Remember, EventTypes
<1>11. CASE End
  BY <1>11 DEF End, Quiet
<1>12. CASE Start
  BY <1>12 DEF Start, Started
<1>13. CASE Tick
  BY <1>13 DEF Tick, Quiet
<1>14. CASE UNCHANGED vars
  BY <1>14 DEF vars, Quiet
<1> HIDE DEF files, history
<1> QED BY <1>1, <1>2, <1>3, <1>4, <1>5, <1>6, <1>7, <1>8, <1>9, <1>10, <1>11, <1>12, <1>13,
           <1>14 DEF Next

LEMMA DatedKept ==
  ASSUME Dated, [Next]_vars, ClientOK
  PROVE  Dated' /\ now <= now' /\ (day' = day => now' = now)
<1>1. CASE day' = day
  BY <1>1, BatteryLogAssumption DEF Dated, now, Times
<1>2. CASE Tick
  <2>1. PICK tick \in [slept : {"no", "deep", "light"}, dark : BOOLEAN] :
          day' = Append(day, tick)
    BY <1>2 DEF Tick, ClientOK
  <2>2. now <= TimeBound
    BY <1>2 DEF Tick
  <2> QED BY <2>1, <2>2, BatteryLogAssumption DEF Dated, now, Times
<1> QED BY <1>1, <1>2, StepKinds

LEMMA WrittenKept ==
  ASSUME IInv, [Next]_vars
  PROVE  Written'
<1>1. /\ now \in Times /\ now' \in Times /\ now <= now' /\ (day' = day => now' = now)
      /\ WrittenBy(log, now) /\ Readable(file) /\ Readable(oldFile)
  BY DatedKept DEF IInv, Dated, Written
<1>2. ASSUME NEW f, Readable(f)
      PROVE  f \in {NoFile, Misfit} \/ \E l \in Logs : f = File(l) /\ WrittenBy(l, now')
  BY <1>1, <1>2, TimePasses DEF Readable
<1>3. SUFFICES /\ WrittenBy(log', now')
               /\ \A f \in {file', oldFile'} :
                    f \in {NoFile, Misfit} \/ \E l \in Logs : f = File(l) /\ WrittenBy(l, now')
  BY DEF Written, Readable
<1>4. CASE Quiet
  BY <1>1, <1>2, <1>4, TimePasses DEF Quiet, files
<1>5. CASE EventWritten /\ UNCHANGED day
  <2>1. PICK type \in EventTypes : log' = AddEvent(log, type) /\ UNCHANGED files
    BY <1>5 DEF EventWritten
  <2>2. WrittenBy(log', now')
    BY <1>1, <1>5, <2>1, AddEventWrites
  <2> QED BY <1>1, <1>2, <2>1, <2>2 DEF files
<1>6. CASE SampleWritten /\ UNCHANGED day
  <2>1. PICK capacity \in Capacities, state \in 0..2 :
          log' = AddSample(log, capacity, state) /\ UNCHANGED files
    BY <1>6 DEF SampleWritten
  <2>2. WrittenBy(log', now')
    BY <1>1, <1>6, <2>1, AddSampleWrites
  <2> QED BY <1>1, <1>2, <2>1, <2>2 DEF files
<1>7. CASE Saved /\ UNCHANGED day
  <2>1. log \in Logs
    BY <1>1 DEF WrittenBy
  <2> QED BY <1>1, <1>2, <1>7, <2>1 DEF Saved
<1>8. CASE Started /\ UNCHANGED day
  <2>1. WrittenBy(log', now) /\ Readable(file') /\ Readable(oldFile')
    BY <1>1, <1>8, LoadFinds DEF Started
  <2> QED BY <1>1, <1>2, <1>8, <2>1
<1> QED BY <1>4, <1>5, <1>6, <1>7, <1>8, StepKinds DEF IInv

LEMMA ClientKept ==
  ASSUME IInv, [Next]_vars
  PROVE  ClientOK'
<1> USE DEF files, history, machine, Remember, Mishap, Mishaps
<1>1. /\ ClientOK /\ now \in Times /\ calls + 1 \in Nat /\ 0 \in Times
  BY BatteryLogAssumption DEF IInv, Dated, ClientOK, Times
<1>2. ASSUME NEW capacity \in Capacities, NEW state \in States, BatteryChanges(capacity, state)
      PROVE  ClientOK'
  <2>1. todo' \in Unlit \/ (todo' \in Lighting /\ dark')
    <3> DEFINE events == ChargerEvents(shown.state, state)
    <3>1. events \in Unlit
      BY DEF ChargerEvents, Unlit
    <3>2. events # <<>> => Append(events, "SCREEN_ON") \in Lighting
      <4> HIDE DEF events
      <4>1. ASSUME events # <<>>
            PROVE  Append(events, "SCREEN_ON") \in Lighting
        <5>1. PICK type \in ChargerTypes : events = <<type>>
          BY <3>1, <4>1 DEF Unlit, ChargerTypes
        <5>2. Append(events, "SCREEN_ON") = <<type, "SCREEN_ON">>
          BY <5>1, ShortSequences
        <5> QED BY <5>2 DEF Lighting, ChargerTypes
      <4> QED BY <4>1
    <3>3. /\ dark' = dark
          /\ \/ todo' = events
             \/ events # <<>> /\ dark /\ todo' = Append(events, "SCREEN_ON")
      BY <1>2 DEF BatteryChanges
    <3> HIDE DEF events
    <3> QED BY <3>1, <3>2, <3>3
  <2>2. mishaps' \subseteq Mishaps \cup {"dropped"}
    BY <1>1, <1>2 DEF BatteryChanges, ClientOK
  <2> QED BY <1>1, <1>2, <2>1, <2>2 DEF BatteryChanges, ClientOK
<1>3. CASE LogNext
  <2>1. todo' \in Unlit \/ (todo' \in Lighting /\ dark')
    BY <1>1, <1>3, TodoFacts DEF LogNext, ClientOK
  <2>2. dark' \in BOOLEAN
    BY <1>3 DEF LogNext
  <2> QED BY <1>1, <1>3, <2>1, <2>2 DEF LogNext, ClientOK
<1>4. CASE TurnScreen
  <2>1. dark' \in BOOLEAN /\ todo' \in Unlit
    BY <1>1, <1>4 DEF TurnScreen, Ready, Running, Unlit, ClientOK
  <2> QED BY <1>1, <1>4, <2>1 DEF TurnScreen, ClientOK
<1>5. ASSUME NEW way \in WaysUsed, Sleep(way)
      PROVE  ClientOK'
  BY <1>1, <1>5, BatteryLogAssumption DEF Sleep, ClientOK, Ways
<1>6. CASE LogindAnswers
  BY <1>1, <1>6 DEF LogindAnswers, ClientOK
<1>7. CASE OpenFile
  BY <1>1, <1>7 DEF OpenFile, ClientOK
<1>8. CASE WriteFile
  BY <1>1, <1>8 DEF WriteFile, ClientOK
<1>9. CASE PrepareForShutdown
  BY <1>1, <1>9 DEF PrepareForShutdown, ClientOK
<1>10. CASE OthersSleep
  BY <1>1, <1>10 DEF OthersSleep, ClientOK
<1>11. CASE MachineWakes \/ AfterWakeActions \/ OnResume
  <2>1. todo' \in Unlit
    BY <1>11 DEF MachineWakes, AfterWakeActions, OnResume, Running, Unlit
  <2>2. CASE MachineWakes
    BY <1>1, <2>1, <2>2 DEF MachineWakes, ClientOK
  <2>3. CASE AfterWakeActions
    BY <1>1, <2>1, <2>3 DEF AfterWakeActions, ClientOK
  <2>4. CASE OnResume
    BY <1>1, <2>1, <2>4 DEF OnResume, ClientOK
  <2> QED BY <1>11, <2>2, <2>3, <2>4
<1>12. CASE End
  <2>1. todo' \in Unlit
    BY <1>12 DEF End, Unlit
  <2> QED BY <1>1, <1>12, <2>1 DEF End, ClientOK
<1>13. CASE Start
  BY <1>1, <1>13 DEF Start, ClientOK
<1>14. CASE Tick
  BY <1>1, <1>14 DEF Tick, ClientOK
<1>15. CASE UNCHANGED vars
  BY <1>1, <1>15 DEF vars, ClientOK
<1> QED BY <1>2, <1>3, <1>4, <1>5, <1>6, <1>7, <1>8, <1>9, <1>10, <1>11, <1>12, <1>13, <1>14,
           <1>15 DEF Next

LEMMA InitOK == Init => IInv
<1> SUFFICES ASSUME Init
             PROVE  IInv
  OBVIOUS
<1>1. now = 1 /\ Dated
  BY BatteryLogAssumption DEF Init, Dated, now, Times
<1>2. ClientOK
  <2>1. 0 \in Times
    BY BatteryLogAssumption DEF Times
  <2>2. todo \in Unlit
    BY DEF Init, Unlit
  <2>3. mishaps \in {{}, {"ended"}}
    BY DEF Init
  <2>4. mishaps \subseteq Mishaps \cup {"dropped"}
    BY <2>3 DEF Mishaps
  <2> QED BY <2>1, <2>2, <2>4 DEF Init, ClientOK
<1>3. WrittenBy(log, now)
  BY <1>1, EmptyLog DEF Init, Dated
<1>4. Readable(file) /\ Readable(oldFile)
  <2>1. \A l \in OldLogs : l \in Logs /\ WrittenBy(l, now)
    BY <1>1, OldLogsAssumption DEF WrittenBy
  <2> QED BY <2>1 DEF Init, Readable
<1> QED BY <1>1, <1>2, <1>3, <1>4 DEF IInv, Written

LEMMA Invariance == Spec => []IInv
<1>1. IInv /\ [Next]_vars => IInv'
  BY DatedKept, WrittenKept, ClientKept DEF IInv
<1> QED BY InitOK, <1>1, PTL DEF Spec

(***************************************************************************)
(* The types: rings never have more entries than slots, and what a file    *)
(* holds is a log, however it was written.                                 *)
(***************************************************************************)
THEOREM LogTypes == Spec => []TypeOK
<1>1. IInv => TypeOK
  <2> SUFFICES ASSUME IInv
               PROVE  TypeOK
    OBVIOUS
  <2>1. log \in Logs
    BY DEF IInv, Written, WrittenBy
  <2>2. \A f : Readable(f) => f \in {NoFile, Misfit} \/ (f = File(f.log) /\ f.log \in Logs)
    BY FilesDiffer DEF Readable
  <2>3. todo \in Seq(ChargerTypes \cup {"SCREEN_ON"})
    <3> DEFINE T == ChargerTypes \cup {"SCREEN_ON"}
    <3>1. {"CHARGER_CONNECTED", "CHARGER_DISCONNECTED", "SCREEN_ON"} \subseteq T
      BY DEF ChargerTypes
    <3>2. <<>> \in Seq(T) /\ \A x, y \in T : <<x>> \in Seq(T) /\ <<x, y>> \in Seq(T)
      OBVIOUS
    <3> HIDE DEF T
    <3>3. Unlit \cup Lighting \subseteq Seq(T)
      BY <3>1, <3>2 DEF Unlit, Lighting
    <3> QED BY <3>3 DEF T, IInv, ClientOK
  <2> QED BY <2>1, <2>2, <2>3 DEF IInv, Written, ClientOK, TypeOK
<1> QED BY Invariance, <1>1, PTL

(***************************************************************************)
(* Each step is a step of the two abstract logs, or leaves them alone.     *)
(***************************************************************************)
LEMMA FilesStay ==
  ASSUME NEW part, UNCHANGED files
  PROVE  Old(part)' = Old(part) /\ Kept(part)' = Kept(part)
BY DEF files, Old, Kept, Entry

LEMMA SampleStep ==
  ASSUME IInv, [Next]_vars
  PROVE  [SampleLog!Next]_(SampleLog!logVars)
<1> USE DEF SampleLog!Next, SampleLog!logVars
<1>1. /\ now \in Times /\ WrittenBy(log, now) /\ Readable(file) /\ Readable(oldFile)
  BY DEF IInv, Dated, Written
<1>2. CASE Quiet
  BY <1>2, FilesStay DEF Quiet, AllSamples
<1>3. CASE EventWritten
  <2>1. log'.samples = log.samples /\ UNCHANGED files
    BY <1>1, <1>3, AddEventWrites DEF EventWritten
  <2> QED BY <2>1, FilesStay DEF AllSamples
<1>4. CASE SampleWritten
  <2>1. PICK capacity \in Capacities, state \in 0..2 :
          log' = AddSample(log, capacity, state) /\ UNCHANGED files
    BY <1>4 DEF SampleWritten
  <2> DEFINE x == [timestamp |-> now, capacity |-> capacity, charging |-> state]
  <2>2. x \in Samples /\ AllSamples' = Newest(Append(AllSamples, x), HISTORY_SIZE)
    BY <1>1, <2>1, AddSampleWrites DEF AllSamples
  <2> HIDE DEF x
  <2>3. \E y \in Samples : SampleLog!Write(y)
    BY <2>1, <2>2, FilesStay DEF SampleLog!Write, SampleLog!Newest, Newest
  <2> QED BY <2>3
<1>5. CASE Saved
  <2>1. AllSamples' = AllSamples /\ Old("samples")' = Old("samples")
    BY <1>5 DEF Saved, AllSamples, Old, Entry
  <2>2. CASE file' = Misfit
    <3>1. Kept("samples")' = <<>>
      BY <2>2, FilesDiffer DEF Kept
    <3> QED BY <2>1, <3>1 DEF SampleLog!Damage
  <2>3. CASE file' = File(log)
    <3>1. Kept("samples")' = AllSamples
      BY <2>3, FilesDiffer DEF Kept, Entry, AllSamples
    <3> QED BY <2>1, <3>1 DEF SampleLog!Keep
  <2> QED BY <1>5, <2>2, <2>3 DEF Saved
<1>6. CASE Started
  <2>1. AllSamples' = Kept("samples")
    BY <1>1, <1>6, LoadFinds, EmptyLog, FilesDiffer DEF Started, AllSamples, Kept, Old, Entry
  <2>2. Old("samples")' = Old("samples")
    BY <1>1, <1>6, LoadFinds DEF Started, Old, Entry
  <2>3. Kept("samples")' \in {Kept("samples"), Old("samples")}
    BY <1>1, <1>6, <2>2, LoadFinds, FilesDiffer DEF Started, Kept
  <2> QED BY <2>1, <2>2, <2>3 DEF SampleLog!Restart
<1> QED BY <1>2, <1>3, <1>4, <1>5, <1>6, StepKinds DEF IInv

LEMMA EventStep ==
  ASSUME IInv, [Next]_vars
  PROVE  [EventLog!Next]_(EventLog!logVars)
<1> USE DEF EventLog!Next, EventLog!logVars
<1>1. /\ now \in Times /\ WrittenBy(log, now) /\ Readable(file) /\ Readable(oldFile)
  BY DEF IInv, Dated, Written
<1>2. CASE Quiet
  BY <1>2, FilesStay DEF Quiet, AllEvents
<1>3. CASE EventWritten
  <2>1. PICK type \in EventTypes : log' = AddEvent(log, type) /\ UNCHANGED files
    BY <1>3 DEF EventWritten
  <2> DEFINE x == [timestamp |-> now, type |-> type]
  <2>2. x \in Events /\ AllEvents' = Newest(Append(AllEvents, x), EVENTS_SIZE)
    BY <1>1, <2>1, AddEventWrites DEF AllEvents
  <2> HIDE DEF x
  <2>3. \E y \in Events : EventLog!Write(y)
    BY <2>1, <2>2, FilesStay DEF EventLog!Write, EventLog!Newest, Newest
  <2> QED BY <2>3
<1>4. CASE SampleWritten
  <2>1. PICK capacity \in Capacities, state \in 0..2 :
          log' = AddSample(log, capacity, state) /\ UNCHANGED files
    BY <1>4 DEF SampleWritten
  <2>2. \E n \in 0..Len(AllEvents) : AllEvents' = SubSeq(AllEvents, n + 1, Len(AllEvents))
    BY <1>1, <2>1, AddSampleWrites DEF AllEvents
  <2>3. EventLog!Expire
    BY <2>1, <2>2, FilesStay DEF EventLog!Expire
  <2> QED BY <2>3
<1>5. CASE Saved
  <2>1. AllEvents' = AllEvents /\ Old("events")' = Old("events")
    BY <1>5 DEF Saved, AllEvents, Old, Entry
  <2>2. CASE file' = Misfit
    <3>1. Kept("events")' = <<>>
      BY <2>2, FilesDiffer DEF Kept
    <3> QED BY <2>1, <3>1 DEF EventLog!Damage
  <2>3. CASE file' = File(log)
    <3>1. Kept("events")' = AllEvents
      BY <2>3, FilesDiffer DEF Kept, Entry, AllEvents
    <3> QED BY <2>1, <3>1 DEF EventLog!Keep
  <2> QED BY <1>5, <2>2, <2>3 DEF Saved
<1>6. CASE Started
  <2>1. AllEvents' = Kept("events")
    BY <1>1, <1>6, LoadFinds, EmptyLog, FilesDiffer DEF Started, AllEvents, Kept, Old, Entry
  <2>2. Old("events")' = Old("events")
    BY <1>1, <1>6, LoadFinds DEF Started, Old, Entry
  <2>3. Kept("events")' \in {Kept("events"), Old("events")}
    BY <1>1, <1>6, <2>2, LoadFinds, FilesDiffer DEF Started, Kept
  <2> QED BY <2>1, <2>2, <2>3 DEF EventLog!Restart
<1> QED BY <1>2, <1>3, <1>4, <1>5, <1>6, StepKinds DEF IInv

LEMMA StartsEmpty ==
  ASSUME Init
  PROVE  SampleLog!Init /\ EventLog!Init
<1>1. AllSamples = <<>> /\ AllEvents = <<>>
  BY EmptyLog, BatteryLogAssumption DEF Init, AllSamples, AllEvents, Times
<1>2. Kept("samples") = Old("samples") /\ Kept("events") = Old("events")
  BY FilesDiffer DEF Init, Kept
<1>3. Old("samples") \in Seq(Samples) /\ Old("events") \in Seq(Events)
  <2>1. \A l \in OldLogs : /\ InOrder(l.samples, HISTORY_SIZE) \in Seq(Samples)
                          /\ InOrder(l.events, EVENTS_SIZE) \in Seq(Events)
    BY OldLogsAssumption DEF WrittenBy
  <2> QED BY <2>1, FilesDiffer DEF Init, Old, Entry
<1> QED BY <1>1, <1>2, <1>3 DEF SampleLog!Init, EventLog!Init

(***************************************************************************)
(* The rings and their file are two logs of the newest entries, whatever   *)
(* their sizes and the periods of the clean-up: wrapping around, cleaning  *)
(* up, torn and failed saves, crashes and a file of an earlier version     *)
(* never reorder entries, never bring back one that was dropped, and cost  *)
(* entries at the old end only.                                            *)
(***************************************************************************)
THEOREM BatteryLogImplements == Spec => IsRecentLog
<1>1. Spec => SampleLog!Spec
  <2>1. Init => SampleLog!Init
    BY StartsEmpty
  <2>2. IInv /\ [Next]_vars => [SampleLog!Next]_(SampleLog!logVars)
    BY SampleStep
  <2> QED BY Invariance, <2>1, <2>2, PTL DEF Spec, SampleLog!Spec
<1>2. Spec => EventLog!Spec
  <2>1. Init => EventLog!Init
    BY StartsEmpty
  <2>2. IInv /\ [Next]_vars => [EventLog!Next]_(EventLog!logVars)
    BY EventStep
  <2> QED BY Invariance, <2>1, <2>2, PTL DEF Spec, EventLog!Spec
<1> QED BY <1>1, <1>2 DEF IsRecentLog

(***************************************************************************)
(* What the log tells of the past.                                         *)
(***************************************************************************)
\* The latest of the events of these types up to time t, and that there is none.
Latest(events, j, t, types) ==
  /\ events[j].type \in types /\ events[j].timestamp <= t
  /\ \A k \in DOMAIN events : k > j /\ events[k].type \in types => events[k].timestamp > t

NoneTold(events, t, types) ==
  \A k \in DOMAIN events : events[k].type \in types => events[k].timestamp > t

\* What a tick is like when e is the latest event.
SleptAfter(e, t) ==
  IF e.type = "WAKE_UP" THEN "no"
  ELSE IF \/ e.type = "HIBERNATE"
          \/ e.type = "SUSPEND_THEN_HIBERNATE" /\ t - e.timestamp >= HibernateDelay
  THEN "deep" ELSE "light"

SleepTold(events, days, spoilt) ==
  \A t \in DOMAIN days :
    /\ \A j \in DOMAIN events :
         Latest(events, j, t, PowerTypes) => days[t].slept = SleptAfter(events[j], t)
    /\ NoneTold(events, t, PowerTypes) /\ "dropped" \notin spoilt => days[t].slept = "no"

\* Since the clock began, sleeps and wake-ups take turns; before, what the earlier
\* version logged as the end was followed by a wake-up.
SleepsAlternate(events, spoilt) ==
  \A j \in DOMAIN events :
    /\ events[j].type \in Ways /\ events[j].timestamp > 1 =>
         \A i \in DOMAIN events : i < j /\ events[i].type \in Ways =>
           \E k \in DOMAIN events : i < k /\ k < j /\ events[k].type = "WAKE_UP"
    /\ events[j].type = "WAKE_UP" /\ events[j].timestamp > 1 /\ "dropped" \notin spoilt =>
         \E i \in DOMAIN events : i < j /\ events[i].type \in Ways
    /\ events[j].type = "POWER_OFF" =>
         \E k \in DOMAIN events : k > j /\ events[k].type = "WAKE_UP" /\ events[k].timestamp <= 1

AllWoken(events) ==
  \A j \in DOMAIN events : events[j].type \in Ways =>
    \E k \in DOMAIN events : k > j /\ events[k].type = "WAKE_UP"

DarkTold(events, days, spoilt) ==
  \A t \in DOMAIN days :
    /\ \A j \in DOMAIN events :
         Latest(events, j, t, ScreenTypes) => (days[t].dark <=> events[j].type = "SCREEN_OFF")
    /\ NoneTold(events, t, ScreenTypes) /\ "dropped" \notin spoilt => ~days[t].dark

LightsAlternate(events, spoilt) ==
  \A j \in DOMAIN events :
    events[j].type = "SCREEN_ON" /\ events[j].timestamp > 1 /\ "dropped" \notin spoilt =>
      \E i \in DOMAIN events : i < j /\ events[i].type = "SCREEN_OFF"

DarkNow(events, screen, spoilt) ==
  /\ \A j \in DOMAIN events :
       /\ events[j].type \in ScreenTypes
       /\ \A k \in DOMAIN events : k > j => events[k].type \notin ScreenTypes
       => (screen <=> events[j].type = "SCREEN_OFF")
  /\ screen /\ "dropped" \notin spoilt => \E k \in DOMAIN events : events[k].type = "SCREEN_OFF"

\* A tick asleep lies behind the event of that sleep and before the next event, and
\* no sample was taken in between.
SleepsMarked(events, samples, days, spoilt) ==
  \A t \in DOMAIN days : days[t].slept # "no" =>
    \/ \E j \in DOMAIN events :
         /\ events[j].type \in Ways /\ events[j].timestamp <= t
         /\ \A k \in DOMAIN events : k > j => events[k].timestamp > t
         /\ \A i \in DOMAIN samples :
              samples[i].timestamp <= t => samples[i].timestamp <= events[j].timestamp
    \/ "dropped" \in spoilt /\ \A k \in DOMAIN events : events[k].timestamp > t

\* With each event of the charger a sample was taken, unless that has been dropped.
ChargersSampled(events, samples) ==
  \A j \in DOMAIN events : events[j].type \in ChargerTypes /\ events[j].timestamp > 1 =>
    \/ \E i \in DOMAIN samples : samples[i].timestamp = events[j].timestamp
    \/ \A i \in DOMAIN samples : samples[i].timestamp > events[j].timestamp

Spared(bad) == mishaps \cap bad = {}

\* Before the client first starts.
Unstarted ==
  /\ file = NoFile /\ log = Cleared(1)
  /\ oldFile \in {NoFile, Misfit} \cup {File(l) : l \in {m \in OldLogs : LeftAwake(m)}}
  /\ asleep = "none" /\ ~dark
  /\ \A t \in DOMAIN day : day[t].slept = "no" /\ ~day[t].dark

LastIs(events, t, type) ==
  Len(events) > 0 /\ events[Len(events)] = [timestamp |-> t, type |-> type]

\* The client and the machine agree about a sleep.
ClientTold ==
  /\ client = "down" => Unstarted /\ todo = <<>> /\ pending = "none"
  /\ pending # "none" => asleep = "none"
  /\ asleep # "none" => asleep \in Ways /\ since \in Nat /\ since <= now
  /\ todo # <<>> => Len(AllSamples) > 0 /\ AllSamples[Len(AllSamples)].timestamp = now

\* The newest event is that of the sleep, and no sample is newer.
MarkedBy(way) ==
  /\ todo = <<>>
  /\ Len(AllEvents) > 0 /\ AllEvents[Len(AllEvents)].type = way
  /\ \A i \in DOMAIN AllSamples : AllSamples[i].timestamp <= AllEvents[Len(AllEvents)].timestamp

SleepMarked ==
  /\ pending \in Ways => MarkedBy(pending)
  /\ asleep # "none" => MarkedBy(asleep)

\* The newest event of a sleep or a wake-up is that of the sleep.
LastPower(events, t, way, spoilt) ==
  /\ \A j \in DOMAIN events :
       /\ events[j].type \in PowerTypes
       /\ \A k \in DOMAIN events : k > j => events[k].type \notin PowerTypes
       => events[j].type = way /\ events[j].timestamp = t
  /\ "dropped" \notin spoilt => \E j \in DOMAIN events : events[j].type \in Ways

SleepLast ==
  /\ pending \in Ways => LastPower(AllEvents, now, pending, mishaps)
  /\ asleep # "none" => LastPower(AllEvents, since, asleep, mishaps)
  /\ pending = "woken" => \E way \in Ways, t \in Nat : LastPower(AllEvents, t, way, mishaps)

ToldInv == Spared({"others", "ended"}) => ClientTold

RatesInv ==
  Spared({"others", "ended", "late"}) =>
    /\ SleepMarked
    /\ SleepsMarked(AllEvents, AllSamples, day, mishaps)
    /\ ChargersSampled(AllEvents, AllSamples)

SleepInv ==
  Spared({"refused", "others", "slow", "ended"}) =>
    /\ SleepTold(AllEvents, day, mishaps)
    /\ SleepsAlternate(AllEvents, mishaps)
    /\ asleep = "none" /\ pending = "none" => AllWoken(AllEvents)
    /\ SleepLast

ScreenInv ==
  Spared({"others", "ended", "dark", "unlogged", "dimmed"}) =>
    /\ DarkTold(AllEvents, day, mishaps)
    /\ LightsAlternate(AllEvents, mishaps)
    /\ DarkNow(AllEvents, dark, mishaps)
    /\ asleep # "none" \/ pending = "woken" => ~dark

(***************************************************************************)
(* How a log may become shorter, and longer.                               *)
(***************************************************************************)
\* From the old end, and then it is noted.
Shortened(g, f, spoilt) ==
  \/ g = f
  \/ "dropped" \in spoilt /\ \E n \in 0..Len(f) : g = SubSeq(f, n + 1, Len(f))

LEMMA SuffixFacts ==
  ASSUME NEW T, NEW f \in Seq(T), NEW n \in 0..Len(f), NEW g, g = SubSeq(f, n + 1, Len(f))
  PROVE  /\ g \in Seq(T) /\ DOMAIN g = 1..Len(f) - n /\ Len(g) = Len(f) - n /\ DOMAIN f = 1..Len(f)
         /\ \A i \in DOMAIN g : i + n \in DOMAIN f /\ g[i] = f[i + n]
         /\ \A j \in DOMAIN f : j > n => j - n \in DOMAIN g /\ g[j - n] = f[j]
<1> DEFINE c == Len(f)
<1>1. c \in Nat /\ DOMAIN f = 1..c /\ n \in Nat /\ n <= c
  OBVIOUS
<1>2. g = SubSeq(f, n + 1, c) /\ \A i \in 1..c : f[i] \in T
  BY ElementOfSeq
<1> HIDE DEF c
<1>3. g \in Seq(T) /\ Len(g) = c - n /\ \A i \in 1..c - n : g[i] = f[n + 1 + i - 1]
  <2>1. n + 1 \in Int /\ c \in Int /\ \A i \in n + 1..c : f[i] \in T
    BY <1>1, <1>2
  <2>2. /\ g \in Seq(T) /\ Len(g) = IF n + 1 <= c THEN c - (n + 1) + 1 ELSE 0
        /\ \A i \in 1..c - (n + 1) + 1 : g[i] = f[n + 1 + i - 1]
    BY <1>2, <2>1, SubSeqProperties
  <2> QED BY <1>1, <2>2
<1>4. \A i \in 1..c - n : i + n \in 1..c /\ g[i] = f[i + n]
  <2>1. \A i \in 1..c - n : n + 1 + i - 1 = i + n /\ i + n \in 1..c
    BY <1>1
  <2> QED BY <1>3, <2>1
<1>5. DOMAIN g = 1..c - n
  BY <1>3
<1>6. ASSUME NEW j \in 1..c, j > n
      PROVE  j - n \in 1..c - n /\ g[j - n] = f[j]
  <2>1. j - n \in 1..c - n /\ (j - n) + n = j
    BY <1>1, <1>6
  <2> QED BY <1>4, <2>1
<1> QED BY <1>1, <1>3, <1>4, <1>5, <1>6 DEF c

LEMMA ShortenedFacts ==
  ASSUME NEW T, NEW f \in Seq(T), NEW spoilt, NEW g, Shortened(g, f, spoilt)
  PROVE  /\ g \in Seq(T)
         /\ \E n \in 0..Len(f) :
              /\ n = 0 \/ "dropped" \in spoilt
              /\ DOMAIN f = 1..Len(f) /\ DOMAIN g = 1..Len(f) - n /\ Len(g) = Len(f) - n
              /\ \A i \in DOMAIN g : i + n \in DOMAIN f /\ g[i] = f[i + n]
              /\ \A j \in DOMAIN f : j > n => j - n \in DOMAIN g /\ g[j - n] = f[j]
<1> DEFINE Facts(n) ==
             /\ n = 0 \/ "dropped" \in spoilt
             /\ DOMAIN f = 1..Len(f) /\ DOMAIN g = 1..Len(f) - n /\ Len(g) = Len(f) - n
             /\ \A i \in DOMAIN g : i + n \in DOMAIN f /\ g[i] = f[i + n]
             /\ \A j \in DOMAIN f : j > n => j - n \in DOMAIN g /\ g[j - n] = f[j]
<1>1. CASE g = f
  <2>1. f = SubSeq(f, 0 + 1, Len(f)) /\ 0 \in 0..Len(f)
    OBVIOUS
  <2>2. g \in Seq(T) /\ Facts(0)
    BY <1>1, <2>1, SuffixFacts
  <2> QED BY <2>1, <2>2
<1>2. CASE "dropped" \in spoilt /\ \E n \in 0..Len(f) : g = SubSeq(f, n + 1, Len(f))
  <2>1. PICK n \in 0..Len(f) : g = SubSeq(f, n + 1, Len(f))
    BY <1>2
  <2>2. /\ g \in Seq(T) /\ DOMAIN g = 1..Len(f) - n /\ Len(g) = Len(f) - n /\ DOMAIN f = 1..Len(f)
        /\ \A i \in DOMAIN g : i + n \in DOMAIN f /\ g[i] = f[i + n]
        /\ \A j \in DOMAIN f : j > n => j - n \in DOMAIN g /\ g[j - n] = f[j]
    BY <2>1, SuffixFacts
  <2>3. Facts(n)
    BY <1>2, <2>2
  <2> HIDE DEF Facts
  <2> QED BY <2>2, <2>3 DEF Facts
<1> QED BY <1>1, <1>2 DEF Shortened

LEMMA AppendFacts ==
  ASSUME NEW T, NEW f \in Seq(T), NEW x \in T
  PROVE  LET g == Append(f, x)
         IN  /\ Len(f) \in Nat /\ DOMAIN f = 1..Len(f) /\ DOMAIN g = 1..Len(f) + 1
             /\ Len(g) = Len(f) + 1 /\ g \in Seq(T)
             /\ g[Len(f) + 1] = x /\ \A i \in DOMAIN f : i \in DOMAIN g /\ g[i] = f[i]
             /\ \A i \in DOMAIN g : (i \in DOMAIN f) \/ i = Len(f) + 1
             /\ \A i \in DOMAIN f : i < Len(f) + 1
OBVIOUS

(***************************************************************************)
(* Sleeps.                                                                 *)
(***************************************************************************)
LEMMA SleepShortened ==
  ASSUME NEW f \in Seq(Events), NEW days, NEW spoilt, NEW worse, spoilt \subseteq worse,
         SleepTold(f, days, spoilt), SleepsAlternate(f, spoilt),
         NEW g, Shortened(g, f, worse)
  PROVE  SleepTold(g, days, worse) /\ SleepsAlternate(g, worse)
<1>1. PICK n \in 0..Len(f) :
        /\ n = 0 \/ "dropped" \in worse
        /\ DOMAIN f = 1..Len(f) /\ DOMAIN g = 1..Len(f) - n
        /\ \A i \in DOMAIN g : i + n \in DOMAIN f /\ g[i] = f[i + n]
        /\ \A j \in DOMAIN f : j > n => j - n \in DOMAIN g /\ g[j - n] = f[j]
  BY ShortenedFacts
<1>2. n \in Nat /\ \A i \in DOMAIN g : i \in Nat
  BY <1>1
<1>3. ASSUME NEW t \in DOMAIN days, NEW j \in DOMAIN g, Latest(g, j, t, PowerTypes)
      PROVE  days[t].slept = SleptAfter(g[j], t)
  <2>1. j + n \in DOMAIN f /\ g[j] = f[j + n]
    BY <1>1
  <2>2. ASSUME NEW k \in DOMAIN f, k > j + n, f[k].type \in PowerTypes
        PROVE  f[k].timestamp > t
    <3>1. k > n /\ k - n > j
      BY <1>1, <1>2, <2>2
    <3>2. k - n \in DOMAIN g /\ g[k - n] = f[k]
      BY <1>1, <3>1
    <3> QED BY <1>3, <2>2, <3>1, <3>2 DEF Latest
  <2>3. Latest(f, j + n, t, PowerTypes)
    BY <1>3, <2>1, <2>2 DEF Latest
  <2> QED BY <2>1, <2>3 DEF SleepTold
<1>4. ASSUME NEW t \in DOMAIN days, NoneTold(g, t, PowerTypes), "dropped" \notin worse
      PROVE  days[t].slept = "no"
  <2>1. \A k \in DOMAIN f : k - 0 \in DOMAIN g /\ g[k - 0] = f[k]
    BY <1>1, <1>4
  <2>2. NoneTold(f, t, PowerTypes)
    BY <1>4, <2>1 DEF NoneTold
  <2> QED BY <1>4, <2>2 DEF SleepTold
<1>5. ASSUME NEW j \in DOMAIN g, g[j].type \in Ways, g[j].timestamp > 1,
             NEW i \in DOMAIN g, i < j, g[i].type \in Ways
      PROVE  \E k \in DOMAIN g : i < k /\ k < j /\ g[k].type = "WAKE_UP"
  <2>1. i + n < j + n
    BY <1>2, <1>5
  <2>2. PICK k \in DOMAIN f : i + n < k /\ k < j + n /\ f[k].type = "WAKE_UP"
    BY <1>1, <1>5, <2>1 DEF SleepsAlternate
  <2>3. k > n /\ i < k - n /\ k - n < j
    BY <1>1, <1>2, <2>2
  <2> QED BY <1>1, <2>2, <2>3
<1>6. ASSUME NEW j \in DOMAIN g, g[j].type = "WAKE_UP", g[j].timestamp > 1, "dropped" \notin worse
      PROVE  \E i \in DOMAIN g : i < j /\ g[i].type \in Ways
  <2>1. n = 0 /\ j + n = j
    BY <1>1, <1>2, <1>6
  <2>2. PICK i \in DOMAIN f : i < j /\ f[i].type \in Ways
    BY <1>1, <1>6, <2>1 DEF SleepsAlternate
  <2>3. i > n /\ i - n = i
    BY <1>1, <2>1
  <2> QED BY <1>1, <2>2, <2>3
<1>7. ASSUME NEW j \in DOMAIN g, g[j].type = "POWER_OFF"
      PROVE  \E k \in DOMAIN g : k > j /\ g[k].type = "WAKE_UP" /\ g[k].timestamp <= 1
  <2>1. PICK k \in DOMAIN f : k > j + n /\ f[k].type = "WAKE_UP" /\ f[k].timestamp <= 1
    BY <1>1, <1>7 DEF SleepsAlternate
  <2>2. k > n /\ k - n > j
    BY <1>1, <1>2, <2>1
  <2> QED BY <1>1, <2>1, <2>2
<1>8. SleepTold(g, days, worse)
  BY <1>3, <1>4 DEF SleepTold
<1>9. SleepsAlternate(g, worse)
  BY <1>5, <1>6, <1>7 DEF SleepsAlternate
<1> QED BY <1>8, <1>9

LEMMA AllWokenShortened ==
  ASSUME NEW f \in Seq(Events), NEW spoilt, AllWoken(f), NEW g, Shortened(g, f, spoilt)
  PROVE  AllWoken(g)
<1>1. PICK n \in 0..Len(f) :
        /\ DOMAIN f = 1..Len(f) /\ DOMAIN g = 1..Len(f) - n
        /\ \A i \in DOMAIN g : i + n \in DOMAIN f /\ g[i] = f[i + n]
        /\ \A j \in DOMAIN f : j > n => j - n \in DOMAIN g /\ g[j - n] = f[j]
  BY ShortenedFacts
<1>2. ASSUME NEW j \in DOMAIN g, g[j].type \in Ways
      PROVE  \E k \in DOMAIN g : k > j /\ g[k].type = "WAKE_UP"
  <2>1. PICK k \in DOMAIN f : k > j + n /\ f[k].type = "WAKE_UP"
    BY <1>1, <1>2 DEF AllWoken
  <2>2. k > n /\ k - n > j
    BY <1>1, <2>1
  <2> QED BY <1>1, <2>1, <2>2
<1> QED BY <1>2 DEF AllWoken

LEMMA SleepAppended ==
  ASSUME NEW f \in Seq(Events), NEW days, NEW spoilt,
         SleepTold(f, days, spoilt), SleepsAlternate(f, spoilt),
         NEW x \in Events, \A t \in DOMAIN days : ~ (x.timestamp <= t) /\ x.timestamp > t,
         x.type \in Ways => AllWoken(f),
         x.type = "WAKE_UP" /\ "dropped" \notin spoilt => \E i \in DOMAIN f : f[i].type \in Ways,
         x.type # "POWER_OFF"
  PROVE  SleepTold(Append(f, x), days, spoilt) /\ SleepsAlternate(Append(f, x), spoilt)
<1> DEFINE g == Append(f, x)
           n == Len(f) + 1
<1>1. /\ DOMAIN f = 1..Len(f) /\ DOMAIN g = 1..n /\ n \in DOMAIN g /\ g[n] = x
      /\ \A i \in DOMAIN f : i \in DOMAIN g /\ g[i] = f[i] /\ i < n
      /\ \A i \in DOMAIN g : (i \in DOMAIN f) \/ i = n
      /\ \A i \in DOMAIN g : ~ (i > n)
  BY AppendFacts
<1> HIDE DEF g, n
<1>2. ASSUME NEW t \in DOMAIN days, NEW j \in DOMAIN g, Latest(g, j, t, PowerTypes)
      PROVE  days[t].slept = SleptAfter(g[j], t)
  <2>1. j \in DOMAIN f /\ g[j] = f[j]
    BY <1>1, <1>2 DEF Latest
  <2>2. Latest(f, j, t, PowerTypes)
    BY <1>1, <1>2, <2>1 DEF Latest
  <2> QED BY <2>1, <2>2 DEF SleepTold
<1>3. ASSUME NEW t \in DOMAIN days, NoneTold(g, t, PowerTypes), "dropped" \notin spoilt
      PROVE  days[t].slept = "no"
  <2>1. NoneTold(f, t, PowerTypes)
    BY <1>1, <1>3 DEF NoneTold
  <2> QED BY <1>3, <2>1 DEF SleepTold
<1>4. ASSUME NEW j \in DOMAIN g, g[j].type \in Ways, g[j].timestamp > 1,
             NEW i \in DOMAIN g, i < j, g[i].type \in Ways
      PROVE  \E k \in DOMAIN g : i < k /\ k < j /\ g[k].type = "WAKE_UP"
  <2>1. i \in DOMAIN f
    BY <1>1, <1>4
  <2>2. CASE j = n
    <3>1. PICK k \in DOMAIN f : k > i /\ f[k].type = "WAKE_UP"
      BY <1>1, <1>4, <2>1, <2>2 DEF AllWoken
    <3> QED BY <1>1, <2>1, <2>2, <3>1
  <2>3. CASE j \in DOMAIN f
    <3>1. PICK k \in DOMAIN f : i < k /\ k < j /\ f[k].type = "WAKE_UP"
      BY <1>1, <1>4, <2>1, <2>3 DEF SleepsAlternate
    <3> QED BY <1>1, <3>1
  <2> QED BY <1>1, <2>2, <2>3
<1>5. ASSUME NEW j \in DOMAIN g, g[j].type = "WAKE_UP", g[j].timestamp > 1, "dropped" \notin spoilt
      PROVE  \E i \in DOMAIN g : i < j /\ g[i].type \in Ways
  <2>1. CASE j = n
    BY <1>1, <1>5, <2>1
  <2>2. CASE j \in DOMAIN f
    BY <1>1, <1>5, <2>2 DEF SleepsAlternate
  <2> QED BY <1>1, <2>1, <2>2
<1>6. ASSUME NEW j \in DOMAIN g, g[j].type = "POWER_OFF"
      PROVE  \E k \in DOMAIN g : k > j /\ g[k].type = "WAKE_UP" /\ g[k].timestamp <= 1
  <2>1. j \in DOMAIN f
    BY <1>1, <1>6
  <2> QED BY <1>1, <1>6, <2>1 DEF SleepsAlternate
<1>7. SleepTold(g, days, spoilt)
  BY <1>2, <1>3 DEF SleepTold
<1>8. SleepsAlternate(g, spoilt)
  BY <1>4, <1>5, <1>6 DEF SleepsAlternate
<1> QED BY <1>7, <1>8 DEF g

LEMMA AllWokenAppended ==
  ASSUME NEW f \in Seq(Events), NEW x \in Events, x.type \notin Ways, AllWoken(f)
  PROVE  AllWoken(Append(f, x))
<1> DEFINE g == Append(f, x)
<1>1. /\ \A i \in DOMAIN f : i \in DOMAIN g /\ g[i] = f[i]
      /\ \A i \in DOMAIN g : (i \in DOMAIN f) \/ g[i] = x
  BY AppendFacts
<1> HIDE DEF g
<1>2. AllWoken(g)
  BY <1>1 DEF AllWoken
<1> QED BY <1>2 DEF g

\* A wake-up, as the last event, ends every sleep.
LEMMA WokenAtLast ==
  ASSUME NEW f \in Seq(Events), NEW t, LastIs(f, t, "WAKE_UP")
  PROVE  AllWoken(f)
<1>1. Len(f) \in DOMAIN f /\ DOMAIN f = 1..Len(f) /\ f[Len(f)].type = "WAKE_UP"
  BY DEF LastIs
<1>2. ASSUME NEW j \in DOMAIN f, f[j].type \in Ways
      PROVE  Len(f) > j
  BY <1>1, <1>2 DEF Ways
<1> QED BY <1>1, <1>2 DEF AllWoken

\* The event of a sleep stays the newest of its kind.
LEMMA LastPowerShortened ==
  ASSUME NEW f \in Seq(Events), NEW t, NEW way, NEW spoilt, NEW worse, spoilt \subseteq worse,
         LastPower(f, t, way, spoilt), NEW g, Shortened(g, f, worse)
  PROVE  LastPower(g, t, way, worse)
<1>1. PICK n \in 0..Len(f) :
        /\ n = 0 \/ "dropped" \in worse
        /\ DOMAIN f = 1..Len(f) /\ DOMAIN g = 1..Len(f) - n
        /\ \A i \in DOMAIN g : i + n \in DOMAIN f /\ g[i] = f[i + n]
        /\ \A j \in DOMAIN f : j > n => j - n \in DOMAIN g /\ g[j - n] = f[j]
  BY ShortenedFacts
<1>2. n \in Nat /\ \A i \in DOMAIN g : i \in Nat
  BY <1>1
<1>3. ASSUME NEW j \in DOMAIN g, g[j].type \in PowerTypes,
             \A k \in DOMAIN g : k > j => g[k].type \notin PowerTypes
      PROVE  g[j].type = way /\ g[j].timestamp = t
  <2>1. j + n \in DOMAIN f /\ g[j] = f[j + n]
    BY <1>1
  <2>2. ASSUME NEW k \in DOMAIN f, k > j + n
        PROVE  f[k].type \notin PowerTypes
    <3>1. k > n /\ k - n > j
      BY <1>1, <1>2, <2>2
    <3>2. k - n \in DOMAIN g /\ g[k - n] = f[k]
      BY <1>1, <3>1
    <3> QED BY <1>3, <3>1, <3>2
  <2> QED BY <1>3, <2>1, <2>2 DEF LastPower
<1>4. ASSUME "dropped" \notin worse
      PROVE  \E j \in DOMAIN g : g[j].type \in Ways
  <2>1. PICK j \in DOMAIN f : f[j].type \in Ways
    BY <1>4 DEF LastPower
  <2>2. j > n /\ j - n = j
    BY <1>1, <1>4
  <2> QED BY <1>1, <2>1, <2>2
<1> QED BY <1>3, <1>4 DEF LastPower

LEMMA LastPowerAppended ==
  ASSUME NEW f \in Seq(Events), NEW t, NEW way, NEW spoilt, LastPower(f, t, way, spoilt),
         NEW x \in Events, x.type \notin PowerTypes
  PROVE  LastPower(Append(f, x), t, way, spoilt)
<1> DEFINE g == Append(f, x)
           n == Len(f) + 1
<1>1. /\ n \in DOMAIN g /\ g[n] = x
      /\ \A i \in DOMAIN f : i \in DOMAIN g /\ g[i] = f[i] /\ i < n
      /\ \A i \in DOMAIN g : (i \in DOMAIN f) \/ i = n
  BY AppendFacts
<1> HIDE DEF g, n
<1>2. LastPower(g, t, way, spoilt)
  BY <1>1 DEF LastPower
<1> QED BY <1>2 DEF g

LEMMA LastPowerAtLast ==
  ASSUME NEW f \in Seq(Events), NEW t, NEW way \in Ways, LastIs(f, t, way), NEW spoilt
  PROVE  LastPower(f, t, way, spoilt)
<1>1. /\ Len(f) \in DOMAIN f /\ DOMAIN f = 1..Len(f)
      /\ f[Len(f)].type = way /\ f[Len(f)].timestamp = t
  BY DEF LastIs
<1>2. ASSUME NEW j \in DOMAIN f, \A k \in DOMAIN f : k > j => f[k].type \notin PowerTypes
      PROVE  j = Len(f)
  BY <1>1, <1>2 DEF PowerTypes
<1> QED BY <1>1, <1>2 DEF LastPower

\* A tick awake, and one asleep.
LEMMA SleepTicks ==
  ASSUME NEW f \in Seq(Events), UpTo(Len(day) + 1, f),
         NEW d, day \in Seq([slept : {"no", "deep", "light"}, dark : BOOLEAN]),
         d \in [slept : {"no", "deep", "light"}, dark : BOOLEAN],
         NEW spoilt, SleepTold(f, day, spoilt),
         \/ AllWoken(f) /\ d.slept = "no"
         \/ \E since0, way : /\ LastPower(f, since0, way, spoilt)
                              /\ \A e \in Events : e.type = way /\ e.timestamp = since0 =>
                                   d.slept = SleptAfter(e, Len(day) + 1)
  PROVE  SleepTold(f, Append(day, d), spoilt)
<1> DEFINE days == Append(day, d)
           t0 == Len(day) + 1
<1>1. /\ DOMAIN days = 1..t0 /\ days[t0] = d /\ \A t \in DOMAIN day : days[t] = day[t]
      /\ \A t \in DOMAIN days : t \in DOMAIN day \/ t = t0
  BY AppendFacts
<1>2. /\ DOMAIN f = 1..Len(f) /\ Len(f) \in Nat /\ t0 \in Nat
      /\ \A i \in DOMAIN f : f[i].timestamp <= t0 /\ f[i].timestamp \in Nat
  <2>1. \A i \in DOMAIN f : f[i] \in Events
    BY ElementOfSeq
  <2> QED BY <2>1, BatteryLogAssumption DEF UpTo, Events, Times
<1> HIDE DEF days, t0
<1>3. ASSUME NEW j \in DOMAIN f, Latest(f, j, t0, PowerTypes)
      PROVE  d.slept = SleptAfter(f[j], t0)
  <2>1. \A k \in DOMAIN f : k > j => f[k].type \notin PowerTypes
    BY <1>2, <1>3 DEF Latest
  <2>2. CASE AllWoken(f) /\ d.slept = "no"
    <3>1. f[j].type \notin Ways
      BY <2>1, <2>2 DEF AllWoken, PowerTypes
    <3>2. f[j].type = "WAKE_UP"
      BY <1>3, <3>1 DEF Latest, PowerTypes
    <3> QED BY <2>2, <3>2 DEF SleptAfter
  <2>3. CASE \E since0, way : /\ LastPower(f, since0, way, spoilt)
                              /\ \A e \in Events : e.type = way /\ e.timestamp = since0 =>
                                   d.slept = SleptAfter(e, t0)
    <3>1. PICK since0, way : /\ LastPower(f, since0, way, spoilt)
                             /\ \A e \in Events : e.type = way /\ e.timestamp = since0 =>
                                  d.slept = SleptAfter(e, t0)
      BY <2>3
    <3>2. f[j].type = way /\ f[j].timestamp = since0
      BY <1>3, <2>1, <3>1 DEF LastPower, Latest
    <3>3. f[j] \in Events
      BY ElementOfSeq
    <3> QED BY <3>1, <3>2, <3>3
  <2> QED BY <2>2, <2>3 DEF t0
<1>4. ASSUME NoneTold(f, t0, PowerTypes), "dropped" \notin spoilt
      PROVE  d.slept = "no"
  <2>1. \A k \in DOMAIN f : f[k].type \notin PowerTypes
    BY <1>2, <1>4 DEF NoneTold
  <2>2. ~ \E since0, way : LastPower(f, since0, way, spoilt)
    BY <1>4, <2>1 DEF LastPower, PowerTypes
  <2> QED BY <2>2
<1>5. ASSUME NEW t \in DOMAIN days
      PROVE  /\ \A j \in DOMAIN f :
                  Latest(f, j, t, PowerTypes) => days[t].slept = SleptAfter(f[j], t)
             /\ NoneTold(f, t, PowerTypes) /\ "dropped" \notin spoilt => days[t].slept = "no"
  <2>1. CASE t = t0
    BY <1>1, <1>3, <1>4, <2>1
  <2>2. CASE t \in DOMAIN day
    BY <1>1, <2>2 DEF SleepTold
  <2> QED BY <1>1, <2>1, <2>2
<1>6. SleepTold(f, days, spoilt)
  BY <1>5 DEF SleepTold
<1> QED BY <1>6 DEF days

(***************************************************************************)
(* The screen.                                                             *)
(***************************************************************************)
LEMMA DarkShortened ==
  ASSUME NEW f \in Seq(Events), NEW days, NEW screen, NEW spoilt, NEW worse, spoilt \subseteq worse,
         DarkTold(f, days, spoilt), LightsAlternate(f, spoilt),
         NEW g, Shortened(g, f, worse)
  PROVE  /\ DarkTold(g, days, worse) /\ LightsAlternate(g, worse)
         /\ DarkNow(f, screen, spoilt) => DarkNow(g, screen, worse)
<1>1. PICK n \in 0..Len(f) :
        /\ n = 0 \/ "dropped" \in worse
        /\ DOMAIN f = 1..Len(f) /\ DOMAIN g = 1..Len(f) - n
        /\ \A i \in DOMAIN g : i + n \in DOMAIN f /\ g[i] = f[i + n]
        /\ \A j \in DOMAIN f : j > n => j - n \in DOMAIN g /\ g[j - n] = f[j]
  BY ShortenedFacts
<1>2. n \in Nat /\ \A i \in DOMAIN g : i \in Nat
  BY <1>1
<1>3. ASSUME NEW j \in DOMAIN g, NEW k \in DOMAIN f, k > j + n
      PROVE  k - n \in DOMAIN g /\ g[k - n] = f[k] /\ k - n > j
  <2>1. k > n /\ k - n > j
    BY <1>1, <1>2, <1>3
  <2> QED BY <1>1, <2>1
<1>4. ASSUME NEW t \in DOMAIN days, NEW j \in DOMAIN g, Latest(g, j, t, ScreenTypes)
      PROVE  days[t].dark <=> g[j].type = "SCREEN_OFF"
  <2>1. j + n \in DOMAIN f /\ g[j] = f[j + n]
    BY <1>1
  <2>2. Latest(f, j + n, t, ScreenTypes)
    BY <1>3, <1>4, <2>1 DEF Latest
  <2> QED BY <2>1, <2>2 DEF DarkTold
<1>5. "dropped" \notin worse => \A k \in DOMAIN f : k \in DOMAIN g /\ g[k] = f[k]
  <2>1. ASSUME n = 0, NEW k \in DOMAIN f
        PROVE  k > n /\ k - n = k
    BY <1>1, <2>1
  <2> QED BY <1>1, <2>1
<1>6. ASSUME NEW t \in DOMAIN days, NoneTold(g, t, ScreenTypes), "dropped" \notin worse
      PROVE  ~days[t].dark
  <2>1. NoneTold(f, t, ScreenTypes)
    BY <1>5, <1>6 DEF NoneTold
  <2> QED BY <1>6, <2>1 DEF DarkTold
<1>7. ASSUME NEW j \in DOMAIN g, g[j].type = "SCREEN_ON", g[j].timestamp > 1, "dropped" \notin worse
      PROVE  \E i \in DOMAIN g : i < j /\ g[i].type = "SCREEN_OFF"
  <2>1. j \in DOMAIN f /\ g[j] = f[j]
    <3>1. n = 0 /\ j + n = j
      BY <1>1, <1>2, <1>7
    <3> QED BY <1>1, <3>1
  <2>2. PICK i \in DOMAIN f : i < j /\ f[i].type = "SCREEN_OFF"
    BY <1>7, <2>1 DEF LightsAlternate
  <2> QED BY <1>5, <1>7, <2>2
<1>8. ASSUME DarkNow(f, screen, spoilt)
      PROVE  DarkNow(g, screen, worse)
  <2>1. ASSUME NEW j \in DOMAIN g, g[j].type \in ScreenTypes,
               \A k \in DOMAIN g : k > j => g[k].type \notin ScreenTypes
        PROVE  screen <=> g[j].type = "SCREEN_OFF"
    <3>1. j + n \in DOMAIN f /\ g[j] = f[j + n]
      BY <1>1
    <3>2. \A k \in DOMAIN f : k > j + n => f[k].type \notin ScreenTypes
      BY <1>3, <2>1
    <3> QED BY <1>8, <2>1, <3>1, <3>2 DEF DarkNow
  <2>2. ASSUME screen, "dropped" \notin worse
        PROVE  \E k \in DOMAIN g : g[k].type = "SCREEN_OFF"
    BY <1>5, <1>8, <2>2 DEF DarkNow
  <2> QED BY <2>1, <2>2 DEF DarkNow
<1>9. DarkTold(g, days, worse)
  BY <1>4, <1>6 DEF DarkTold
<1>10. LightsAlternate(g, worse)
  BY <1>7 DEF LightsAlternate
<1> QED BY <1>8, <1>9, <1>10

LEMMA DarkAppended ==
  ASSUME NEW f \in Seq(Events), NEW days, NEW screen, NEW spoilt,
         DarkTold(f, days, spoilt), LightsAlternate(f, spoilt),
         NEW x \in Events, \A t \in DOMAIN days : ~ (x.timestamp <= t) /\ x.timestamp > t,
         x.type = "SCREEN_ON" /\ "dropped" \notin spoilt =>
           \E i \in DOMAIN f : f[i].type = "SCREEN_OFF"
  PROVE  /\ DarkTold(Append(f, x), days, spoilt) /\ LightsAlternate(Append(f, x), spoilt)
         /\ x.type \notin ScreenTypes /\ DarkNow(f, screen, spoilt) =>
              DarkNow(Append(f, x), screen, spoilt)
<1> DEFINE g == Append(f, x)
           n == Len(f) + 1
<1>1. /\ DOMAIN f = 1..Len(f) /\ DOMAIN g = 1..n /\ n \in DOMAIN g /\ g[n] = x
      /\ \A i \in DOMAIN f : i \in DOMAIN g /\ g[i] = f[i] /\ i < n
      /\ \A i \in DOMAIN g : (i \in DOMAIN f) \/ i = n
      /\ \A i \in DOMAIN g : ~ (i > n)
  BY AppendFacts
<1> HIDE DEF g, n
<1>2. ASSUME NEW t \in DOMAIN days, NEW j \in DOMAIN g, Latest(g, j, t, ScreenTypes)
      PROVE  days[t].dark <=> g[j].type = "SCREEN_OFF"
  <2>1. j \in DOMAIN f /\ g[j] = f[j]
    BY <1>1, <1>2 DEF Latest
  <2>2. Latest(f, j, t, ScreenTypes)
    BY <1>1, <1>2, <2>1 DEF Latest
  <2> QED BY <2>1, <2>2 DEF DarkTold
<1>3. ASSUME NEW t \in DOMAIN days, NoneTold(g, t, ScreenTypes), "dropped" \notin spoilt
      PROVE  ~days[t].dark
  <2>1. NoneTold(f, t, ScreenTypes)
    BY <1>1, <1>3 DEF NoneTold
  <2> QED BY <1>3, <2>1 DEF DarkTold
<1>4. ASSUME NEW j \in DOMAIN g, g[j].type = "SCREEN_ON", g[j].timestamp > 1, "dropped" \notin spoilt
      PROVE  \E i \in DOMAIN g : i < j /\ g[i].type = "SCREEN_OFF"
  <2>1. CASE j = n
    BY <1>1, <1>4, <2>1
  <2>2. CASE j \in DOMAIN f
    BY <1>1, <1>4, <2>2 DEF LightsAlternate
  <2> QED BY <1>1, <2>1, <2>2
<1>5. ASSUME x.type \notin ScreenTypes, DarkNow(f, screen, spoilt)
      PROVE  DarkNow(g, screen, spoilt)
  <2>1. ASSUME NEW j \in DOMAIN g, g[j].type \in ScreenTypes,
               \A k \in DOMAIN g : k > j => g[k].type \notin ScreenTypes
        PROVE  screen <=> g[j].type = "SCREEN_OFF"
    <3>1. j \in DOMAIN f /\ g[j] = f[j]
      BY <1>1, <1>5, <2>1
    <3>2. \A k \in DOMAIN f : k > j => f[k].type \notin ScreenTypes
      BY <1>1, <2>1
    <3> QED BY <1>5, <2>1, <3>1, <3>2 DEF DarkNow
  <2> QED BY <1>1, <1>5, <2>1 DEF DarkNow
<1>6. DarkTold(g, days, spoilt)
  BY <1>2, <1>3 DEF DarkTold
<1>7. LightsAlternate(g, spoilt)
  BY <1>4 DEF LightsAlternate
<1> QED BY <1>5, <1>6, <1>7 DEF g

LEMMA DarkAtLast ==
  ASSUME NEW f \in Seq(Events), NEW t, NEW type \in ScreenTypes, LastIs(f, t, type),
         NEW screen, screen <=> type = "SCREEN_OFF", NEW spoilt
  PROVE  DarkNow(f, screen, spoilt)
<1>1. Len(f) \in DOMAIN f /\ DOMAIN f = 1..Len(f) /\ f[Len(f)].type = type
  BY DEF LastIs
<1>2. ASSUME NEW j \in DOMAIN f, \A k \in DOMAIN f : k > j => f[k].type \notin ScreenTypes
      PROVE  j = Len(f)
  BY <1>1, <1>2
<1> QED BY <1>1, <1>2 DEF DarkNow

LEMMA DarkTicks ==
  ASSUME NEW f \in Seq(Events), UpTo(Len(day) + 1, f),
         NEW d, day \in Seq([slept : {"no", "deep", "light"}, dark : BOOLEAN]),
         d \in [slept : {"no", "deep", "light"}, dark : BOOLEAN],
         NEW spoilt, DarkTold(f, day, spoilt), DarkNow(f, d.dark, spoilt)
  PROVE  DarkTold(f, Append(day, d), spoilt)
<1> DEFINE days == Append(day, d)
           t0 == Len(day) + 1
<1>1. /\ DOMAIN days = 1..t0 /\ days[t0] = d /\ \A t \in DOMAIN day : days[t] = day[t]
      /\ \A t \in DOMAIN days : t \in DOMAIN day \/ t = t0
  BY AppendFacts
<1>2. /\ DOMAIN f = 1..Len(f) /\ Len(f) \in Nat /\ t0 \in Nat
      /\ \A i \in DOMAIN f : f[i].timestamp <= t0 /\ f[i].timestamp \in Nat
  <2>1. \A i \in DOMAIN f : f[i] \in Events
    BY ElementOfSeq
  <2> QED BY <2>1, BatteryLogAssumption DEF UpTo, Events, Times
<1> HIDE DEF days, t0
<1>3. ASSUME NEW j \in DOMAIN f, Latest(f, j, t0, ScreenTypes)
      PROVE  d.dark <=> f[j].type = "SCREEN_OFF"
  <2>1. \A k \in DOMAIN f : k > j => f[k].type \notin ScreenTypes
    BY <1>2, <1>3 DEF Latest
  <2>2. f[j].type \in ScreenTypes
    BY <1>3 DEF Latest
  <2> QED BY <2>1, <2>2 DEF DarkNow
<1>4. ASSUME NoneTold(f, t0, ScreenTypes), "dropped" \notin spoilt
      PROVE  ~d.dark
  <2>1. \A k \in DOMAIN f : f[k].type \notin ScreenTypes
    BY <1>2, <1>4 DEF NoneTold
  <2>2. \A k \in DOMAIN f : f[k].type # "SCREEN_OFF"
    BY <2>1 DEF ScreenTypes
  <2> QED BY <1>4, <2>2 DEF DarkNow
<1>5. ASSUME NEW t \in DOMAIN days
      PROVE  /\ \A j \in DOMAIN f : Latest(f, j, t, ScreenTypes) =>
                  (days[t].dark <=> f[j].type = "SCREEN_OFF")
             /\ NoneTold(f, t, ScreenTypes) /\ "dropped" \notin spoilt => ~days[t].dark
  <2>1. CASE t = t0
    BY <1>1, <1>3, <1>4, <2>1
  <2>2. CASE t \in DOMAIN day
    BY <1>1, <2>2 DEF DarkTold
  <2> QED BY <1>1, <2>1, <2>2
<1>6. DarkTold(f, days, spoilt)
  BY <1>5 DEF DarkTold
<1> QED BY <1>6 DEF days

(***************************************************************************)
(* What separates the samples.                                             *)
(***************************************************************************)
LEMMA TailFacts ==
  ASSUME NEW T, NEW s \in Seq(T), Len(s) > 0
  PROVE  /\ DOMAIN Tail(s) = 1..Len(s) - 1 /\ Len(Tail(s)) = Len(s) - 1
         /\ \A i \in 1..Len(s) - 1 : Tail(s)[i] = s[i + 1] /\ i + 1 \in 1..Len(s)
         /\ \A k \in 1..Len(s) : k # 1 => k - 1 \in 1..Len(s) - 1 /\ Tail(s)[k - 1] = s[k]
         /\ Len(s) > 1 => Tail(s)[Len(s) - 1] = s[Len(s)]
<1> DEFINE n == Len(s)
           tail == Tail(s)
<1>1. n \in Nat /\ n > 0
  OBVIOUS
<1>2. DOMAIN tail = 1..n - 1 /\ Len(tail) = n - 1 /\ \A i \in 1..n - 1 : tail[i] = s[i + 1]
  BY HeadTailProperties
<1> HIDE DEF n, tail
<1>3. \A i \in 1..n - 1 : i + 1 \in 1..n
  BY <1>1
<1>4. ASSUME NEW k \in 1..n, k # 1
      PROVE  k - 1 \in 1..n - 1 /\ tail[k - 1] = s[k]
  <2>1. k - 1 \in 1..n - 1 /\ (k - 1) + 1 = k
    BY <1>1, <1>4
  <2> QED BY <1>2, <2>1
<1>5. n > 1 => tail[n - 1] = s[n]
  <2>1. n > 1 => n \in 1..n /\ n # 1
    BY <1>1
  <2> QED BY <1>4, <2>1
<1> QED BY <1>2, <1>3, <1>4, <1>5 DEF n, tail

LEMMA MarkedShortened ==
  ASSUME NEW f \in Seq(Events), NEW samples, NEW days, NEW spoilt, NEW worse, spoilt \subseteq worse,
         SleepsMarked(f, samples, days, spoilt), ChargersSampled(f, samples),
         NEW g, Shortened(g, f, worse)
  PROVE  SleepsMarked(g, samples, days, worse) /\ ChargersSampled(g, samples)
<1>1. PICK n \in 0..Len(f) :
        /\ n = 0 \/ "dropped" \in worse
        /\ DOMAIN f = 1..Len(f) /\ DOMAIN g = 1..Len(f) - n
        /\ \A i \in DOMAIN g : i + n \in DOMAIN f /\ g[i] = f[i + n]
        /\ \A j \in DOMAIN f : j > n => j - n \in DOMAIN g /\ g[j - n] = f[j]
  BY ShortenedFacts
<1>2. n \in Nat /\ \A i \in DOMAIN g : i \in Nat /\ i + n > n
  BY <1>1
<1>3. ASSUME NEW t \in DOMAIN days, days[t].slept # "no"
      PROVE  \/ \E j \in DOMAIN g :
                  /\ g[j].type \in Ways /\ g[j].timestamp <= t
                  /\ \A k \in DOMAIN g : k > j => g[k].timestamp > t
                  /\ \A i \in DOMAIN samples :
                       samples[i].timestamp <= t => samples[i].timestamp <= g[j].timestamp
             \/ "dropped" \in worse /\ \A k \in DOMAIN g : g[k].timestamp > t
  <2>1. CASE "dropped" \in spoilt /\ \A k \in DOMAIN f : f[k].timestamp > t
    BY <1>1, <2>1
  <2>2. ASSUME NEW j \in DOMAIN f,
               /\ f[j].type \in Ways /\ f[j].timestamp <= t
               /\ \A k \in DOMAIN f : k > j => f[k].timestamp > t
               /\ \A i \in DOMAIN samples :
                    samples[i].timestamp <= t => samples[i].timestamp <= f[j].timestamp
        PROVE  \/ \E i \in DOMAIN g :
                    /\ g[i].type \in Ways /\ g[i].timestamp <= t
                    /\ \A k \in DOMAIN g : k > i => g[k].timestamp > t
                    /\ \A m \in DOMAIN samples :
                         samples[m].timestamp <= t => samples[m].timestamp <= g[i].timestamp
               \/ "dropped" \in worse /\ \A k \in DOMAIN g : g[k].timestamp > t
    <3>1. CASE j > n
      <4>1. j - n \in DOMAIN g /\ g[j - n] = f[j]
        BY <1>1, <3>1
      <4>2. ASSUME NEW k \in DOMAIN g, k > j - n
            PROVE  g[k].timestamp > t
        <5>1. k + n > j
          BY <1>1, <1>2, <4>2
        <5> QED BY <1>1, <2>2, <5>1
      <4> QED BY <2>2, <4>1, <4>2
    <3>2. CASE ~ (j > n)
      <4>1. \A k \in DOMAIN g : k + n > j
        BY <1>1, <1>2, <3>2
      <4>2. n # 0
        BY <1>1, <3>2
      <4> QED BY <1>1, <2>2, <4>1, <4>2
    <3> QED BY <3>1, <3>2
  <2> QED BY <1>3, <2>1, <2>2 DEF SleepsMarked
<1>4. SleepsMarked(g, samples, days, worse)
  BY <1>3 DEF SleepsMarked
<1>5. ChargersSampled(g, samples)
  BY <1>1 DEF ChargersSampled
<1> QED BY <1>4, <1>5

LEMMA MarkedAppended ==
  ASSUME NEW f \in Seq(Events), NEW samples, NEW days, NEW spoilt,
         SleepsMarked(f, samples, days, spoilt), ChargersSampled(f, samples),
         NEW x \in Events, \A t \in DOMAIN days : x.timestamp > t,
         x.type \in ChargerTypes => \E i \in DOMAIN samples : samples[i].timestamp = x.timestamp
  PROVE  SleepsMarked(Append(f, x), samples, days, spoilt) /\ ChargersSampled(Append(f, x), samples)
<1> DEFINE g == Append(f, x)
           n == Len(f) + 1
<1>1. /\ DOMAIN f = 1..Len(f) /\ DOMAIN g = 1..n /\ n \in DOMAIN g /\ g[n] = x
      /\ \A i \in DOMAIN f : i \in DOMAIN g /\ g[i] = f[i] /\ i < n
      /\ \A i \in DOMAIN g : (i \in DOMAIN f) \/ i = n
  BY AppendFacts
<1> HIDE DEF g, n
<1>2. ASSUME NEW t \in DOMAIN days, days[t].slept # "no"
      PROVE  \/ \E j \in DOMAIN g :
                  /\ g[j].type \in Ways /\ g[j].timestamp <= t
                  /\ \A k \in DOMAIN g : k > j => g[k].timestamp > t
                  /\ \A i \in DOMAIN samples :
                       samples[i].timestamp <= t => samples[i].timestamp <= g[j].timestamp
             \/ "dropped" \in spoilt /\ \A k \in DOMAIN g : g[k].timestamp > t
  <2>1. CASE "dropped" \in spoilt /\ \A k \in DOMAIN f : f[k].timestamp > t
    BY <1>1, <2>1
  <2>2. CASE \E j \in DOMAIN f :
               /\ f[j].type \in Ways /\ f[j].timestamp <= t
               /\ \A k \in DOMAIN f : k > j => f[k].timestamp > t
               /\ \A i \in DOMAIN samples :
                    samples[i].timestamp <= t => samples[i].timestamp <= f[j].timestamp
    <3>1. PICK j \in DOMAIN f :
               /\ f[j].type \in Ways /\ f[j].timestamp <= t
               /\ \A k \in DOMAIN f : k > j => f[k].timestamp > t
               /\ \A i \in DOMAIN samples :
                    samples[i].timestamp <= t => samples[i].timestamp <= f[j].timestamp
      BY <2>2
    <3>2. j \in DOMAIN g /\ g[j] = f[j] /\ \A k \in DOMAIN g : k > j => g[k].timestamp > t
      BY <1>1, <3>1
    <3> QED BY <3>1, <3>2
  <2> QED BY <1>2, <2>1, <2>2 DEF SleepsMarked
<1>3. SleepsMarked(g, samples, days, spoilt)
  BY <1>2 DEF SleepsMarked
<1>4. ChargersSampled(g, samples)
  BY <1>1 DEF ChargersSampled
<1> QED BY <1>3, <1>4 DEF g

\* A sample of now joins, and perhaps the oldest one goes.
LEMMA SampleAppended ==
  ASSUME NEW f \in Seq(Events), NEW samples \in Seq(Samples), NEW days, NEW spoilt,
         SleepsMarked(f, samples, days, spoilt), ChargersSampled(f, samples),
         NEW x \in Samples, \A t \in DOMAIN days : ~ (x.timestamp <= t),
         UpTo(x.timestamp, samples), UpTo(x.timestamp, f), NEW size \in Nat
  PROVE  LET later == Newest(Append(samples, x), size)
         IN  SleepsMarked(f, later, days, spoilt) /\ ChargersSampled(f, later)
<1> DEFINE s == Append(samples, x)
           n == Len(samples) + 1
           later == Newest(s, size)
<1>1. /\ DOMAIN samples = 1..Len(samples) /\ DOMAIN s = 1..n /\ n \in DOMAIN s /\ s[n] = x
      /\ \A i \in DOMAIN samples : i \in DOMAIN s /\ s[i] = samples[i] /\ i < n
      /\ \A i \in DOMAIN s : (i \in DOMAIN samples) \/ i = n
      /\ s \in Seq(Samples) /\ Len(s) = n /\ n \in Nat /\ n > 0
  BY AppendFacts
<1>2. /\ x.timestamp \in Int /\ \A i \in DOMAIN samples : samples[i].timestamp \in Int
      /\ \A j \in DOMAIN f : f[j].timestamp \in Int
  <2>1. \A i \in DOMAIN samples : samples[i] \in Samples
    BY ElementOfSeq
  <2>2. \A j \in DOMAIN f : f[j] \in Events
    BY ElementOfSeq
  <2> QED BY <2>1, <2>2, BatteryLogAssumption DEF Samples, Events, Times
<1> HIDE DEF s, n
<1>3. SleepsMarked(f, s, days, spoilt)
  <2>1. ASSUME NEW t \in DOMAIN days, NEW e,
               \A i \in DOMAIN samples : samples[i].timestamp <= t => samples[i].timestamp <= e
        PROVE  \A i \in DOMAIN s : s[i].timestamp <= t => s[i].timestamp <= e
    BY <1>1, <2>1
  <2> QED BY <2>1 DEF SleepsMarked
<1>4. ChargersSampled(f, s)
  <2>1. ASSUME NEW j \in DOMAIN f, f[j].type \in ChargerTypes, f[j].timestamp > 1
        PROVE  \/ \E i \in DOMAIN s : s[i].timestamp = f[j].timestamp
               \/ \A i \in DOMAIN s : s[i].timestamp > f[j].timestamp
    <3>1. f[j].timestamp <= x.timestamp
      BY DEF UpTo
    <3>2. f[j].timestamp = x.timestamp \/ x.timestamp > f[j].timestamp
      BY <1>2, <3>1
    <3> QED BY <1>1, <2>1, <3>2 DEF ChargersSampled
  <2> QED BY <2>1 DEF ChargersSampled
<1>5. \A i, k \in DOMAIN s : i <= k => s[i].timestamp <= s[k].timestamp
  <2>1. ASSUME NEW i \in DOMAIN s, NEW k \in DOMAIN s, i <= k
        PROVE  s[i].timestamp <= s[k].timestamp
    <3>1. CASE k = n
      BY <1>1, <1>2, <3>1 DEF UpTo
    <3>2. CASE k \in DOMAIN samples
      <4>1. i \in DOMAIN samples
        BY <1>1, <2>1, <3>2
      <4> QED BY <1>1, <2>1, <3>2, <4>1 DEF UpTo, Ordered
    <3> QED BY <1>1, <3>1, <3>2
  <2> QED BY <2>1
<1>6. ASSUME later = Tail(s)
      PROVE  SleepsMarked(f, later, days, spoilt) /\ ChargersSampled(f, later)
  <2>1. /\ DOMAIN later = 1..n - 1
        /\ \A i \in 1..n - 1 : later[i] = s[i + 1] /\ i + 1 \in 1..n
        /\ \A k \in 1..n : k # 1 => k - 1 \in 1..n - 1 /\ later[k - 1] = s[k]
    BY <1>1, <1>6, TailFacts
  <2> HIDE DEF later
  <2>2. /\ \A i \in DOMAIN later : \E k \in DOMAIN s : later[i] = s[k]
        /\ \A k \in DOMAIN s : k # 1 => \E i \in DOMAIN later : later[i] = s[k]
    BY <1>1, <2>1
  <2>3. SleepsMarked(f, later, days, spoilt)
    <3>1. ASSUME NEW t, NEW e, \A i \in DOMAIN s : s[i].timestamp <= t => s[i].timestamp <= e
          PROVE  \A i \in DOMAIN later : later[i].timestamp <= t => later[i].timestamp <= e
      BY <2>2, <3>1
    <3> QED BY <1>3, <3>1 DEF SleepsMarked
  <2>4. ASSUME NEW j \in DOMAIN f, f[j].type \in ChargerTypes, f[j].timestamp > 1
        PROVE  \/ \E i \in DOMAIN later : later[i].timestamp = f[j].timestamp
               \/ \A i \in DOMAIN later : later[i].timestamp > f[j].timestamp
    <3>1. CASE \A i \in DOMAIN s : s[i].timestamp > f[j].timestamp
      BY <2>2, <3>1
    <3>2. CASE \E i \in DOMAIN s : s[i].timestamp = f[j].timestamp /\ i # 1
      BY <2>2, <3>2
    <3>3. CASE s[1].timestamp = f[j].timestamp
      <4>1. \A i \in DOMAIN s : 1 <= i /\ 1 \in DOMAIN s /\ s[i].timestamp \in Int
        BY <1>1, <1>2
      <4>2. \A i \in DOMAIN s : s[i].timestamp = f[j].timestamp \/ s[i].timestamp > f[j].timestamp
        BY <1>2, <1>5, <3>3, <4>1
      <4> QED BY <2>2, <4>2
    <3> QED BY <1>4, <2>4, <3>1, <3>2, <3>3 DEF ChargersSampled
  <2> QED BY <2>3, <2>4 DEF ChargersSampled
<1>7. later = s \/ later = Tail(s)
  BY DEF Newest
<1>8. SleepsMarked(f, later, days, spoilt) /\ ChargersSampled(f, later)
  <2> HIDE DEF later
  <2> QED BY <1>3, <1>4, <1>6, <1>7
<1> QED BY <1>8 DEF s

LEMMA MarkedTicks ==
  ASSUME NEW f \in Seq(Events), NEW samples, NEW d,
         day \in Seq([slept : {"no", "deep", "light"}, dark : BOOLEAN]),
         d \in [slept : {"no", "deep", "light"}, dark : BOOLEAN],
         NEW spoilt, SleepsMarked(f, samples, day, spoilt),
         \/ d.slept = "no"
         \/ /\ Len(f) > 0 /\ f[Len(f)].type \in Ways /\ f[Len(f)].timestamp <= Len(day) + 1
            /\ \A i \in DOMAIN samples : samples[i].timestamp <= f[Len(f)].timestamp
  PROVE  SleepsMarked(f, samples, Append(day, d), spoilt)
<1> DEFINE days == Append(day, d)
           t0 == Len(day) + 1
<1>1. /\ DOMAIN days = 1..t0 /\ days[t0] = d /\ \A t \in DOMAIN day : days[t] = day[t]
      /\ \A t \in DOMAIN days : t \in DOMAIN day \/ t = t0
  BY AppendFacts
<1>2. DOMAIN f = 1..Len(f) /\ Len(f) \in Nat
  OBVIOUS
<1> HIDE DEF days, t0
<1>3. ASSUME NEW t \in DOMAIN days, days[t].slept # "no"
      PROVE  \/ \E j \in DOMAIN f :
                  /\ f[j].type \in Ways /\ f[j].timestamp <= t
                  /\ \A k \in DOMAIN f : k > j => f[k].timestamp > t
                  /\ \A i \in DOMAIN samples :
                       samples[i].timestamp <= t => samples[i].timestamp <= f[j].timestamp
             \/ "dropped" \in spoilt /\ \A k \in DOMAIN f : f[k].timestamp > t
  <2>1. CASE t = t0
    <3>1. /\ Len(f) \in DOMAIN f /\ f[Len(f)].type \in Ways /\ f[Len(f)].timestamp <= t
          /\ \A i \in DOMAIN samples : samples[i].timestamp <= f[Len(f)].timestamp
      BY <1>1, <1>2, <1>3, <2>1 DEF t0
    <3>2. \A k \in DOMAIN f : ~ (k > Len(f))
      BY <1>2
    <3> QED BY <3>1, <3>2
  <2>2. CASE t \in DOMAIN day
    BY <1>1, <1>3, <2>2 DEF SleepsMarked
  <2> QED BY <1>1, <2>1, <2>2
<1>4. SleepsMarked(f, samples, days, spoilt)
  BY <1>3 DEF SleepsMarked
<1> QED BY <1>4 DEF days

(***************************************************************************)
(* What a written entry does to what the log tells.                        *)
(***************************************************************************)
LogRates == SleepsMarked(AllEvents, AllSamples, day, mishaps) /\ ChargersSampled(AllEvents, AllSamples)
LogSleeps == SleepTold(AllEvents, day, mishaps) /\ SleepsAlternate(AllEvents, mishaps)
LogLights == DarkTold(AllEvents, day, mishaps) /\ LightsAlternate(AllEvents, mishaps)

LEMMA PrefixOfNotLonger ==
  ASSUME NEW T, NEW f \in Seq(T), NEW g \in Seq(T), IsPrefix(f, g), Len(g) <= Len(f)
  PROVE  g = f
<1>1. Len(f) = Len(g)
  BY DEF IsPrefix
<1>2. SubSeq(f, 1, Len(f)) = f /\ SubSeq(g, 1, Len(g)) = g
  BY SubSeqFull
<1> QED BY <1>1, <1>2 DEF IsPrefix

LEMMA AppendHasPrefix ==
  ASSUME NEW T, NEW f \in Seq(T), NEW x \in T
  PROVE  IsPrefix(f, Append(f, x))
<1>1. /\ \A i \in 1..Len(f) : f[i] \in T /\ Append(f, x)[i] = f[i]
      /\ Len(f) \in Nat /\ Len(Append(f, x)) = Len(f) + 1
  BY ElementOfSeq, AppendFacts
<1> DEFINE n == Len(f)
           a == SubSeq(f, 1, n)
           b == SubSeq(Append(f, x), 1, n)
<1>2. /\ a \in Seq(T) /\ Len(a) = IF 1 <= n THEN n - 1 + 1 ELSE 0
      /\ \A i \in 1..n - 1 + 1 : a[i] = f[1 + i - 1]
  BY <1>1, SubSeqProperties
<1>3. /\ b \in Seq(T) /\ Len(b) = IF 1 <= n THEN n - 1 + 1 ELSE 0
      /\ \A i \in 1..n - 1 + 1 : b[i] = Append(f, x)[1 + i - 1]
  BY <1>1, SubSeqProperties
<1>4. \A i \in 1..n : 1 + i - 1 = i /\ n - 1 + 1 = n
  BY <1>1
<1>5. Len(a) = n /\ Len(b) = n /\ \A i \in 1..n : a[i] = b[i]
  <2>1. n - 1 + 1 = n /\ (1 <= n \/ n = 0)
    BY <1>1
  <2> QED BY <1>1, <1>2, <1>3, <1>4, <2>1
<1>6. a = b
  <2> HIDE DEF a, b
  <2> QED BY <1>2, <1>3, <1>5, SeqEqual
<1> QED BY <1>1, <1>6 DEF IsPrefix

\* What a step notes of the events that it drops.
Remembered ==
  /\ mishaps \subseteq mishaps' /\ UNCHANGED day
  /\ ~IsPrefix(AllEvents, AllEvents') => "dropped" \in mishaps'

LEMMA Remembers ==
  ASSUME NEW wrong, Remember(wrong)
  PROVE  Remembered /\ wrong \subseteq mishaps'
BY DEF Remember, Remembered, AllEvents

LEMMA EventLogged ==
  ASSUME IInv, NEW type \in EventTypes, log' = AddEvent(log, type), Remembered
  PROVE  /\ [timestamp |-> now, type |-> type] \in Events
         /\ AllSamples' = AllSamples /\ day' = day /\ AllEvents' \in Seq(Events)
         /\ LastIs(AllEvents', now, type)
         /\ mishaps \subseteq mishaps'
         /\ \/ AllEvents' = AllEvents
            \/ Shortened(AllEvents', Append(AllEvents, [timestamp |-> now, type |-> type]), mishaps')
<1> DEFINE x == [timestamp |-> now, type |-> type]
           f == AllEvents
           s == Append(f, x)
           g == Newest(s, EVENTS_SIZE)
<1>1. now \in Times /\ WrittenBy(log, now) /\ f \in Seq(Events)
  BY DEF IInv, Dated, Written, WrittenBy, AllEvents
<1>2. x \in Events /\ AllSamples' = AllSamples /\ AllEvents' = g
  BY <1>1, AddEventWrites DEF AllEvents, AllSamples
<1>3. EVENTS_SIZE \in Nat /\ EVENTS_SIZE > 0
  BY BatteryLogAssumption
<1>4. x.timestamp = now /\ x.type = type
  OBVIOUS
<1>5. mishaps \subseteq mishaps' /\ day' = day /\ (~IsPrefix(f, AllEvents') => "dropped" \in mishaps')
  BY DEF Remembered
<1> HIDE DEF x, f
<1>6. /\ s \in Seq(Events) /\ Len(s) = Len(f) + 1 /\ s[Len(f) + 1] = x /\ Len(f) \in Nat
      /\ DOMAIN s = 1..Len(s)
  BY <1>1, <1>2, AppendFacts
<1> HIDE DEF s
<1>7. CASE ~ (Len(s) > EVENTS_SIZE)
  <2>1. g = s
    BY <1>7 DEF Newest
  <2>2. Len(s) > 0 /\ s[Len(s)] = x
    BY <1>6
  <2> QED BY <1>2, <1>5, <1>6, <2>1, <2>2 DEF LastIs, Shortened, x, s, f
<1>8. CASE Len(s) > EVENTS_SIZE
  <2>1. g = Tail(s)
    BY <1>8 DEF Newest
  <2>2. Len(s) > 1 /\ Len(s) \in Nat
    BY <1>3, <1>6, <1>8
  <2>3. Len(g) = Len(s) - 1 /\ g[Len(s) - 1] = s[Len(s)] /\ g \in Seq(Events)
    <3>1. Len(s) > 0 /\ s # <<>>
      BY <2>2
    <3> QED BY <1>6, <2>1, <2>2, <3>1, TailFacts, HeadTailProperties
  <2>4. LastIs(g, now, type)
    BY <1>6, <2>2, <2>3 DEF LastIs, x
  <2>5. g = SubSeq(s, 1 + 1, Len(s)) /\ 1 \in 0..Len(s)
    <3>1. s # <<>> /\ 1 + 1 = 2
      BY <2>2
    <3> QED BY <1>6, <2>1, <2>2, <3>1, TailIsSubSeq
  <2>6. CASE IsPrefix(f, AllEvents')
    <3>1. g = f
      BY <1>1, <1>2, <1>6, <2>3, <2>6, PrefixOfNotLonger
    <3> QED BY <1>2, <1>5, <2>3, <2>4, <2>6, <3>1 DEF f, x
  <2>7. CASE ~IsPrefix(f, AllEvents')
    <3>1. "dropped" \in mishaps' /\ mishaps \subseteq mishaps'
      BY <1>5, <2>7
    <3>2. Shortened(g, s, mishaps')
      BY <2>5, <3>1 DEF Shortened
    <3> QED BY <1>2, <1>5, <2>3, <2>4, <3>1, <3>2 DEF s, f, x
  <2> QED BY <2>6, <2>7
<1> QED BY <1>7, <1>8

LEMMA SampleLogged ==
  ASSUME IInv, NEW capacity \in Capacities, NEW charging \in 0..2,
         log' = AddSample(log, capacity, charging), Remembered
  PROVE  LET x == [timestamp |-> now, capacity |-> capacity, charging |-> charging]
         IN  /\ x \in Samples /\ day' = day /\ AllEvents' \in Seq(Events)
             /\ AllSamples' = Newest(Append(AllSamples, x), HISTORY_SIZE)
             /\ Len(AllSamples') > 0 /\ AllSamples'[Len(AllSamples')].timestamp = now
             /\ mishaps \subseteq mishaps' /\ Shortened(AllEvents', AllEvents, mishaps')
<1> DEFINE x == [timestamp |-> now, capacity |-> capacity, charging |-> charging]
           f == AllEvents
           g == AllEvents'
           s == Append(AllSamples, x)
           later == Newest(s, HISTORY_SIZE)
<1>1. /\ now \in Times /\ WrittenBy(log, now) /\ f \in Seq(Events) /\ AllSamples \in Seq(Samples)
      /\ HISTORY_SIZE \in Nat /\ HISTORY_SIZE > 0
  BY BatteryLogAssumption DEF IInv, Dated, Written, WrittenBy, AllEvents, AllSamples
<1>2. /\ x \in Samples /\ AllSamples' = later
      /\ \E n \in 0..Len(f) : g = SubSeq(f, n + 1, Len(f))
  BY <1>1, AddSampleWrites DEF AllEvents, AllSamples
<1>3. x.timestamp = now
  OBVIOUS
<1>4. mishaps \subseteq mishaps' /\ day' = day /\ (~IsPrefix(f, g) => "dropped" \in mishaps')
  BY DEF Remembered
<1> HIDE DEF x, f, g
<1>5. Len(later) > 0 /\ later[Len(later)] = x
  <2>1. /\ s \in Seq(Samples) /\ Len(s) = Len(AllSamples) + 1 /\ s[Len(AllSamples) + 1] = x
        /\ Len(AllSamples) \in Nat /\ DOMAIN s = 1..Len(s)
    BY <1>1, <1>2, AppendFacts
  <2> HIDE DEF s
  <2>2. CASE ~ (Len(s) > HISTORY_SIZE)
    BY <2>1, <2>2 DEF Newest
  <2>3. CASE Len(s) > HISTORY_SIZE
    <3>1. later = Tail(s)
      BY <2>3 DEF Newest
    <3>2. Len(s) > 1 /\ Len(s) \in Nat
      BY <1>1, <2>1, <2>3
    <3>3. Len(s) > 0
      BY <3>2
    <3>4. Len(later) = Len(s) - 1 /\ later[Len(s) - 1] = s[Len(s)]
      BY <2>1, <3>1, <3>2, <3>3, TailFacts
    <3> QED BY <2>1, <3>2, <3>4
  <2> QED BY <2>2, <2>3
<1>6. Shortened(g, f, mishaps') /\ g \in Seq(Events) /\ mishaps \subseteq mishaps'
  <2>1. PICK n \in 0..Len(f) : g = SubSeq(f, n + 1, Len(f))
    BY <1>2
  <2>2. g \in Seq(Events) /\ Len(g) = Len(f) - n /\ Len(f) \in Nat
    BY <1>1, <2>1, SuffixFacts
  <2>3. CASE IsPrefix(f, g)
    <3>1. Len(g) <= Len(f)
      BY <2>2
    <3>2. g = f
      BY <1>1, <2>2, <2>3, <3>1, PrefixOfNotLonger
    <3> QED BY <1>4, <2>2, <2>3, <3>2 DEF Shortened
  <2>4. CASE ~IsPrefix(f, g)
    BY <1>4, <2>1, <2>2, <2>4 DEF Shortened
  <2> QED BY <2>3, <2>4
<1> HIDE DEF later
<1>7. AllSamples'[Len(AllSamples')].timestamp = now /\ Len(AllSamples') > 0
  BY <1>2, <1>3, <1>5
<1> QED BY <1>2, <1>4, <1>6, <1>7 DEF x, f, g, later

\* What it tells, it tells still after an event ...
LEMMA EventTells ==
  ASSUME IInv, NEW type \in EventTypes, log' = AddEvent(log, type), Remembered
  PROVE  /\ LogRates /\ (type \in ChargerTypes =>
              \E i \in DOMAIN AllSamples : AllSamples[i].timestamp = now) => LogRates'
         /\ /\ LogSleeps /\ (type \in Ways => AllWoken(AllEvents)) /\ type # "POWER_OFF"
            /\ type = "WAKE_UP" /\ "dropped" \notin mishaps =>
                 \E i \in DOMAIN AllEvents : AllEvents[i].type \in Ways
            => LogSleeps'
         /\ /\ LogLights
            /\ type = "SCREEN_ON" /\ "dropped" \notin mishaps =>
                 \E i \in DOMAIN AllEvents : AllEvents[i].type = "SCREEN_OFF"
            => /\ LogLights'
               /\ type \notin ScreenTypes /\ DarkNow(AllEvents, dark, mishaps) =>
                    DarkNow(AllEvents', dark, mishaps')
         /\ type \notin Ways /\ AllWoken(AllEvents) => AllWoken(AllEvents')
         /\ type \notin PowerTypes => \A t, way : LastPower(AllEvents, t, way, mishaps) =>
                                                LastPower(AllEvents', t, way, mishaps')
<1> DEFINE x == [timestamp |-> now, type |-> type]
           f == AllEvents
           s == Append(f, x)
           g == AllEvents'
<1>1. /\ x \in Events /\ AllSamples' = AllSamples /\ day' = day /\ g \in Seq(Events)
      /\ mishaps \subseteq mishaps' /\ (g = f \/ Shortened(g, s, mishaps'))
  BY EventLogged
<1>2. f \in Seq(Events) /\ \A t \in DOMAIN day : ~ (x.timestamp <= t) /\ x.timestamp > t
  <2>1. f \in Seq(Events)
    BY DEF IInv, Written, WrittenBy, AllEvents
  <2>2. \A t \in DOMAIN day : t \in Nat /\ now > t /\ now \in Nat
    BY BatteryLogAssumption DEF IInv, Dated, now, Times
  <2> QED BY <2>1, <2>2
<1>3. x.timestamp = now /\ x.type = type
  OBVIOUS
<1> HIDE DEF x, f, g
<1>4. Shortened(f, f, mishaps')
  BY DEF Shortened
<1>5. ASSUME LogRates, type \in ChargerTypes =>
               \E i \in DOMAIN AllSamples : AllSamples[i].timestamp = now
      PROVE  SleepsMarked(g, AllSamples, day, mishaps') /\ ChargersSampled(g, AllSamples)
  <2>1. SleepsMarked(f, AllSamples, day, mishaps) /\ ChargersSampled(f, AllSamples)
    BY <1>5 DEF LogRates, f
  <2>2. CASE g = f
    BY <1>1, <1>2, <1>4, <2>1, <2>2, MarkedShortened
  <2>3. CASE Shortened(g, s, mishaps')
    <3>1. s \in Seq(Events)
      BY <1>1, <1>2, AppendFacts
    <3>2. SleepsMarked(s, AllSamples, day, mishaps) /\ ChargersSampled(s, AllSamples)
      BY <1>1, <1>2, <1>3, <1>5, <2>1, MarkedAppended
    <3> HIDE DEF s
    <3> QED BY <1>1, <2>3, <3>1, <3>2, MarkedShortened
  <2> QED BY <1>1, <2>2, <2>3
<1>6. ASSUME LogSleeps, type \in Ways => AllWoken(f), type # "POWER_OFF",
             type = "WAKE_UP" /\ "dropped" \notin mishaps => \E i \in DOMAIN f : f[i].type \in Ways
      PROVE  SleepTold(g, day, mishaps') /\ SleepsAlternate(g, mishaps')
  <2>1. SleepTold(f, day, mishaps) /\ SleepsAlternate(f, mishaps)
    BY <1>6 DEF LogSleeps, f
  <2>2. CASE g = f
    BY <1>1, <1>2, <1>4, <2>1, <2>2, SleepShortened
  <2>3. CASE Shortened(g, s, mishaps')
    <3>1. s \in Seq(Events)
      BY <1>1, <1>2, AppendFacts
    <3>2. SleepTold(s, day, mishaps) /\ SleepsAlternate(s, mishaps)
      BY <1>1, <1>2, <1>3, <1>6, <2>1, SleepAppended
    <3> HIDE DEF s
    <3> QED BY <1>1, <2>3, <3>1, <3>2, SleepShortened
  <2> QED BY <1>1, <2>2, <2>3
<1>7. ASSUME LogLights,
             type = "SCREEN_ON" /\ "dropped" \notin mishaps =>
               \E i \in DOMAIN f : f[i].type = "SCREEN_OFF"
      PROVE  /\ DarkTold(g, day, mishaps') /\ LightsAlternate(g, mishaps')
             /\ type \notin ScreenTypes /\ DarkNow(f, dark, mishaps) => DarkNow(g, dark, mishaps')
  <2>1. DarkTold(f, day, mishaps) /\ LightsAlternate(f, mishaps)
    BY <1>7 DEF LogLights, f
  <2>2. CASE g = f
    BY <1>1, <1>2, <1>4, <2>1, <2>2, DarkShortened
  <2>3. CASE Shortened(g, s, mishaps')
    <3>1. s \in Seq(Events)
      BY <1>1, <1>2, AppendFacts
    <3>2. /\ DarkTold(s, day, mishaps) /\ LightsAlternate(s, mishaps)
          /\ type \notin ScreenTypes /\ DarkNow(f, dark, mishaps) => DarkNow(s, dark, mishaps)
      BY <1>1, <1>2, <1>3, <1>7, <2>1, DarkAppended
    <3> HIDE DEF s
    <3> QED BY <1>1, <2>3, <3>1, <3>2, DarkShortened
  <2> QED BY <1>1, <2>2, <2>3
<1>8. ASSUME type \notin Ways, AllWoken(f)
      PROVE  AllWoken(g)
  <2>1. CASE Shortened(g, s, mishaps')
    <3>1. s \in Seq(Events) /\ AllWoken(s)
      BY <1>1, <1>2, <1>3, <1>8, AppendFacts, AllWokenAppended
    <3> HIDE DEF s
    <3> QED BY <2>1, <3>1, AllWokenShortened
  <2> QED BY <1>1, <1>8, <2>1
<1>12. ASSUME type \notin PowerTypes, NEW t, NEW way, LastPower(f, t, way, mishaps)
       PROVE  LastPower(g, t, way, mishaps')
  <2>1. CASE g = f
    BY <1>1, <1>2, <1>4, <1>12, <2>1, LastPowerShortened
  <2>2. CASE Shortened(g, s, mishaps')
    <3>1. s \in Seq(Events)
      BY <1>1, <1>2, AppendFacts
    <3>2. LastPower(s, t, way, mishaps)
      BY <1>1, <1>2, <1>3, <1>12, LastPowerAppended
    <3> HIDE DEF s
    <3> QED BY <1>1, <2>2, <3>1, <3>2, LastPowerShortened
  <2> QED BY <1>1, <2>1, <2>2
<1>9. LogRates' = (SleepsMarked(g, AllSamples, day, mishaps') /\ ChargersSampled(g, AllSamples))
  BY <1>1 DEF LogRates, g
<1>10. LogSleeps' = (SleepTold(g, day, mishaps') /\ SleepsAlternate(g, mishaps'))
  BY <1>1 DEF LogSleeps, g
<1>11. LogLights' = (DarkTold(g, day, mishaps') /\ LightsAlternate(g, mishaps'))
  BY <1>1 DEF LogLights, g
<1> QED BY <1>5, <1>6, <1>7, <1>8, <1>9, <1>10, <1>11, <1>12 DEF f, g

\* ... after a sample and its clean-up, or when the log is left alone ...
LEMMA SampleTells ==
  ASSUME IInv,
         \/ \E capacity \in Capacities, charging \in 0..2 :
              log' = AddSample(log, capacity, charging) /\ Remembered
         \/ UNCHANGED <<log, day>> /\ mishaps \subseteq mishaps'
  PROVE  /\ LogRates => LogRates'
         /\ LogSleeps => LogSleeps'
         /\ AllWoken(AllEvents) => AllWoken(AllEvents')
         /\ LogLights => /\ LogLights'
                         /\ DarkNow(AllEvents, dark, mishaps) => DarkNow(AllEvents', dark, mishaps')
         /\ \A t, way : LastPower(AllEvents, t, way, mishaps) => LastPower(AllEvents', t, way, mishaps')
<1> DEFINE f == AllEvents
           g == AllEvents'
<1>1. f \in Seq(Events) /\ AllSamples \in Seq(Samples) /\ UpTo(now, f) /\ UpTo(now, AllSamples)
  BY DEF IInv, Written, WrittenBy, AllEvents, AllSamples
<1>2. /\ mishaps \subseteq mishaps' /\ Shortened(g, f, mishaps') /\ day' = day
      /\ \/ AllSamples' = AllSamples
         \/ \E x \in Samples : /\ x.timestamp = now
                               /\ AllSamples' = Newest(Append(AllSamples, x), HISTORY_SIZE)
  <2>1. ASSUME NEW capacity \in Capacities, NEW charging \in 0..2,
               log' = AddSample(log, capacity, charging), Remembered
        PROVE  /\ mishaps \subseteq mishaps' /\ Shortened(g, f, mishaps') /\ day' = day
               /\ \E x \in Samples : /\ x.timestamp = now
                                     /\ AllSamples' = Newest(Append(AllSamples, x), HISTORY_SIZE)
    <3> DEFINE x == [timestamp |-> now, capacity |-> capacity, charging |-> charging]
    <3>1. /\ x \in Samples /\ day' = day
          /\ AllSamples' = Newest(Append(AllSamples, x), HISTORY_SIZE)
          /\ mishaps \subseteq mishaps' /\ Shortened(AllEvents', AllEvents, mishaps')
      BY <2>1, SampleLogged
    <3>2. x.timestamp = now
      OBVIOUS
    <3> HIDE DEF x
    <3> QED BY <3>1, <3>2
  <2>2. CASE UNCHANGED <<log, day>> /\ mishaps \subseteq mishaps'
    BY <2>2 DEF AllEvents, AllSamples, Shortened
  <2> QED BY <2>1, <2>2
<1> HIDE DEF f, g
<1>3. ASSUME LogRates
      PROVE  SleepsMarked(g, AllSamples', day, mishaps') /\ ChargersSampled(g, AllSamples')
  <2>1. SleepsMarked(f, AllSamples, day, mishaps) /\ ChargersSampled(f, AllSamples)
    BY <1>3 DEF LogRates, f
  <2>2. SleepsMarked(f, AllSamples', day, mishaps) /\ ChargersSampled(f, AllSamples')
    <3>1. ASSUME NEW x \in Samples, x.timestamp = now,
                 AllSamples' = Newest(Append(AllSamples, x), HISTORY_SIZE)
          PROVE  SleepsMarked(f, AllSamples', day, mishaps) /\ ChargersSampled(f, AllSamples')
      <4>1. \A t \in DOMAIN day : ~ (x.timestamp <= t)
        <5>1. \A t \in DOMAIN day : t \in Nat /\ ~ (now <= t)
          BY DEF IInv, Dated, now
        <5> QED BY <3>1, <5>1
      <4> QED BY <1>1, <2>1, <3>1, <4>1, BatteryLogAssumption, SampleAppended
    <3> QED BY <1>2, <2>1, <3>1
  <2> QED BY <1>1, <1>2, <2>2, MarkedShortened
<1>4. ASSUME LogSleeps
      PROVE  SleepTold(g, day, mishaps') /\ SleepsAlternate(g, mishaps')
  BY <1>1, <1>2, <1>4, SleepShortened DEF LogSleeps, f
<1>5. AllWoken(f) => AllWoken(g)
  BY <1>1, <1>2, AllWokenShortened
<1>6. ASSUME LogLights
      PROVE  /\ DarkTold(g, day, mishaps') /\ LightsAlternate(g, mishaps')
             /\ DarkNow(f, dark, mishaps) => DarkNow(g, dark, mishaps')
  BY <1>1, <1>2, <1>6, DarkShortened DEF LogLights, f
<1>10. \A t, way : LastPower(f, t, way, mishaps) => LastPower(g, t, way, mishaps')
  BY <1>1, <1>2, LastPowerShortened
<1>7. LogRates' = (SleepsMarked(g, AllSamples', day, mishaps') /\ ChargersSampled(g, AllSamples'))
  BY <1>2 DEF LogRates, g
<1>8. LogSleeps' = (SleepTold(g, day, mishaps') /\ SleepsAlternate(g, mishaps'))
  BY <1>2 DEF LogSleeps, g
<1>9. LogLights' = (DarkTold(g, day, mishaps') /\ LightsAlternate(g, mishaps'))
  BY <1>2 DEF LogLights, g
<1> QED BY <1>3, <1>4, <1>5, <1>6, <1>7, <1>8, <1>9, <1>10 DEF f, g

\* ... and when the client starts.
LEMMA OldTells ==
  ASSUME NEW f \in Seq(Events), UpTo(1, f),
         \A i \in DOMAIN f : f[i].type \in Ways \cup {"POWER_OFF"} =>
           \E j \in DOMAIN f : j > i /\ f[j].type = "WAKE_UP",
         \A i \in DOMAIN f : f[i].type = "SCREEN_OFF" =>
           \E j \in DOMAIN f : j > i /\ f[j].type = "SCREEN_ON",
         NEW days, NEW samples, NEW spoilt,
         \A t \in DOMAIN days : t \in Nat /\ t >= 1 /\ days[t].slept = "no" /\ ~days[t].dark
  PROVE  /\ SleepsMarked(f, samples, days, spoilt) /\ ChargersSampled(f, samples)
         /\ SleepTold(f, days, spoilt) /\ SleepsAlternate(f, spoilt) /\ AllWoken(f)
         /\ DarkTold(f, days, spoilt) /\ LightsAlternate(f, spoilt) /\ DarkNow(f, FALSE, spoilt)
<1>1. \A i \in DOMAIN f : f[i].timestamp \in Nat /\ f[i].timestamp <= 1 /\ ~ (f[i].timestamp > 1)
  <2>1. \A i \in DOMAIN f : f[i] \in Events
    BY ElementOfSeq
  <2> QED BY <2>1, BatteryLogAssumption DEF UpTo, Events, Times
<1>2. \A t \in DOMAIN days, i \in DOMAIN f : ~ (f[i].timestamp > t)
  BY <1>1
<1>3. SleepsMarked(f, samples, days, spoilt) /\ ChargersSampled(f, samples)
  BY <1>1 DEF SleepsMarked, ChargersSampled
<1>4. ASSUME NEW t \in DOMAIN days, NEW j \in DOMAIN f, Latest(f, j, t, PowerTypes)
      PROVE  days[t].slept = SleptAfter(f[j], t)
  <2>1. \A k \in DOMAIN f : k > j => f[k].type \notin PowerTypes
    BY <1>2, <1>4 DEF Latest
  <2>2. f[j].type = "WAKE_UP"
    BY <1>4, <2>1 DEF Latest, PowerTypes
  <2> QED BY <2>2 DEF SleptAfter
<1>5. SleepTold(f, days, spoilt)
  BY <1>4 DEF SleepTold
<1>6. SleepsAlternate(f, spoilt) /\ AllWoken(f)
  BY <1>1 DEF SleepsAlternate, AllWoken
<1>7. ASSUME NEW j \in DOMAIN f, f[j].type \in ScreenTypes,
             \A k \in DOMAIN f : k > j => f[k].type \notin ScreenTypes
      PROVE  f[j].type # "SCREEN_OFF"
  BY <1>7 DEF ScreenTypes
<1>8. DarkNow(f, FALSE, spoilt)
  BY <1>7 DEF DarkNow
<1>9. ASSUME NEW t \in DOMAIN days, NEW j \in DOMAIN f, Latest(f, j, t, ScreenTypes)
      PROVE  f[j].type # "SCREEN_OFF"
  BY <1>2, <1>7, <1>9 DEF Latest
<1>10. DarkTold(f, days, spoilt) /\ LightsAlternate(f, spoilt)
  BY <1>1, <1>9 DEF DarkTold, LightsAlternate
<1> QED BY <1>3, <1>5, <1>6, <1>8, <1>10

(***************************************************************************)
(* The invariants are kept by every step.                                  *)
(***************************************************************************)
LEMMA MishapsStay ==
  ASSUME IInv, [Next]_vars
  PROVE  /\ mishaps \subseteq mishaps'
         /\ \A bad : Spared(bad)' => Spared(bad)
<1> USE DEF Remember, Mishap, history
<1>1. mishaps \subseteq mishaps'
  <2>1. CASE \E capacity \in Capacities, state \in States : BatteryChanges(capacity, state)
    BY <2>1 DEF BatteryChanges
  <2>2. CASE \E way \in WaysUsed : Sleep(way)
    BY <2>2 DEF Sleep
  <2>3. CASE LogNext \/ TurnScreen \/ AfterWakeActions
    BY <2>3 DEF LogNext, TurnScreen, AfterWakeActions
  <2>4. CASE OpenFile \/ WriteFile \/ PrepareForShutdown \/ OthersSleep \/ End \/ Start \/ Tick
             \/ MachineWakes \/ OnResume
    BY <2>4 DEF OpenFile, WriteFile, PrepareForShutdown, OthersSleep, End, Start, Tick,
       MachineWakes, OnResume
  <2>5. CASE LogindAnswers
    BY <2>5 DEF LogindAnswers
  <2>6. CASE UNCHANGED vars
    BY <2>6 DEF vars
  <2> QED BY <2>1, <2>2, <2>3, <2>4, <2>5, <2>6 DEF Next
<1> QED BY <1>1 DEF Spared

\* The client starts from no log, or from one of an earlier version that was left awake.
LEMMA StartTells ==
  ASSUME IInv, ClientTold, Start
  PROVE  LogRates' /\ LogSleeps' /\ LogLights' /\ AllWoken(AllEvents') /\ DarkNow(AllEvents', dark', mishaps')
<1>1. Unstarted /\ day' = day /\ mishaps' = mishaps /\ dark' = dark /\ dark = FALSE
  BY DEF ClientTold, Start, Unstarted, machine, history, IInv, ClientOK
<1>2. \A t \in DOMAIN day : t \in Nat /\ t >= 1 /\ day[t].slept = "no" /\ ~day[t].dark
  BY <1>1 DEF Unstarted, IInv, Dated
<1>3. /\ AllEvents' \in Seq(Events) /\ UpTo(1, AllEvents')
      /\ \A i \in DOMAIN AllEvents' : AllEvents'[i].type \in Ways \cup {"POWER_OFF"} =>
           \E j \in DOMAIN AllEvents' : j > i /\ AllEvents'[j].type = "WAKE_UP"
      /\ \A i \in DOMAIN AllEvents' : AllEvents'[i].type = "SCREEN_OFF" =>
           \E j \in DOMAIN AllEvents' : j > i /\ AllEvents'[j].type = "SCREEN_ON"
  <2>1. CASE oldFile \in {NoFile, Misfit}
    <3>1. log' = Cleared(now)
      BY <1>1, <2>1, FilesDiffer DEF Start, Load, Unstarted
    <3>2. AllEvents' = <<>>
      BY <3>1, EmptyLog DEF AllEvents, IInv, Dated
    <3> QED BY <3>2 DEF UpTo, Ordered
  <2>2. CASE \E l \in OldLogs : LeftAwake(l) /\ oldFile = File(l)
    <3>1. PICK l \in OldLogs : LeftAwake(l) /\ oldFile = File(l)
      BY <2>2
    <3>2. log' = l
      BY <1>1, <3>1, FilesDiffer DEF Start, Load, Unstarted
    <3>3. AllEvents' = InOrder(l.events, EVENTS_SIZE) /\ WrittenBy(l, 1)
      BY <3>2, OldLogsAssumption DEF AllEvents
    <3> QED BY <3>1, <3>3 DEF LeftAwake, WrittenBy
  <2> QED BY <1>1, <2>1, <2>2 DEF Unstarted
<1> DEFINE f == AllEvents'
<1>4. /\ SleepsMarked(f, AllSamples', day, mishaps) /\ ChargersSampled(f, AllSamples')
      /\ SleepTold(f, day, mishaps) /\ SleepsAlternate(f, mishaps) /\ AllWoken(f)
      /\ DarkTold(f, day, mishaps) /\ LightsAlternate(f, mishaps) /\ DarkNow(f, FALSE, mishaps)
  <2> HIDE DEF f
  <2>1. /\ f \in Seq(Events) /\ UpTo(1, f)
        /\ \A i \in DOMAIN f : f[i].type \in Ways \cup {"POWER_OFF"} =>
             \E j \in DOMAIN f : j > i /\ f[j].type = "WAKE_UP"
        /\ \A i \in DOMAIN f : f[i].type = "SCREEN_OFF" =>
             \E j \in DOMAIN f : j > i /\ f[j].type = "SCREEN_ON"
    BY <1>3 DEF f
  <2> QED BY <1>2, <2>1, OldTells
<1> QED BY <1>1, <1>4 DEF LogRates, LogSleeps, LogLights

LEMMA ToldKept ==
  ASSUME IInv, ToldInv, [Next]_vars
  PROVE  ToldInv'
<1> SUFFICES ASSUME Spared({"others", "ended"})'
             PROVE  ClientTold'
  BY DEF ToldInv
<1> USE DEF machine, files, history
<1>1. /\ ClientTold /\ now \in Nat /\ since \in Nat
      /\ \A capacity \in Capacities, charging \in 0..2 :
           log' = AddSample(log, capacity, charging) /\ Remembered =>
             Len(AllSamples') > 0 /\ AllSamples'[Len(AllSamples')].timestamp = now
      /\ \A type \in EventTypes :
           log' = AddEvent(log, type) /\ Remembered => AllSamples' = AllSamples
  <2>1. ClientTold
    BY MishapsStay DEF ToldInv
  <2>2. now \in Nat /\ since \in Nat
    BY BatteryLogAssumption DEF IInv, Dated, ClientOK, Times
  <2> QED BY <2>1, <2>2, EventLogged, SampleLogged
<1>2. day' = day => now' = now
  BY DEF now
<1>3. log' = log => AllEvents' = AllEvents /\ AllSamples' = AllSamples
  BY DEF AllEvents, AllSamples
<1>4. ASSUME NEW capacity \in Capacities, NEW state \in States, BatteryChanges(capacity, state)
      PROVE  ClientTold'
  <2>1. /\ client' # "down" /\ UNCHANGED <<pending, asleep, since>> /\ day' = day
        /\ log' = AddSample(log, capacity, state) /\ Remembered
    BY <1>4, Remembers DEF BatteryChanges, Remembered
  <2>2. Len(AllSamples') > 0 /\ AllSamples'[Len(AllSamples')].timestamp = now'
    BY <1>1, <1>2, <2>1, BatteryLogAssumption
  <2> QED BY <1>1, <1>2, <2>1, <2>2 DEF ClientTold
<1>5. CASE LogNext
  <2>1. Head(todo) \in EventTypes
    BY <1>5, TodoFacts DEF LogNext, IInv, ClientOK
  <2>2. /\ client' # "down" /\ UNCHANGED <<pending, asleep, since>> /\ todo # <<>>
        /\ log' = AddEvent(log, Head(todo)) /\ Remembered /\ day' = day
    BY <1>5, Remembers DEF LogNext, Remembered
  <2>3. AllSamples' = AllSamples
    BY <1>1, <2>1, <2>2
  <2> QED BY <1>1, <1>2, <2>2, <2>3 DEF ClientTold
<1>6. CASE TurnScreen \/ AfterWakeActions
  <2>1. client' # "down" /\ pending' = "none" /\ asleep' = "none" /\ todo' = <<>>
    BY <1>1, <1>6 DEF TurnScreen, AfterWakeActions, Ready, Running, ClientTold
  <2> QED BY <2>1 DEF ClientTold
<1>7. ASSUME NEW way \in WaysUsed, Sleep(way)
      PROVE  ClientTold'
  <2>1. client' # "down" /\ asleep' = "none" /\ todo' = <<>>
    BY <1>7 DEF Sleep, Ready, Running
  <2> QED BY <2>1 DEF ClientTold
<1>8. CASE LogindAnswers
  <2>1. /\ client' # "down" /\ pending' = "none" /\ todo' = <<>> /\ now' = now
        /\ pending \in Ways /\ asleep = "none"
    BY <1>1, <1>2, <1>8 DEF LogindAnswers, ClientTold, Ways
  <2>2. (asleep' = pending /\ since' = now) \/ asleep' = asleep
    BY <1>8 DEF LogindAnswers
  <2> QED BY <1>1, <2>1, <2>2 DEF ClientTold
<1>9. CASE OpenFile \/ WriteFile \/ PrepareForShutdown \/ OnResume
  <2>1. /\ client' # "down" /\ day' = day /\ log' = log
        /\ UNCHANGED <<todo, pending, asleep, since>>
    BY <1>9 DEF OpenFile, WriteFile, PrepareForShutdown, OnResume, Ready, Running
  <2> QED BY <1>1, <1>2, <1>3, <2>1 DEF ClientTold
<1>10. CASE OthersSleep
  BY <1>10 DEF OthersSleep, Mishap, Spared
<1>11. CASE MachineWakes
  <2>1. client' # "down" /\ asleep' = "none" /\ todo' = <<>>
    BY <1>11 DEF MachineWakes
  <2> QED BY <2>1 DEF ClientTold
<1>12. CASE End
  BY <1>12 DEF End, Mishap, Spared
<1>13. CASE Start
  <2>1. Unstarted /\ todo = <<>> /\ pending = "none"
    BY <1>1, <1>13 DEF Start, ClientTold
  <2>2. client' # "down" /\ todo' = <<>> /\ pending' = "none" /\ asleep' = "none"
    BY <1>13, <2>1 DEF Start, Unstarted
  <2> QED BY <2>2 DEF ClientTold
<1>14. CASE Tick
  <2>1. /\ UNCHANGED <<log, file, oldFile, client, todo, pending, asleep, since, dark>>
        /\ todo = <<>>
    BY <1>14 DEF Tick
  <2>2. now <= now'
    BY DatedKept DEF IInv
  <2>3. client' = "down" => Unstarted'
    <3>1. SUFFICES ASSUME client = "down"
                   PROVE  Unstarted'
      BY <2>1
    <3>2. Unstarted
      BY <1>1, <3>1 DEF ClientTold
    <3>3. \E d : d.slept = "no" /\ ~d.dark /\ day' = Append(day, d)
      <4> DEFINE d == [slept |-> "no", dark |-> dark]
      <4>1. day' = Append(day, d) /\ ~d.dark /\ d.slept = "no"
        BY <1>14, <3>2 DEF Tick, Unstarted
      <4> HIDE DEF d
      <4> QED BY <4>1
    <3>4. \A t \in DOMAIN day' : day'[t].slept = "no" /\ ~day'[t].dark
      BY <3>2, <3>3 DEF Unstarted, IInv, Dated
    <3> QED BY <2>1, <3>2, <3>4 DEF Unstarted
  <2>4. asleep' # "none" => since' <= now'
    <3>1. now \in Int /\ now' \in Int /\ since \in Int
      BY <1>1, DatedKept, BatteryLogAssumption DEF IInv, Dated, Times
    <3> QED BY <1>1, <2>1, <2>2, <3>1 DEF ClientTold
  <2> QED BY <1>1, <2>1, <2>3, <2>4 DEF ClientTold
<1>15. CASE UNCHANGED vars
  <2>1. /\ day' = day /\ log' = log
        /\ UNCHANGED <<file, oldFile, client, todo, pending, asleep, since, dark>>
    BY <1>15 DEF vars
  <2> QED BY <1>1, <1>2, <1>3, <2>1 DEF ClientTold, Unstarted
<1> QED BY <1>4, <1>5, <1>6, <1>7, <1>8, <1>9, <1>10, <1>11, <1>12, <1>13, <1>14, <1>15 DEF Next

LEMMA TickDay ==
  ASSUME IInv, ClientTold, Tick
  PROVE  \E d \in [slept : {"no", "deep", "light"}, dark : BOOLEAN] :
           /\ day' = Append(day, d) /\ d.dark = dark
           /\ asleep = "none" => d.slept = "no"
           /\ asleep # "none" =>
                /\ asleep \in Ways
                /\ \A e \in Events : e.type = asleep /\ e.timestamp = since =>
                     d.slept = SleptAfter(e, Len(day) + 1)
<1> DEFINE d == [slept |-> CASE asleep = "none" -> "no"
                             [] asleep = "HIBERNATE" -> "deep"
                             [] asleep = "SUSPEND_THEN_HIBERNATE"
                                  /\ now - since >= HibernateDelay -> "deep"
                             [] OTHER -> "light",
                 dark |-> dark]
<1>1. day' = Append(day, d)
  BY DEF Tick
<1>2. d \in [slept : {"no", "deep", "light"}, dark : BOOLEAN] /\ d.dark = dark
  BY DEF IInv, ClientOK
<1>3. asleep = "none" => d.slept = "no"
  OBVIOUS
<1>4. ASSUME asleep # "none"
      PROVE  /\ asleep \in Ways
             /\ \A e \in Events : e.type = asleep /\ e.timestamp = since =>
                  d.slept = SleptAfter(e, Len(day) + 1)
  <2>1. asleep \in Ways /\ asleep # "WAKE_UP"
    BY <1>4 DEF ClientTold, Ways
  <2> QED BY <1>4, <2>1 DEF SleptAfter, now
<1> HIDE DEF d
<1> QED BY <1>1, <1>2, <1>3, <1>4

\* The log is left alone, but for its file.
LEMMA QuietSteps ==
  ASSUME LogindAnswers \/ OpenFile \/ WriteFile \/ PrepareForShutdown \/ OthersSleep \/ End
         \/ OnResume \/ MachineWakes \/ UNCHANGED vars
  PROVE  UNCHANGED <<log, day>>
BY DEF LogindAnswers, OpenFile, WriteFile, PrepareForShutdown, OthersSleep, End, OnResume,
       MachineWakes, vars, history

\* Unless it is late, nothing is written behind the event of a sleep.
LEMMA MarkKept ==
  ASSUME IInv, ClientTold, SleepMarked, [Next]_vars, Spared({"others", "ended", "late"})'
  PROVE  SleepMarked'
<1> USE DEF machine, files, history
<1>1. /\ now \in Nat /\ UpTo(now, AllSamples) /\ AllSamples \in Seq(Samples)
      /\ \A i \in DOMAIN AllSamples : AllSamples[i].timestamp <= now
  BY BatteryLogAssumption DEF IInv, Dated, Written, WrittenBy, AllSamples, Times, UpTo
<1>2. log' = log => AllEvents' = AllEvents /\ AllSamples' = AllSamples
  BY DEF AllEvents, AllSamples
<1>3. ASSUME pending' \notin Ways, asleep' = "none"
      PROVE  SleepMarked'
  BY <1>3 DEF SleepMarked
<1>4. ASSUME NEW capacity \in Capacities, NEW state \in States, BatteryChanges(capacity, state)
      PROVE  SleepMarked'
  <2>1. Remember(IF pending \in Ways \/ asleep # "none" THEN {"late"} ELSE {})
    BY <1>4 DEF BatteryChanges
  <2>2. ~ (pending \in Ways \/ asleep # "none")
    <3>1. ASSUME pending \in Ways \/ asleep # "none"
          PROVE  "late" \in mishaps'
      BY <2>1, <3>1 DEF Remember
    <3> QED BY <3>1 DEF Spared
  <2>3. pending' = pending /\ asleep' = asleep
    BY <1>4 DEF BatteryChanges
  <2> QED BY <1>3, <2>2, <2>3
<1>5. CASE LogNext
  <2>1. todo # <<>> /\ UNCHANGED <<pending, asleep>>
    BY <1>5 DEF LogNext
  <2> QED BY <1>3, <2>1 DEF SleepMarked, MarkedBy
<1>6. CASE TurnScreen \/ AfterWakeActions \/ MachineWakes
  <2>1. pending' \in {"none", "woken"} /\ asleep' = "none"
    BY <1>6 DEF TurnScreen, AfterWakeActions, MachineWakes, Ready, Running, ClientTold
  <2> QED BY <1>3, <2>1 DEF Ways
<1>7. ASSUME NEW way \in WaysUsed, Sleep(way)
      PROVE  SleepMarked'
  <2>1. way \in EventTypes /\ way \in Ways
    BY BatteryLogAssumption DEF EventTypes, Ways
  <2>2. /\ pending' = way /\ asleep' = "none" /\ todo' = <<>>
        /\ log' = AddEvent(log, way) /\ Remembered
    BY <1>7, Remembers DEF Sleep, Ready, Running
  <2>3. LastIs(AllEvents', now, way) /\ AllSamples' = AllSamples
    BY <2>1, <2>2, EventLogged
  <2>4. /\ Len(AllEvents') > 0 /\ AllEvents'[Len(AllEvents')].type = way
        /\ AllEvents'[Len(AllEvents')].timestamp = now
    BY <2>3 DEF LastIs
  <2>5. MarkedBy(way)'
    BY <1>1, <2>2, <2>3, <2>4 DEF MarkedBy
  <2> QED BY <2>2, <2>5 DEF SleepMarked, MarkedBy
<1>8. CASE LogindAnswers
  <2>1. /\ pending' = "none" /\ todo' = todo /\ pending \in Ways /\ asleep = "none"
        /\ AllEvents' = AllEvents /\ AllSamples' = AllSamples
        /\ asleep' = pending \/ asleep' = asleep
    BY <1>2, <1>8 DEF LogindAnswers, ClientTold, Ways
  <2>2. "none" \notin Ways
    BY DEF Ways
  <2> QED BY <2>1, <2>2 DEF SleepMarked, MarkedBy
<1>9. CASE OpenFile \/ WriteFile \/ PrepareForShutdown \/ OnResume \/ Tick \/ UNCHANGED vars
  <2>1. UNCHANGED <<log, todo, pending, asleep>>
    BY <1>9 DEF OpenFile, WriteFile, PrepareForShutdown, OnResume, Tick, vars
  <2> QED BY <1>2, <2>1 DEF SleepMarked, MarkedBy
<1>10. CASE OthersSleep \/ End
  BY <1>10 DEF OthersSleep, End, Mishap, Spared
<1>11. CASE Start
  <2>1. pending' = "none" /\ asleep' = "none"
    BY <1>11 DEF Start, ClientTold, Unstarted
  <2> QED BY <1>3, <2>1 DEF Ways
<1> QED BY <1>4, <1>5, <1>6, <1>7, <1>8, <1>9, <1>10, <1>11 DEF Next

LEMMA RatesKept ==
  ASSUME IInv, ToldInv, RatesInv, [Next]_vars
  PROVE  RatesInv'
<1> SUFFICES ASSUME Spared({"others", "ended", "late"})'
             PROVE  SleepMarked' /\ LogRates'
  BY DEF RatesInv, LogRates
<1> USE DEF history
<1>1. ClientTold /\ SleepMarked /\ LogRates /\ mishaps \subseteq mishaps'
  <2>1. Spared({"others", "ended", "late"}) /\ mishaps \subseteq mishaps'
    BY MishapsStay
  <2>2. Spared({"others", "ended"})
    BY <2>1 DEF Spared
  <2> QED BY <2>1, <2>2 DEF ToldInv, RatesInv, LogRates
<1>2. SleepMarked'
  BY <1>1, MarkKept
<1>3. LogRates'
  <2>1. ASSUME NEW capacity \in Capacities, NEW state \in States, BatteryChanges(capacity, state)
        PROVE  LogRates'
    BY <1>1, <2>1, SampleTells, Remembers, BatteryLogAssumption DEF BatteryChanges
  <2>2. CASE LogNext
    <3>1. Head(todo) \in EventTypes /\ todo # <<>>
      BY <2>2, TodoFacts DEF LogNext, IInv, ClientOK
    <3>2. Len(AllSamples) \in DOMAIN AllSamples /\ AllSamples[Len(AllSamples)].timestamp = now
      <4>1. AllSamples \in Seq(Samples)
        BY DEF IInv, Written, WrittenBy, AllSamples
      <4> QED BY <1>1, <3>1, <4>1 DEF ClientTold
    <3>3. log' = AddEvent(log, Head(todo)) /\ Remembered
      BY <2>2, Remembers DEF LogNext
    <3> QED BY <1>1, <3>1, <3>2, <3>3, EventTells
  <2>3. CASE TurnScreen
    <3>1. \A type \in ScreenTypes : type \in EventTypes /\ type \notin ChargerTypes
      BY DEF ScreenTypes, EventTypes, ChargerTypes
    <3>2. \E type \in ScreenTypes : log' = AddEvent(log, type) /\ Remembered
      BY <2>3, Remembers DEF TurnScreen, ScreenTypes
    <3> QED BY <1>1, <3>1, <3>2, EventTells
  <2>4. ASSUME NEW way \in WaysUsed, Sleep(way)
        PROVE  LogRates'
    <3>1. way \in EventTypes /\ way \notin ChargerTypes
      BY BatteryLogAssumption DEF EventTypes, Ways, ChargerTypes
    <3>2. log' = AddEvent(log, way) /\ Remembered
      BY <2>4, Remembers DEF Sleep
    <3> QED BY <1>1, <3>1, <3>2, EventTells
  <2>5. CASE AfterWakeActions
    <3>1. "WAKE_UP" \in EventTypes /\ "WAKE_UP" \notin ChargerTypes
      BY DEF EventTypes, ChargerTypes
    <3>2. log' = AddEvent(log, "WAKE_UP") /\ Remembered
      BY <2>5, Remembers DEF AfterWakeActions
    <3> QED BY <1>1, <3>1, <3>2, EventTells
  <2>6. CASE LogindAnswers \/ OpenFile \/ WriteFile \/ PrepareForShutdown \/ OthersSleep \/ End
             \/ OnResume \/ MachineWakes \/ UNCHANGED vars
    BY <1>1, <2>6, QuietSteps, SampleTells
  <2>7. CASE Start
    BY <1>1, <2>7, StartTells
  <2>8. CASE Tick
    <3>1. PICK d \in [slept : {"no", "deep", "light"}, dark : BOOLEAN] :
            /\ day' = Append(day, d)
            /\ asleep = "none" => d.slept = "no"
            /\ asleep # "none" => asleep \in Ways
      BY <1>1, <2>8, TickDay
    <3>2. /\ AllEvents' = AllEvents /\ AllSamples' = AllSamples /\ UpTo(Len(day) + 1, AllEvents)
          /\ AllEvents \in Seq(Events)
          /\ day \in Seq([slept : {"no", "deep", "light"}, dark : BOOLEAN])
      BY <2>8 DEF Tick, AllEvents, AllSamples, IInv, Dated, Written, WrittenBy, now
    <3>3. asleep # "none" =>
            /\ Len(AllEvents) > 0 /\ AllEvents[Len(AllEvents)].type \in Ways
            /\ AllEvents[Len(AllEvents)].timestamp <= Len(day) + 1
            /\ \A i \in DOMAIN AllSamples :
                 AllSamples[i].timestamp <= AllEvents[Len(AllEvents)].timestamp
      BY <1>1, <3>1, <3>2 DEF SleepMarked, MarkedBy, UpTo
    <3>4. SleepsMarked(AllEvents, AllSamples, Append(day, d), mishaps)
      BY <1>1, <3>1, <3>2, <3>3, MarkedTicks DEF LogRates
    <3>5. SleepsMarked(AllEvents, AllSamples, Append(day, d), mishaps')
      BY <1>1, <3>4 DEF SleepsMarked
    <3> QED BY <1>1, <3>1, <3>2, <3>5 DEF LogRates
  <2> QED BY <2>1, <2>2, <2>3, <2>4, <2>5, <2>6, <2>7, <2>8 DEF Next
<1> QED BY <1>2, <1>3

LEMMA SleepKept ==
  ASSUME IInv, ToldInv, SleepInv, [Next]_vars
  PROVE  SleepInv'
<1> DEFINE Woken == asleep = "none" /\ pending = "none" => AllWoken(AllEvents)
<1> SUFFICES ASSUME Spared({"refused", "others", "slow", "ended"})'
             PROVE  LogSleeps' /\ Woken' /\ SleepLast'
  BY DEF SleepInv, LogSleeps
<1> USE DEF history, machine
<1>1. ClientTold /\ LogSleeps /\ Woken /\ SleepLast /\ mishaps \subseteq mishaps'
  <2>1. Spared({"refused", "others", "slow", "ended"}) /\ mishaps \subseteq mishaps'
    BY MishapsStay
  <2>2. Spared({"others", "ended"})
    BY <2>1 DEF Spared
  <2> QED BY <2>1, <2>2 DEF ToldInv, SleepInv, LogSleeps
<1>2. AllEvents \in Seq(Events) /\ now \in Nat /\ (day' = day => now' = now)
  BY BatteryLogAssumption DEF IInv, Dated, Written, WrittenBy, AllEvents, Times, now
<1>3. ASSUME \A t, way : LastPower(AllEvents, t, way, mishaps) => LastPower(AllEvents', t, way, mishaps'),
             AllWoken(AllEvents) => AllWoken(AllEvents'),
             UNCHANGED <<pending, asleep, since, day>>
      PROVE  Woken' /\ SleepLast'
  BY <1>1, <1>2, <1>3 DEF SleepLast
<1>4. ASSUME NEW capacity \in Capacities, NEW state \in States, BatteryChanges(capacity, state)
      PROVE  LogSleeps' /\ Woken' /\ SleepLast'
  <2>1. /\ log' = AddSample(log, capacity, state) /\ Remembered /\ state \in 0..2
        /\ UNCHANGED <<pending, asleep, since, day>>
    BY <1>4, Remembers, BatteryLogAssumption DEF BatteryChanges, Remembered
  <2> HIDE DEF Woken
  <2> QED BY <1>1, <1>3, <2>1, SampleTells
<1>5. ASSUME NEW type \in EventTypes, type \notin PowerTypes, type # "POWER_OFF",
             log' = AddEvent(log, type), Remembered, UNCHANGED <<pending, asleep, since>>
      PROVE  LogSleeps' /\ Woken' /\ SleepLast'
  <2>1. type \notin Ways /\ type # "WAKE_UP" /\ day' = day
    BY <1>5 DEF PowerTypes, Remembered
  <2> HIDE DEF Woken
  <2> QED BY <1>1, <1>3, <1>5, <2>1, EventTells
<1>6. CASE LogNext
  <2>1. /\ Head(todo) \in EventTypes /\ Head(todo) \notin PowerTypes /\ Head(todo) # "POWER_OFF"
    <3>1. Head(todo) \in ChargerTypes \cup {"SCREEN_ON"}
      BY <1>6, TodoFacts DEF LogNext, IInv, ClientOK
    <3> QED BY <3>1 DEF EventTypes, ChargerTypes, ScreenTypes, PowerTypes, Ways
  <2>2. log' = AddEvent(log, Head(todo)) /\ Remembered /\ UNCHANGED <<pending, asleep, since>>
    BY <1>6, Remembers DEF LogNext
  <2> HIDE DEF Woken
  <2> QED BY <1>5, <2>1, <2>2
<1>7. CASE TurnScreen
  <2>1. \A type \in ScreenTypes :
          type \in EventTypes /\ type \notin PowerTypes /\ type # "POWER_OFF"
    BY DEF ScreenTypes, EventTypes, PowerTypes, Ways
  <2>2. \E type \in ScreenTypes : log' = AddEvent(log, type) /\ Remembered
    BY <1>7, Remembers DEF TurnScreen, ScreenTypes
  <2>3. UNCHANGED <<pending, asleep, since>>
    BY <1>7 DEF TurnScreen
  <2> HIDE DEF Woken
  <2> QED BY <1>5, <2>1, <2>2, <2>3
<1>8. ASSUME NEW way \in WaysUsed, Sleep(way)
      PROVE  LogSleeps' /\ Woken' /\ SleepLast'
  <2>1. way \in EventTypes /\ way \notin {"none", "POWER_OFF", "WAKE_UP", "woken"} /\ way \in Ways
    BY BatteryLogAssumption DEF EventTypes, Ways
  <2>2. /\ log' = AddEvent(log, way) /\ Remembered /\ pending' = way /\ day' = day
        /\ asleep' = "none" /\ asleep = "none" /\ pending = "none"
    BY <1>8, Remembers DEF Sleep, Ready, Running, Remembered
  <2>3. LastIs(AllEvents', now, way) /\ AllEvents' \in Seq(Events)
    BY <2>1, <2>2, EventLogged
  <2>4. LastPower(AllEvents', now', way, mishaps')
    BY <1>2, <2>1, <2>2, <2>3, LastPowerAtLast
  <2>5. LogSleeps'
    BY <1>1, <2>1, <2>2, EventTells
  <2>6. SleepLast'
    BY <2>1, <2>2, <2>4 DEF SleepLast
  <2> QED BY <2>1, <2>2, <2>5, <2>6
<1>9. CASE AfterWakeActions
  <2>1. "WAKE_UP" \in EventTypes /\ "WAKE_UP" # "POWER_OFF" /\ "WAKE_UP" \notin Ways
    BY DEF EventTypes, Ways
  <2>2. /\ log' = AddEvent(log, "WAKE_UP") /\ Remembered /\ pending = "woken"
        /\ pending' = "none" /\ asleep' = "none"
    BY <1>1, <1>9, Remembers DEF AfterWakeActions, ClientTold
  <2>3. "dropped" \notin mishaps => \E i \in DOMAIN AllEvents : AllEvents[i].type \in Ways
    BY <1>1, <2>2 DEF SleepLast, LastPower
  <2>4. LogSleeps'
    BY <1>1, <2>1, <2>2, <2>3, EventTells
  <2>5. AllWoken(AllEvents')
    BY <2>1, <2>2, EventLogged, WokenAtLast
  <2>6. SleepLast'
    BY <2>2 DEF SleepLast, Ways
  <2> QED BY <2>4, <2>5, <2>6
<1>10. ASSUME UNCHANGED <<log, day>>
       PROVE  /\ LogSleeps' /\ AllEvents' = AllEvents
              /\ \A t, way : LastPower(AllEvents, t, way, mishaps) => LastPower(AllEvents', t, way, mishaps')
  BY <1>1, <1>10, SampleTells DEF AllEvents
<1>11. CASE LogindAnswers
  <2>1. UNCHANGED <<log, day>>
    BY <1>11, QuietSteps
  <2>2. asleep' = pending /\ pending \in Ways /\ pending' = "none" /\ since' = now
    BY <1>11 DEF LogindAnswers, Mishap, Spared
  <2>3. SleepLast'
    BY <1>1, <1>10, <2>1, <2>2 DEF SleepLast, Ways
  <2>4. Woken'
    BY <2>2 DEF Ways
  <2> HIDE DEF Woken
  <2> QED BY <1>10, <2>1, <2>3, <2>4
<1>12. CASE MachineWakes
  <2>1. UNCHANGED <<log, day>>
    BY <1>12, QuietSteps
  <2>2. /\ asleep # "none" /\ asleep' = "none" /\ pending' = "woken"
        /\ asleep \in Ways /\ since \in Nat
    BY <1>1, <1>12 DEF MachineWakes, ClientTold
  <2>3. SleepLast'
    BY <1>1, <1>10, <2>1, <2>2 DEF SleepLast, Ways
  <2> QED BY <1>10, <2>1, <2>2, <2>3
<1>13. CASE OthersSleep \/ End
  BY <1>13 DEF OthersSleep, End, Mishap, Spared
<1>14. CASE OpenFile \/ WriteFile \/ PrepareForShutdown \/ OnResume \/ UNCHANGED vars
  <2>1. UNCHANGED <<log, day>>
    BY <1>14, QuietSteps
  <2>2. UNCHANGED <<asleep, pending, since, day>>
    BY <1>14, <2>1 DEF OpenFile, WriteFile, PrepareForShutdown, OnResume, vars
  <2> HIDE DEF Woken
  <2> QED BY <1>3, <1>10, <2>1, <2>2
<1>15. CASE Start
  <2>1. LogSleeps' /\ AllWoken(AllEvents')
    BY <1>1, <1>15, StartTells
  <2>2. pending' = "none" /\ asleep' = "none"
    BY <1>1, <1>15 DEF Start, ClientTold, Unstarted
  <2> QED BY <2>1, <2>2 DEF SleepLast, Ways
<1>16. CASE Tick
  <2>1. PICK d \in [slept : {"no", "deep", "light"}, dark : BOOLEAN] :
          /\ day' = Append(day, d)
          /\ asleep = "none" => d.slept = "no"
          /\ asleep # "none" => \A e \in Events : e.type = asleep /\ e.timestamp = since =>
                                  d.slept = SleptAfter(e, Len(day) + 1)
    BY <1>1, <1>16, TickDay
  <2>2. pending = "none" /\ mishaps' = mishaps
    BY <1>16 DEF Tick, Mishap, Spared
  <2>3. /\ AllEvents' = AllEvents /\ UNCHANGED <<asleep, pending, since>>
        /\ day \in Seq([slept : {"no", "deep", "light"}, dark : BOOLEAN])
        /\ UpTo(Len(day) + 1, AllEvents)
    BY <1>16 DEF Tick, AllEvents, IInv, Dated, Written, WrittenBy, now
  <2>4. SleepTold(AllEvents, day, mishaps) /\ SleepsAlternate(AllEvents, mishaps)
    BY <1>1 DEF LogSleeps
  <2>5. SleepTold(AllEvents, Append(day, d), mishaps)
    <3>1. CASE asleep = "none"
      <4>1. AllWoken(AllEvents) /\ d.slept = "no"
        BY <1>1, <2>1, <2>2, <3>1
      <4> QED BY <1>2, <2>3, <2>4, <4>1, SleepTicks
    <3>2. CASE asleep # "none"
      <4>1. LastPower(AllEvents, since, asleep, mishaps)
        BY <1>1, <3>2 DEF SleepLast
      <4> QED BY <1>2, <2>1, <2>3, <2>4, <3>2, <4>1, SleepTicks
    <3> QED BY <3>1, <3>2
  <2>6. SleepLast'
    BY <1>1, <2>2, <2>3 DEF SleepLast, Ways
  <2> QED BY <1>1, <2>1, <2>2, <2>3, <2>4, <2>5, <2>6 DEF LogSleeps
<1> HIDE DEF Woken
<1> QED BY <1>4, <1>6, <1>7, <1>8, <1>9, <1>11, <1>12, <1>13, <1>14, <1>15, <1>16 DEF Next

LEMMA ScreenKept ==
  ASSUME IInv, ToldInv, ScreenInv, [Next]_vars
  PROVE  ScreenInv'
<1> DEFINE Lit == /\ DarkNow(AllEvents, dark, mishaps)
                  /\ asleep # "none" \/ pending = "woken" => ~dark
<1> SUFFICES ASSUME Spared({"others", "ended", "dark", "unlogged", "dimmed"})'
             PROVE  LogLights' /\ Lit'
  BY DEF ScreenInv, LogLights
<1> USE DEF history, machine
<1>1. ClientTold /\ LogLights /\ Lit /\ mishaps \subseteq mishaps'
  <2>1. Spared({"others", "ended", "dark", "unlogged", "dimmed"}) /\ mishaps \subseteq mishaps'
    BY MishapsStay
  <2>2. Spared({"others", "ended"})
    BY <2>1 DEF Spared
  <2> QED BY <2>1, <2>2 DEF ToldInv, ScreenInv, LogLights
<1>2. AllEvents \in Seq(Events) /\ dark \in BOOLEAN
  BY DEF IInv, Written, WrittenBy, AllEvents, ClientOK
<1>3. ASSUME NEW capacity \in Capacities, NEW state \in States, BatteryChanges(capacity, state)
      PROVE  LogLights' /\ Lit'
  <2>1. /\ log' = AddSample(log, capacity, state) /\ Remembered /\ state \in 0..2
        /\ UNCHANGED <<dark, asleep, pending>>
    BY <1>3, Remembers, BatteryLogAssumption DEF BatteryChanges
  <2>2. LogLights' /\ DarkNow(AllEvents', dark, mishaps')
    BY <1>1, <2>1, SampleTells
  <2> QED BY <1>1, <2>1, <2>2
<1>4. ASSUME NEW type \in EventTypes, type \notin ScreenTypes,
             log' = AddEvent(log, type), Remembered
      PROVE  LogLights' /\ DarkNow(AllEvents', dark, mishaps')
  <2>1. type # "SCREEN_ON"
    BY <1>4 DEF ScreenTypes
  <2> QED BY <1>1, <1>4, <2>1, EventTells
<1>5. ASSUME NEW type \in ScreenTypes, log' = AddEvent(log, type), Remembered,
             dark' <=> type = "SCREEN_OFF", type = "SCREEN_ON" => dark
      PROVE  LogLights' /\ DarkNow(AllEvents', dark', mishaps')
  <2>1. type \in EventTypes
    BY DEF EventTypes
  <2>2. type = "SCREEN_ON" /\ "dropped" \notin mishaps =>
          \E i \in DOMAIN AllEvents : AllEvents[i].type = "SCREEN_OFF"
    BY <1>1, <1>5 DEF DarkNow
  <2>3. LogLights'
    BY <1>1, <1>5, <2>1, <2>2, EventTells
  <2>4. LastIs(AllEvents', now, type) /\ AllEvents' \in Seq(Events)
    BY <1>5, <2>1, EventLogged
  <2> QED BY <1>5, <2>3, <2>4, DarkAtLast
<1>6. CASE LogNext
  <2>1. /\ log' = AddEvent(log, Head(todo)) /\ Remembered /\ UNCHANGED <<asleep, pending>>
        /\ dark' = (dark /\ Head(todo) # "SCREEN_ON")
    BY <1>6, Remembers DEF LogNext
  <2>2. /\ Head(todo) \in ChargerTypes \cup {"SCREEN_ON"} /\ Head(todo) \in EventTypes
        /\ Head(todo) = "SCREEN_ON" => dark
    <3>1. todo # <<>> /\ todo \in Unlit \cup Lighting /\ (todo \in Lighting => todo \in Unlit \/ dark)
      BY <1>6 DEF LogNext, IInv, ClientOK
    <3>2. Head(todo) = "SCREEN_ON" => todo \notin Unlit
      <4>1. \A type \in ChargerTypes : Head(<<type>>) # "SCREEN_ON"
        BY ShortSequences DEF ChargerTypes
      <4> QED BY <3>1, <4>1 DEF Unlit, ChargerTypes
    <3> QED BY <3>1, <3>2, TodoFacts
  <2>3. CASE Head(todo) = "SCREEN_ON"
    <3>1. "SCREEN_ON" \in ScreenTypes
      BY DEF ScreenTypes
    <3>2. dark' = FALSE /\ dark = TRUE
      BY <1>2, <2>1, <2>2, <2>3
    <3> QED BY <1>1, <1>5, <2>1, <2>3, <3>1, <3>2
  <2>4. CASE Head(todo) # "SCREEN_ON"
    <3>1. Head(todo) \notin ScreenTypes /\ dark' = dark
      BY <1>2, <2>1, <2>2, <2>4 DEF ScreenTypes, ChargerTypes
    <3> QED BY <1>1, <1>4, <2>1, <2>2, <3>1
  <2> QED BY <2>3, <2>4
<1>7. CASE TurnScreen
  <2>1. /\ asleep' = "none" /\ pending' = "none" /\ Remembered /\ dark' \in {~dark, FALSE}
        /\ log' = AddEvent(log, IF dark' THEN "SCREEN_OFF" ELSE "SCREEN_ON")
    BY <1>7, Remembers DEF TurnScreen, Ready, Running
  <2>2. dark' = ~dark
    <3>1. ASSUME dark' = dark
          PROVE  "dimmed" \in mishaps'
      <4>1. Remember({"dimmed"})
        BY <1>7, <3>1 DEF TurnScreen
      <4> QED BY <4>1, Remembers
    <3> QED BY <1>2, <2>1, <3>1 DEF Spared
  <2>3. PICK type \in ScreenTypes :
          /\ log' = AddEvent(log, type) /\ (dark' <=> type = "SCREEN_OFF")
          /\ type = "SCREEN_ON" => dark
    BY <1>2, <2>1, <2>2 DEF ScreenTypes
  <2> QED BY <1>5, <2>1, <2>3
<1>8. ASSUME NEW way \in WaysUsed, Sleep(way)
      PROVE  LogLights' /\ Lit'
  <2>1. way \in EventTypes /\ way \notin ScreenTypes /\ way # "woken"
    BY BatteryLogAssumption DEF EventTypes, Ways, ScreenTypes
  <2>2. /\ log' = AddEvent(log, way) /\ Remembered /\ dark' = dark /\ asleep' = "none"
        /\ pending' = way
    BY <1>8, Remembers DEF Sleep, Ready, Running
  <2> QED BY <1>4, <2>1, <2>2
<1>9. CASE AfterWakeActions
  <2>1. "WAKE_UP" \in EventTypes /\ "WAKE_UP" \notin ScreenTypes
    BY DEF EventTypes, ScreenTypes
  <2>2. /\ log' = AddEvent(log, "WAKE_UP") /\ Remembered /\ dark' = FALSE
        /\ pending = "woken"
    BY <1>9, Remembers DEF AfterWakeActions
  <2>3. dark' = dark
    BY <1>1, <1>2, <2>2
  <2> QED BY <1>4, <2>1, <2>2, <2>3
<1>10. CASE LogindAnswers \/ OthersSleep \/ End \/ OpenFile \/ WriteFile \/ PrepareForShutdown
            \/ OnResume \/ MachineWakes \/ UNCHANGED vars
  <2>1. LogLights' /\ DarkNow(AllEvents', dark, mishaps')
    BY <1>1, <1>10, QuietSteps, SampleTells
  <2>2. dark' = dark /\ (asleep' # "none" \/ pending' = "woken" => ~dark')
    <3>1. CASE LogindAnswers
      BY <1>1, <3>1 DEF LogindAnswers, Mishap, Spared, ClientTold
    <3>2. CASE OthersSleep \/ End \/ OnResume
      BY <3>2 DEF OthersSleep, End, OnResume, Mishap, Spared
    <3>3. CASE OpenFile \/ WriteFile \/ PrepareForShutdown \/ UNCHANGED vars
      BY <1>1, <3>3 DEF OpenFile, WriteFile, PrepareForShutdown, vars
    <3>4. CASE MachineWakes
      BY <1>1, <3>4 DEF MachineWakes
    <3> QED BY <1>10, <3>1, <3>2, <3>3, <3>4
  <2> QED BY <2>1, <2>2
<1>11. CASE Start
  <2>1. LogLights' /\ DarkNow(AllEvents', dark', mishaps')
    BY <1>1, <1>11, StartTells
  <2>2. asleep' = "none" /\ pending' = "none"
    BY <1>1, <1>11 DEF Start, ClientTold, Unstarted
  <2> QED BY <2>1, <2>2
<1>12. CASE Tick
  <2>1. PICK d \in [slept : {"no", "deep", "light"}, dark : BOOLEAN] :
          day' = Append(day, d) /\ d.dark = dark
    BY <1>1, <1>12, TickDay
  <2>2. /\ AllEvents' = AllEvents /\ UNCHANGED <<dark, asleep, pending>>
        /\ "dropped" \in mishaps' <=> "dropped" \in mishaps
        /\ day \in Seq([slept : {"no", "deep", "light"}, dark : BOOLEAN])
        /\ UpTo(Len(day) + 1, AllEvents)
    BY <1>12 DEF Tick, Mishap, AllEvents, IInv, Dated, Written, WrittenBy, now
  <2>3. DarkTold(AllEvents, Append(day, d), mishaps)
    BY <1>1, <1>2, <2>1, <2>2, DarkTicks DEF LogLights
  <2>4. LogLights'
    BY <1>1, <2>1, <2>2, <2>3 DEF LogLights, DarkTold, LightsAlternate
  <2>5. DarkNow(AllEvents', dark', mishaps')
    BY <1>1, <2>2 DEF DarkNow
  <2> QED BY <1>1, <2>2, <2>4, <2>5
<1> HIDE DEF Lit
<1> QED BY <1>3, <1>6, <1>7, <1>8, <1>9, <1>10, <1>11, <1>12 DEF Next

LEMMA InitTells ==
  ASSUME Init
  PROVE  ToldInv /\ RatesInv /\ SleepInv /\ ScreenInv
<1>1. /\ AllEvents = <<>> /\ AllSamples = <<>> /\ day = <<>> /\ asleep = "none" /\ ~dark
      /\ pending = "none" /\ todo = <<>>
  BY EmptyLog, BatteryLogAssumption DEF Init, AllSamples, AllEvents, Times
<1>2. DOMAIN AllEvents = {} /\ DOMAIN AllSamples = {} /\ DOMAIN day = {}
  BY <1>1
<1>3. Spared({"ended"}) => Unstarted
  <2>1. ASSUME oldFile \notin {NoFile, Misfit}, "ended" \notin mishaps
        PROVE  oldFile \in {File(l) : l \in {m \in OldLogs : LeftAwake(m)}}
    <3>1. PICK l \in OldLogs : oldFile = File(l)
      BY <2>1 DEF Init
    <3>2. LeftAwake(l)
      BY <2>1, <3>1, FilesDiffer DEF Init
    <3> QED BY <3>1, <3>2
  <2> QED BY <1>1, <1>2, <2>1 DEF Spared, Unstarted, Init
<1>4. Spared({"others", "ended"}) => ClientTold
  BY <1>1, <1>3 DEF Spared, ClientTold
<1>5. /\ LogRates /\ LogSleeps /\ LogLights /\ AllWoken(AllEvents) /\ DarkNow(AllEvents, dark, mishaps)
      /\ SleepMarked /\ SleepLast
  BY <1>1, <1>2 DEF SleepMarked, SleepLast, Ways, LogRates, LogSleeps, LogLights, AllWoken, DarkNow, SleepsMarked, ChargersSampled,
     SleepTold, SleepsAlternate, DarkTold, LightsAlternate
<1> QED BY <1>1, <1>4, <1>5 DEF ToldInv, RatesInv, SleepInv, ScreenInv, LogRates, LogSleeps, LogLights

TellInv == IInv /\ ToldInv /\ RatesInv /\ SleepInv /\ ScreenInv

LEMMA TellInvariance == Spec => []TellInv
<1>1. Init => TellInv
  BY InitOK, InitTells DEF TellInv
<1>2. TellInv /\ [Next]_vars => TellInv'
  BY DatedKept, WrittenKept, ClientKept, ToldKept, RatesKept, SleepKept, ScreenKept
     DEF IInv, TellInv
<1> QED BY <1>1, <1>2, PTL DEF Spec

(***************************************************************************)
(* The rates.                                                              *)
(***************************************************************************)
LEMMA MinFacts ==
  ASSUME NEW T \in SUBSET Nat, T # {}
  PROVE  Min(T) \in T /\ \A y \in T : Min(T) <= y
<1>1. \E m \in T : \A y \in T : m <= y
  BY LeastElement
<1> QED BY <1>1 DEF Min

LEMMA MaxFacts ==
  ASSUME NEW n \in Nat, NEW T \in SUBSET (0..n), T # {}
  PROVE  Max(T) \in T /\ \A y \in T : y <= Max(T)
<1> DEFINE U == {n - y : y \in T}
<1>1. U \in SUBSET Nat /\ U # {}
  <2>1. \A y \in T : n - y \in Nat
    OBVIOUS
  <2> QED BY <2>1
<1>2. PICK u \in U : \A z \in U : u <= z
  <2> HIDE DEF U
  <2> QED BY <1>1, LeastElement
<1>3. PICK m \in T : u = n - m
  OBVIOUS
<1>4. \A y \in T : y \in Int /\ m \in Int /\ n - m <= n - y
  <2>1. \A y \in T : n - y \in U
    OBVIOUS
  <2> HIDE DEF U
  <2>2. \A y \in T : n - m <= n - y
    BY <1>2, <1>3, <2>1
  <2>3. \A y \in T : y \in Int
    OBVIOUS
  <2> QED BY <2>2, <2>3
<1>5. \A y \in T : m >= y
  BY <1>4
<1>6. Max(T) \in T /\ \A y \in T : Max(T) >= y
  BY <1>5 DEF Max
<1>7. \A y \in T : y \in Int
  OBVIOUS
<1> QED BY <1>6, <1>7

\* What the invariant says of the entries.
LEMMA EntriesOrdered ==
  ASSUME IInv
  PROVE  /\ AllEvents \in Seq(Events) /\ AllSamples \in Seq(Samples) /\ now \in Nat
         /\ DOMAIN AllEvents = 1..Len(AllEvents) /\ Len(AllEvents) \in Nat
         /\ DOMAIN AllSamples = 1..Len(AllSamples) /\ Len(AllSamples) \in Nat
         /\ DOMAIN day = 1..now - 1
         /\ \A i \in DOMAIN AllEvents :
              /\ AllEvents[i] \in Events
              /\ AllEvents[i].timestamp \in Nat /\ AllEvents[i].timestamp <= now
         /\ \A i \in DOMAIN AllSamples :
              AllSamples[i].timestamp \in Nat /\ AllSamples[i].timestamp <= now
         /\ Ordered(AllEvents) /\ Ordered(AllSamples)
<1>1. /\ AllEvents \in Seq(Events) /\ AllSamples \in Seq(Samples)
      /\ UpTo(now, AllEvents) /\ UpTo(now, AllSamples)
  BY DEF IInv, Written, WrittenBy, AllEvents, AllSamples
<1>2. now \in Nat /\ DOMAIN day = 1..now - 1
  BY BatteryLogAssumption DEF IInv, Dated, now, Times
<1>3. \A i \in DOMAIN AllEvents : AllEvents[i] \in Events /\ AllEvents[i].timestamp \in Nat
  <2>1. \A i \in DOMAIN AllEvents : AllEvents[i] \in Events
    BY <1>1, ElementOfSeq
  <2> QED BY <2>1, BatteryLogAssumption DEF Events, Times
<1>4. \A i \in DOMAIN AllSamples : AllSamples[i].timestamp \in Nat
  <2>1. \A i \in DOMAIN AllSamples : AllSamples[i] \in Samples
    BY <1>1, ElementOfSeq
  <2> QED BY <2>1, BatteryLogAssumption DEF Samples, Times
<1>5. /\ DOMAIN AllEvents = 1..Len(AllEvents) /\ Len(AllEvents) \in Nat
      /\ DOMAIN AllSamples = 1..Len(AllSamples) /\ Len(AllSamples) \in Nat
  BY <1>1
<1> QED BY <1>1, <1>2, <1>3, <1>4, <1>5 DEF UpTo

LEMMA RatesAwake == TellInv => RatesMeasureActivity
<1> SUFFICES ASSUME TellInv, mishaps \cap {"others", "ended", "late"} = {},
                    NEW i \in DOMAIN Measured, Counts(Measured[i]),
                    AllSamples[i].timestamp \in Windows(PowerTypes),
                    NEW t \in AllSamples[i].timestamp..Measured[i].to - 1,
                    day[t].slept # "no"
             PROVE  FALSE
  BY DEF RatesMeasureActivity
<1> DEFINE E == AllEvents
           S == AllSamples
           first == S[i].timestamp
           second == S[i + 1].timestamp
           met == {j \in DOMAIN E : E[j].timestamp < second /\ (i = 1 \/ E[j].timestamp >= first)}
           telling == met \cap Told(Cuts \cup ChargerTypes)
<1>1. SleepsMarked(E, S, day, mishaps) /\ ChargersSampled(E, S)
  BY DEF TellInv, RatesInv, Spared
<1>2. /\ now \in Nat /\ DOMAIN E = 1..Len(E) /\ Len(E) \in Nat
      /\ DOMAIN S = 1..Len(S) /\ Len(S) \in Nat /\ DOMAIN day = 1..now - 1
      /\ \A j \in DOMAIN E : E[j].timestamp \in Nat
      /\ \A j \in DOMAIN S : S[j].timestamp \in Nat /\ S[j].timestamp <= now
      /\ \A j, k \in DOMAIN S : j <= k => S[j].timestamp <= S[k].timestamp
  BY EntriesOrdered DEF TellInv, Ordered
<1>3. /\ i \in DOMAIN S /\ i + 1 \in DOMAIN S /\ Measured[i].to = second
      /\ Measured[i].charging =
           CASE telling = {} -> S[i].charging
             [] telling # {} /\ E[Max(telling)].type = "CHARGER_CONNECTED" -> 1
             [] telling # {} /\ E[Max(telling)].type = "CHARGER_DISCONNECTED" -> 0
             [] OTHER -> -1
  <2>1. i \in 1..Len(S) - 1
    BY DEF Measured
  <2>2. i \in DOMAIN S /\ i + 1 \in DOMAIN S
    BY <1>2, <2>1
  <2> QED BY <2>1, <2>2 DEF Measured
<1>4. /\ first \in Nat /\ second \in Nat /\ t \in Nat /\ first <= t /\ t < second /\ second <= now
      /\ first >= 1 /\ t \in DOMAIN day
  <2>1. first \in Nat /\ second \in Nat /\ second <= now
    BY <1>2, <1>3
  <2>2. first \in 1..now
    BY DEF Windows
  <2>3. t \in first..second - 1
    BY <1>3
  <2> HIDE DEF first, second
  <2>4. t \in Nat /\ first <= t /\ t < second /\ first >= 1
    BY <2>1, <2>2, <2>3
  <2>5. t \in 1..now - 1
    BY <1>2, <2>1, <2>4
  <2> QED BY <1>2, <2>1, <2>4, <2>5
<1> HIDE DEF E, S
<1>5. ~ ("dropped" \in mishaps /\ \A k \in DOMAIN E : E[k].timestamp > t)
  <2>1. "dropped" \in mishaps => \E k \in DOMAIN E : E[k].timestamp <= first
    BY DEF Windows, Told, E, S
  <2> QED BY <1>2, <1>4, <2>1
<1>6. PICK j \in DOMAIN E :
        /\ E[j].type \in Ways /\ E[j].timestamp <= t
        /\ \A k \in DOMAIN E : k > j => E[k].timestamp > t
        /\ \A m \in DOMAIN S : S[m].timestamp <= t => S[m].timestamp <= E[j].timestamp
  BY <1>1, <1>4, <1>5 DEF SleepsMarked
<1>7. j \in telling
  <2>1. E[j].timestamp >= first /\ E[j].timestamp < second
    <3>1. first <= E[j].timestamp
      BY <1>3, <1>4, <1>6
    <3>2. E[j].timestamp \in Nat
      BY <1>2
    <3> HIDE DEF first, second
    <3> QED BY <1>4, <1>6, <3>1, <3>2
  <2>2. E[j].type \in Cuts \cup ChargerTypes
    BY <1>6 DEF Ways, Cuts, Sleeps
  <2> QED BY <2>1, <2>2 DEF Told, E
<1> DEFINE k == Max(telling)
<1>8. k \in telling /\ j <= k
  <2>1. telling \in SUBSET (0..Len(E)) /\ telling # {}
    <3>1. \A m \in DOMAIN E : m \in 0..Len(E)
      BY <1>2
    <3>2. \A m \in telling : m \in DOMAIN E
      OBVIOUS
    <3> HIDE DEF telling
    <3> QED BY <1>7, <3>1, <3>2
  <2> HIDE DEF telling
  <2> QED BY <1>2, <1>7, <2>1, MaxFacts
<1>9. E[k].type \in ChargerTypes
  <2>1. Measured[i].charging \in {0, 1}
    BY DEF Counts
  <2>2. telling # {}
    BY <1>7
  <2> HIDE DEF telling
  <2> QED BY <1>3, <2>1, <2>2 DEF ChargerTypes
<1>10. k \in DOMAIN E /\ k > j /\ E[k].timestamp < second /\ E[k].timestamp > t /\ E[k].timestamp > 1
  <2>1. k \in DOMAIN E /\ E[k].timestamp < second
    BY <1>8
  <2> HIDE DEF telling
  <2>2. k # j
    BY <1>6, <1>9 DEF Ways, ChargerTypes
  <2>3. k > j
    BY <1>2, <1>8, <2>1, <2>2
  <2> QED BY <1>2, <1>4, <1>6, <2>1, <2>3
<1> HIDE DEF telling, met, k
<1>11. CASE \A m \in DOMAIN S : S[m].timestamp > E[k].timestamp
  BY <1>2, <1>3, <1>4, <1>10, <1>11
<1>12. CASE \E m \in DOMAIN S : S[m].timestamp = E[k].timestamp
  <2>1. PICK m \in DOMAIN S : S[m].timestamp = E[k].timestamp
    BY <1>12
  <2>2. m <= i \/ i + 1 <= m
    BY <1>2, <1>3
  <2>3. CASE m <= i
    BY <1>2, <1>3, <1>4, <1>10, <2>1, <2>3
  <2>4. CASE i + 1 <= m
    BY <1>2, <1>3, <1>4, <1>10, <2>1, <2>4
  <2> QED BY <2>2, <2>3, <2>4
<1> QED BY <1>1, <1>9, <1>10, <1>11, <1>12 DEF ChargersSampled

(***************************************************************************)
(* Whatever the sizes of the rings, the clean-ups and the ways to sleep:   *)
(* a step between two samples that counts for an average rate was spent    *)
(* awake, since the sleep between them has left its event after the first  *)
(* sample and the charger that could overrule it comes with a sample of    *)
(* its own.                                                                *)
(***************************************************************************)
THEOREM RatesAreOfActivity == Spec => []RatesMeasureActivity
BY TellInvariance, RatesAwake, PTL

(***************************************************************************)
(* Recursive functions.                                                    *)
(***************************************************************************)
LEMMA SetInduction ==
  ASSUME NEW T, 0 \in T, \A n \in Nat : n \in T => n + 1 \in T
  PROVE  \A n \in Nat : n \in T
<1> DEFINE Others == {n \in Nat : n \notin T}
<1>1. SUFFICES ASSUME Others # {}
               PROVE  FALSE
  OBVIOUS
<1>2. PICK m \in Others : \A y \in Others : m <= y
  <2>1. Others \in SUBSET Nat
    OBVIOUS
  <2> HIDE DEF Others
  <2> QED BY <1>1, <2>1, LeastElement
<1>3. m # 0 /\ m - 1 \in Nat
  OBVIOUS
<1>4. m - 1 \in T
  BY <1>2, <1>3
<1> QED BY <1>3, <1>4

\* Induction up to a bound.
LEMMA BoundedInduction ==
  ASSUME NEW N \in Nat, NEW T, 0 \in T, \A k \in 0..N - 1 : k \in T => k + 1 \in T
  PROVE  \A k \in 0..N : k \in T
<1> DEFINE U == {k \in Nat : k <= N => k \in T}
<1>1. 0 \in U
  OBVIOUS
<1>2. ASSUME NEW k \in Nat, k \in U
      PROVE  k + 1 \in U
  <2>1. k + 1 \in Nat /\ (k + 1 <= N => k \in 0..N - 1 /\ k <= N)
    OBVIOUS
  <2> QED BY <1>2, <2>1
<1>3. \A k \in Nat : k \in U
  <2> HIDE DEF U
  <2> QED BY <1>1, <1>2, SetInduction
<1> QED BY <1>3

Reaches(a, N, S, base, step) ==
  a \in [0..N -> S] /\ a[0] = base /\ \A k \in 1..N : a[k] = step[a[k - 1]][k]

LEMMA Recursion ==
  ASSUME NEW N \in Nat, NEW S, NEW base \in S, NEW step,
         \A s \in S : \A k \in 1..N : step[s][k] \in S
  PROVE  \E a : Reaches(a, N, S, base, step)
<1> DEFINE Reached(m) ==
             \E a \in [0..m -> S] : a[0] = base /\ \A k \in 1..m : a[k] = step[a[k - 1]][k]
           T == {m \in 0..N : Reached(m)}
<1>1. 0 \in T
  <2> DEFINE a == [k \in 0..0 |-> base]
  <2>1. a \in [0..0 -> S] /\ a[0] = base /\ \A k \in 1..0 : a[k] = step[a[k - 1]][k]
    OBVIOUS
  <2> HIDE DEF a
  <2> QED BY <2>1
<1>2. ASSUME NEW m \in 0..N - 1, m \in T
      PROVE  m + 1 \in T
  <2>1. PICK a \in [0..m -> S] : a[0] = base /\ \A k \in 1..m : a[k] = step[a[k - 1]][k]
    BY <1>2
  <2> DEFINE b == [k \in 0..m + 1 |-> IF k = m + 1 THEN step[a[m]][m + 1] ELSE a[k]]
  <2>2. m + 1 \in 1..N /\ a[m] \in S /\ m \in 0..m
    OBVIOUS
  <2>3. step[a[m]][m + 1] \in S
    BY <2>2
  <2>4. b \in [0..m + 1 -> S]
    BY <2>3
  <2>5. /\ b[m + 1] = step[a[m]][m + 1] /\ \A k \in 0..m : b[k] = a[k]
        /\ (m + 1) - 1 = m
    OBVIOUS
  <2>6. \A k \in 1..m + 1 : k = m + 1 \/ (k \in 1..m /\ k - 1 \in 0..m /\ k \in 0..m)
    OBVIOUS
  <2> HIDE DEF b
  <2>7. b[0] = base
    BY <2>1, <2>5
  <2>8. \A k \in 1..m + 1 : b[k] = step[b[k - 1]][k]
    BY <2>1, <2>2, <2>5, <2>6
  <2>9. Reached(m + 1)
    BY <2>4, <2>7, <2>8
  <2> QED BY <2>2, <2>9
<1>3. \A m \in 0..N : m \in T
  <2> HIDE DEF T
  <2> QED BY <1>1, <1>2, BoundedInduction
<1>4. N \in T
  BY <1>3
<1> QED BY <1>4 DEF Reaches

LEMMA SumUnfolds ==
  ASSUME NEW numbers \in Seq(Int)
  PROVE  \E sum :
           /\ SumOf(numbers) = sum[Len(numbers)] /\ sum[0] = 0
           /\ \A k \in 1..Len(numbers) : sum[k] = sum[k - 1] + numbers[k]
<1> DEFINE N == Len(numbers)
           Unfolds(a) == a = [n \in 0..N |-> IF n = 0 THEN 0 ELSE a[n - 1] + numbers[n]]
           step == [s \in Int |-> [k \in 1..N |-> s + numbers[k]]]
<1>1. N \in Nat /\ \A k \in 1..N : numbers[k] \in Int
  BY ElementOfSeq
<1>2. \A s \in Int, k \in 1..N : step[s][k] = s + numbers[k] /\ step[s][k] \in Int
  BY <1>1
<1>3. PICK a : Reaches(a, N, Int, 0, step)
  <2>1. 0 \in Int
    OBVIOUS
  <2> HIDE DEF step, N
  <2> QED BY <1>1, <1>2, <2>1, Recursion
<1>4. \A k \in 1..N : k - 1 \in 0..N /\ a[k - 1] \in Int /\ step[a[k - 1]][k] = a[k - 1] + numbers[k]
  <2>1. \A k \in 1..N : k - 1 \in 0..N
    BY <1>1
  <2> QED BY <1>2, <1>3, <2>1 DEF Reaches
<1>5. Unfolds(a)
  <2> HIDE DEF N
  <2>1. \A n \in 0..N : a[n] = IF n = 0 THEN 0 ELSE a[n - 1] + numbers[n]
    <3>1. \A n \in 0..N : n = 0 \/ n \in 1..N
      BY <1>1
    <3> QED BY <1>3, <1>4, <3>1 DEF Reaches
  <2>2. a = [n \in 0..N |-> a[n]]
    BY <1>3 DEF Reaches
  <2> QED BY <2>1, <2>2
<1> DEFINE sum == CHOOSE x : Unfolds(x)
<1>6. Unfolds(sum)
  BY <1>5
<1>7. SumOf(numbers) = sum[N]
  BY DEF SumOf
<1>8. sum[0] = 0 /\ \A k \in 1..N : sum[k] = sum[k - 1] + numbers[k]
  <2> HIDE DEF sum, N
  <2>1. 0 \in 0..N /\ \A k \in 1..N : k \in 0..N /\ k # 0
    BY <1>1
  <2> QED BY <1>6, <2>1
<1> HIDE DEF sum
<1> QED BY <1>7, <1>8

(***************************************************************************)
(* Sums over intervals.                                                    *)
(***************************************************************************)
\* Intervals that follow each other, and what lies in the first m of them.
Follow(R) ==
  /\ \A k \in DOMAIN R : R[k].start <= R[k].end
  /\ \A k, l \in DOMAIN R : k < l => R[k].end <= R[l].start

Within(t, R, m) == \E k \in 1..m : R[k].start <= t /\ t < R[k].end

Spans(a, b) == [start : a..b, end : a..b]

LEMMA SpanFacts ==
  ASSUME NEW a \in Nat, NEW b \in Nat, NEW R \in Seq(Spans(a, b))
  PROVE  /\ DOMAIN R = 1..Len(R) /\ Len(R) \in Nat
         /\ \A k \in 1..Len(R) : /\ R[k] \in Spans(a, b) /\ R[k].start \in Nat /\ R[k].end \in Nat
                                 /\ a <= R[k].start /\ R[k].start <= b
                                 /\ a <= R[k].end /\ R[k].end <= b
<1>1. DOMAIN R = 1..Len(R) /\ Len(R) \in Nat /\ \A k \in 1..Len(R) : R[k] \in Spans(a, b)
  BY ElementOfSeq
<1>2. \A k \in 1..Len(R) : R[k].start \in a..b /\ R[k].end \in a..b
  BY <1>1 DEF Spans
<1> QED BY <1>1, <1>2

Counting(c, R, A) ==
  \A k \in 1..Len(R) : c[k] = Cardinality({t \in A : R[k].start <= t /\ t < R[k].end})

LEMMA SumCovers ==
  ASSUME NEW a \in Nat, NEW b \in Nat, NEW R \in Seq(Spans(a, b)), Follow(R),
         NEW A \in SUBSET (a..b), NEW c \in Seq(Int), Len(c) = Len(R),
         Counting(c, R, A)
  PROVE  SumOf(c) = Cardinality({t \in A : Within(t, R, Len(R))})
<1> DEFINE N == Len(R)
           Part(m) == {t \in A : Within(t, R, m)}
           Piece(k) == {t \in A : R[k].start <= t /\ t < R[k].end}
<1>1. /\ N \in Nat /\ DOMAIN R = 1..N
      /\ \A k \in 1..N : R[k].start \in Nat /\ R[k].end \in Nat
  BY SpanFacts
<1>2. PICK sum : /\ SumOf(c) = sum[N] /\ sum[0] = 0
                 /\ \A k \in 1..N : sum[k] = sum[k - 1] + c[k]
  BY SumUnfolds
<1>3. /\ \A m : IsFiniteSet(Part(m)) /\ Cardinality(Part(m)) \in Nat
      /\ \A k : IsFiniteSet(Piece(k)) /\ Cardinality(Piece(k)) \in Nat
      /\ \A t \in A : t \in Nat
  <2>1. IsFiniteSet(a..b)
    BY FS_Interval
  <2>2. \A m : Part(m) \in SUBSET (a..b) /\ Piece(m) \in SUBSET (a..b)
    OBVIOUS
  <2>3. \A t \in A : t \in Nat
    OBVIOUS
  <2> HIDE DEF Part, Piece
  <2> QED BY <2>1, <2>2, <2>3, FS_Subset, FS_CardinalityType
<1> DEFINE T == {m \in 0..N : sum[m] = Cardinality(Part(m))}
<1>4. 0 \in T
  <2>1. Part(0) = {}
    BY DEF Within
  <2>2. 0 \in 0..N
    BY <1>1
  <2> HIDE DEF Part
  <2> QED BY <1>2, <2>1, <2>2, FS_EmptySet
<1>5. ASSUME NEW m \in 0..N - 1, m \in T
      PROVE  m + 1 \in T
  <2>1. m + 1 \in 1..N /\ (m + 1) - 1 = m /\ m + 1 \in 0..N
    BY <1>1
  <2>2. Part(m + 1) = Part(m) \cup Piece(m + 1)
    <3>1. \A k : k \in 1..m + 1 <=> k \in 1..m \/ k = m + 1
      BY <1>1
    <3> QED BY <3>1 DEF Within
  <2>3. Part(m) \cap Piece(m + 1) = {}
    <3>1. ASSUME NEW t \in A, NEW k \in 1..m, t < R[k].end, R[m + 1].start <= t
          PROVE  FALSE
      <4>1. k \in 1..N /\ k < m + 1
        BY <1>1
      <4>2. R[k].end <= R[m + 1].start
        BY <1>1, <2>1, <4>1 DEF Follow
      <4>3. R[k].end \in Nat /\ R[m + 1].start \in Nat /\ t \in Nat
        BY <1>1, <1>3, <2>1, <4>1
      <4>4. \A x, y, z \in Nat : ~ (x < y /\ y <= z /\ z <= x)
        OBVIOUS
      <4> QED BY <3>1, <4>2, <4>3, <4>4
    <3> QED BY <3>1 DEF Within
  <2>4. sum[m + 1] = sum[m] + c[m + 1] /\ c[m + 1] = Cardinality(Piece(m + 1))
    BY <1>2, <2>1 DEF Counting
  <2>5. sum[m] = Cardinality(Part(m))
    BY <1>5
  <2>6. Cardinality(Part(m + 1)) = Cardinality(Part(m)) + Cardinality(Piece(m + 1))
    <3> HIDE DEF Part, Piece
    <3>1. Cardinality(Part(m) \cap Piece(m + 1)) = 0
      BY <2>3, FS_EmptySet
    <3>2. Cardinality(Part(m) \cup Piece(m + 1)) =
            Cardinality(Part(m)) + Cardinality(Piece(m + 1)) - Cardinality(Part(m) \cap Piece(m + 1))
      BY <1>3, FS_Union
    <3>3. Cardinality(Part(m)) \in Nat /\ Cardinality(Piece(m + 1)) \in Nat
      BY <1>3
    <3>4. \A x \in Nat, y \in Nat : x + y - 0 = x + y
      OBVIOUS
    <3>5. Cardinality(Part(m) \cup Piece(m + 1)) = Cardinality(Part(m)) + Cardinality(Piece(m + 1))
      BY <3>1, <3>2, <3>3, <3>4
    <3> QED BY <2>2, <3>5
  <2> HIDE DEF Part, Piece
  <2> QED BY <2>1, <2>4, <2>5, <2>6
<1>6. \A m \in 0..N : m \in T
  <2> HIDE DEF T, N
  <2> QED BY <1>1, <1>4, <1>5, BoundedInduction
<1>7. N \in T
  <2>1. N \in 0..N
    BY <1>1
  <2> HIDE DEF T, N
  <2> QED BY <1>6, <2>1
<1> QED BY <1>2, <1>7

(***************************************************************************)
(* The intervals in which a state lasts.                                   *)
(***************************************************************************)
Turns(e, types, from, to) == e.timestamp \in from..to /\ e.type \in types

\* What one event makes of the state and of the intervals so far.
Turned(s, e, from, to, on, off) ==
  CASE e.timestamp \in from..to /\ e.type \in on /\ ~s.holds ->
         [s EXCEPT !.holds = TRUE, !.start = e.timestamp]
    [] e.timestamp \in from..to /\ e.type \in off /\ s.holds ->
         [s EXCEPT !.holds = FALSE,
                   !.result = Append(@, [start |-> s.start, end |-> e.timestamp])]
    [] OTHER -> s

Lasting(from, to) == [holds : BOOLEAN, start : from..to, result : Seq(Spans(from, to))]

TurnedTo(r, s, e, from, to, on, off) ==
  /\ r \in Lasting(from, to)
  /\ Turns(e, on, from, to) /\ ~s.holds =>
       r.holds = TRUE /\ r.start = e.timestamp /\ r.result = s.result
  /\ Turns(e, off, from, to) /\ s.holds =>
       /\ r.holds = FALSE /\ r.start = s.start
       /\ r.result = Append(s.result, [start |-> s.start, end |-> e.timestamp])
  /\ ~ (Turns(e, on, from, to) /\ ~s.holds) /\ ~ (Turns(e, off, from, to) /\ s.holds) => r = s

LEMMA TurnedFacts ==
  ASSUME NEW from \in Nat, NEW to \in Nat, NEW s \in Lasting(from, to), NEW e, NEW on, NEW off
  PROVE  TurnedTo(Turned(s, e, from, to, on, off), s, e, from, to, on, off)
<1> DEFINE r == Turned(s, e, from, to, on, off)
<1>1. /\ s = [holds |-> s.holds, start |-> s.start, result |-> s.result]
      /\ s.holds \in BOOLEAN /\ s.start \in from..to /\ s.result \in Seq(Spans(from, to))
  BY DEF Lasting
<1>2. CASE Turns(e, on, from, to) /\ ~s.holds
  <2>1. r = [s EXCEPT !.holds = TRUE, !.start = e.timestamp] /\ e.timestamp \in from..to
    BY <1>2 DEF Turned, Turns
  <2>2. r = [holds |-> TRUE, start |-> e.timestamp, result |-> s.result]
    BY <1>1, <2>1
  <2> HIDE DEF r
  <2>3. r \in Lasting(from, to) /\ r.holds = TRUE /\ r.start = e.timestamp /\ r.result = s.result
    BY <1>1, <2>1, <2>2 DEF Lasting
  <2>4. TurnedTo(r, s, e, from, to, on, off)
    BY <1>2, <2>3 DEF TurnedTo
  <2> QED BY <2>4 DEF r
<1>3. CASE Turns(e, off, from, to) /\ s.holds
  <2> DEFINE more == Append(s.result, [start |-> s.start, end |-> e.timestamp])
  <2>1. r = [s EXCEPT !.holds = FALSE, !.result = more] /\ e.timestamp \in from..to
    BY <1>3 DEF Turned, Turns
  <2>2. more \in Seq(Spans(from, to))
    <3>1. [start |-> s.start, end |-> e.timestamp] \in Spans(from, to)
      BY <1>1, <2>1 DEF Spans
    <3> QED BY <1>1, <3>1
  <2> HIDE DEF r, more
  <2>3. r = [holds |-> FALSE, start |-> s.start, result |-> more]
    BY <1>1, <2>1
  <2>4. r \in Lasting(from, to) /\ r.holds = FALSE /\ r.start = s.start /\ r.result = more
    BY <1>1, <2>2, <2>3 DEF Lasting
  <2>5. TurnedTo(r, s, e, from, to, on, off)
    BY <1>3, <2>4 DEF TurnedTo, more
  <2> QED BY <2>5 DEF r
<1>4. CASE ~ (Turns(e, on, from, to) /\ ~s.holds) /\ ~ (Turns(e, off, from, to) /\ s.holds)
  <2>1. r = s
    BY <1>4 DEF Turned, Turns
  <2> HIDE DEF r
  <2>2. r \in Lasting(from, to)
    BY <2>1
  <2>3. TurnedTo(r, s, e, from, to, on, off)
    BY <1>4, <2>1, <2>2 DEF TurnedTo
  <2> QED BY <2>3 DEF r
<1> QED BY <1>2, <1>3, <1>4

Unfolded(after, from, to, holds, on, off) ==
  /\ \A k \in 0..Len(AllEvents) : after[k] \in Lasting(from, to)
  /\ after[0] = [holds |-> holds, start |-> from, result |-> <<>>]
  /\ \A k \in 1..Len(AllEvents) :
       after[k] = Turned(after[k - 1], AllEvents[k], from, to, on, off)
  /\ Intervals(from, to, holds, on, off) =
       IF after[Len(AllEvents)].holds
       THEN Append(after[Len(AllEvents)].result,
                   [start |-> after[Len(AllEvents)].start, end |-> to])
       ELSE after[Len(AllEvents)].result

LEMMA IntervalsUnfold ==
  ASSUME IInv, NEW from \in Nat, NEW to \in Nat, from <= to, NEW holds \in BOOLEAN, NEW on, NEW off
  PROVE  \E after : Unfolded(after, from, to, holds, on, off)
<1> DEFINE E == AllEvents
           N == Len(E)
           S == Lasting(from, to)
           base == [holds |-> holds, start |-> from, result |-> <<>>]
           Step(s, e) ==
             CASE e.timestamp \in from..to /\ e.type \in on /\ ~s.holds ->
                    [s EXCEPT !.holds = TRUE, !.start = e.timestamp]
               [] e.timestamp \in from..to /\ e.type \in off /\ s.holds ->
                    [s EXCEPT !.holds = FALSE,
                              !.result = Append(@, [start |-> s.start, end |-> e.timestamp])]
               [] OTHER -> s
           Unfolds(a) == a = [n \in 0..N |-> IF n = 0 THEN base ELSE Step(a[n - 1], E[n])]
           step == [s \in S |-> [k \in 1..N |-> Turned(s, E[k], from, to, on, off)]]
<1>1. N \in Nat /\ base \in S
  BY EntriesOrdered DEF Lasting
<1>2. \A s \in S : \A k \in 1..N :
        step[s][k] = Turned(s, E[k], from, to, on, off) /\ step[s][k] \in S
  BY TurnedFacts DEF TurnedTo
<1>3. PICK a : Reaches(a, N, S, base, step)
  <2> HIDE DEF step, N, S, base
  <2> QED BY <1>1, <1>2, Recursion
<1>4. \A k \in 1..N : k - 1 \in 0..N /\ k \in 0..N /\ k # 0
  BY <1>1
<1>5. \A k \in 0..N : a[k] \in S
  BY <1>3 DEF Reaches
<1>6. \A k \in 1..N : a[k] = Turned(a[k - 1], E[k], from, to, on, off)
  <2> HIDE DEF step, N, S, base
  <2> QED BY <1>2, <1>3, <1>4, <1>5 DEF Reaches
<1>7. \A s, e : Step(s, e) = Turned(s, e, from, to, on, off)
  BY DEF Turned
<1> HIDE DEF Step
<1>8. Unfolds(a)
  <2> HIDE DEF N, S, base, step
  <2>1. \A n \in 0..N : a[n] = IF n = 0 THEN base ELSE Step(a[n - 1], E[n])
    <3>1. \A n \in 0..N : n = 0 \/ n \in 1..N
      BY <1>1
    <3> QED BY <1>3, <1>6, <1>7, <3>1 DEF Reaches
  <2>2. a = [n \in 0..N |-> a[n]]
    BY <1>3 DEF Reaches
  <2> QED BY <2>1, <2>2
<1> DEFINE after == CHOOSE x : Unfolds(x)
<1>9. Unfolds(after)
  BY <1>8
<1>10. Intervals(from, to, holds, on, off) =
         IF after[N].holds THEN Append(after[N].result, [start |-> after[N].start, end |-> to])
         ELSE after[N].result
  BY DEF Intervals, Step
<1>11. after[0] = base /\ \A k \in 1..N : after[k] = Turned(after[k - 1], E[k], from, to, on, off)
  <2> HIDE DEF after, N, base
  <2>1. 0 \in 0..N
    BY <1>1
  <2> QED BY <1>4, <1>7, <1>9, <2>1
<1>12. \A k \in 0..N : after[k] \in S
  <2> DEFINE T == {k \in 0..N : after[k] \in S}
  <2>1. 0 \in T
    <3> HIDE DEF after, N, S, base
    <3> QED BY <1>1, <1>11
  <2>2. ASSUME NEW k \in 0..N - 1, k \in T
        PROVE  k + 1 \in T
    <3>1. k + 1 \in 1..N /\ (k + 1) - 1 = k /\ k + 1 \in 0..N
      BY <1>1
    <3>2. after[k + 1] = Turned(after[k], E[k + 1], from, to, on, off)
      BY <1>11, <3>1
    <3>3. after[k] \in S
      BY <2>2
    <3> HIDE DEF after, N
    <3>4. \A s \in S : \A e : Turned(s, e, from, to, on, off) \in S
      BY TurnedFacts DEF TurnedTo
    <3>5. after[k + 1] \in S
      BY <3>2, <3>3, <3>4
    <3> QED BY <3>1, <3>5
  <2>3. \A k \in 0..N : k \in T
    <3> HIDE DEF T, N
    <3> QED BY <1>1, <2>1, <2>2, BoundedInduction
  <2> QED BY <2>3
<1> HIDE DEF after
<1> QED BY <1>10, <1>11, <1>12 DEF Unfolded

\* Intervals within from..u that are just the ticks of H before u.
Covers(R, from, u, H) ==
  /\ R \in Seq(Spans(from, u)) /\ Follow(R)
  /\ \A t \in from..u - 1 : t \in H <=> Within(t, R, Len(R))

LEMMA AppendedSpan ==
  ASSUME NEW T, NEW R \in Seq(T), NEW p \in T
  PROVE  /\ \A t : Within(t, Append(R, p), Len(Append(R, p))) <=>
                     Within(t, R, Len(R)) \/ (p.start <= t /\ t < p.end)
         /\ Follow(Append(R, p)) <=>
              /\ Follow(R) /\ p.start <= p.end
              /\ \A k \in 1..Len(R) : R[k].end <= p.start
<1> DEFINE A == Append(R, p)
           n == Len(R)
<1>1. /\ n \in Nat /\ DOMAIN R = 1..n /\ DOMAIN A = 1..n + 1 /\ Len(A) = n + 1 /\ A[n + 1] = p
      /\ \A i \in 1..n : A[i] = R[i]
  BY AppendFacts
<1>2. \A i : i \in 1..n + 1 <=> i \in 1..n \/ i = n + 1
  BY <1>1
<1>3. \A i \in 1..n : i < n + 1 /\ ~ (n + 1 < i)
  BY <1>1
<1> HIDE DEF A, n
<1>4. ASSUME NEW t
      PROVE  Within(t, A, n + 1) <=> Within(t, R, n) \/ (p.start <= t /\ t < p.end)
  BY <1>1, <1>2 DEF Within
<1>5. ASSUME Follow(A)
      PROVE  Follow(R) /\ p.start <= p.end /\ \A k \in 1..n : R[k].end <= p.start
  BY <1>1, <1>2, <1>3, <1>5 DEF Follow
<1>6. ASSUME Follow(R), p.start <= p.end, \A k \in 1..n : R[k].end <= p.start
      PROVE  Follow(A)
  <2>1. \A k \in DOMAIN A : A[k].start <= A[k].end
    BY <1>1, <1>2, <1>6 DEF Follow
  <2>2. ASSUME NEW k \in DOMAIN A, NEW l \in DOMAIN A, k < l
        PROVE  A[k].end <= A[l].start
    <3>1. CASE l = n + 1
      <4>1. k \in 1..n
        BY <1>1, <2>2, <3>1
      <4> QED BY <1>1, <1>6, <3>1, <4>1
    <3>2. CASE l \in 1..n
      <4>1. k \in 1..n
        BY <1>1, <1>2, <1>3, <2>2, <3>2
      <4> QED BY <1>1, <1>6, <2>2, <3>2, <4>1 DEF Follow
    <3> QED BY <1>1, <1>2, <3>1, <3>2
  <2> QED BY <2>1, <2>2 DEF Follow
<1> QED BY <1>1, <1>4, <1>5, <1>6 DEF A, n

LEMMA CoverSame ==
  ASSUME NEW from \in Nat, NEW v \in Nat, NEW u \in Nat, from <= v, v <= u, NEW H, NEW R,
         Covers(R, from, v, H), \A t \in v..u - 1 : t \notin H
  PROVE  Covers(R, from, u, H)
<1>1. R \in Seq(Spans(from, v)) /\ Follow(R)
  BY DEF Covers
<1>2. /\ Len(R) \in Nat
      /\ \A k \in 1..Len(R) : R[k] \in Spans(from, v) /\ R[k].end \in Nat /\ R[k].end <= v
  BY <1>1, SpanFacts
<1>3. Spans(from, v) \subseteq Spans(from, u)
  <2>1. from..v \subseteq from..u
    OBVIOUS
  <2> QED BY <2>1 DEF Spans
<1>4. R \in Seq(Spans(from, u))
  BY <1>1, <1>3, SeqMonotonic
<1>5. ASSUME NEW t \in from..u - 1
      PROVE  t \in H <=> Within(t, R, Len(R))
  <2>1. t \in from..v - 1 \/ t \in v..u - 1
    OBVIOUS
  <2>2. CASE t \in v..u - 1
    <3>1. \A k \in 1..Len(R) : ~ (t < R[k].end)
      BY <1>2, <2>2
    <3> QED BY <2>2, <3>1 DEF Within
  <2> QED BY <2>1, <2>2 DEF Covers
<1> QED BY <1>1, <1>4, <1>5 DEF Covers

LEMMA CoverLonger ==
  ASSUME NEW from \in Nat, NEW v \in Nat, NEW u \in Nat, from <= v, v <= u, NEW H, NEW R,
         Covers(R, from, v, H), \A t \in v..u - 1 : t \in H
  PROVE  Covers(Append(R, [start |-> v, end |-> u]), from, u, H)
<1> DEFINE p == [start |-> v, end |-> u]
           A == Append(R, p)
<1>1. R \in Seq(Spans(from, v)) /\ Follow(R)
  BY DEF Covers
<1>2. /\ Len(R) \in Nat
      /\ \A k \in 1..Len(R) : R[k].end \in Nat /\ R[k].end <= v
  BY <1>1, SpanFacts
<1>3. Spans(from, v) \subseteq Spans(from, u)
  <2>1. from..v \subseteq from..u
    OBVIOUS
  <2> QED BY <2>1 DEF Spans
<1>4. R \in Seq(Spans(from, u))
  BY <1>1, <1>3, SeqMonotonic
<1>5. p \in Spans(from, u) /\ p.start = v /\ p.end = u
  BY DEF Spans
<1> HIDE DEF p
<1>6. A \in Seq(Spans(from, u)) /\ Follow(A)
  BY <1>1, <1>2, <1>4, <1>5, AppendedSpan
<1>7. ASSUME NEW t \in from..u - 1
      PROVE  t \in H <=> Within(t, A, Len(A))
  <2>1. t \in from..v - 1 \/ t \in v..u - 1
    OBVIOUS
  <2>2. CASE t \in v..u - 1
    <3>1. v <= t /\ t < u
      BY <2>2
    <3> QED BY <1>4, <1>5, <2>2, <3>1, AppendedSpan
  <2>3. CASE t \in from..v - 1
    <3>1. ~ (v <= t)
      BY <2>3
    <3>2. t \in H <=> Within(t, R, Len(R))
      BY <2>3 DEF Covers
    <3> QED BY <1>4, <1>5, <3>1, <3>2, AppendedSpan
  <2> QED BY <2>1, <2>2, <2>3
<1> QED BY <1>6, <1>7 DEF Covers, p

LEMMA CoverStretched ==
  ASSUME NEW from \in Nat, NEW v \in Nat, NEW u \in Nat, from <= v, v <= u, NEW H,
         NEW to, NEW R \in Seq(Spans(from, to)), NEW s \in from..v,
         Covers(Append(R, [start |-> s, end |-> v]), from, v, H), \A t \in v..u - 1 : t \in H,
         u <= to, to \in Nat
  PROVE  Covers(Append(R, [start |-> s, end |-> u]), from, u, H)
<1> DEFINE p == [start |-> s, end |-> v]
           q == [start |-> s, end |-> u]
           A == Append(R, q)
<1>1. /\ p \in Spans(from, to) /\ q \in Spans(from, to) /\ q \in Spans(from, u)
      /\ p.start = s /\ p.end = v /\ q.start = s /\ q.end = u /\ s \in Nat /\ s <= v
  <2>1. s \in from..to /\ v \in from..to /\ u \in from..to /\ s \in from..u /\ u \in from..u
    OBVIOUS
  <2> QED BY <2>1 DEF Spans
<1> HIDE DEF p, q
<1>2. Follow(Append(R, p)) /\ Append(R, p) \in Seq(Spans(from, v))
  BY DEF Covers, p
<1>3. Follow(R) /\ \A k \in 1..Len(R) : R[k].end <= s
  BY <1>1, <1>2, AppendedSpan
<1>4. R \in Seq(Spans(from, u))
  <2>1. /\ Len(R) \in Nat /\ R = [k \in 1..Len(R) |-> R[k]]
    OBVIOUS
  <2>2. \A k \in 1..Len(R) : R[k] \in Spans(from, u)
    <3>1. \A k \in 1..Len(R) : R[k] = Append(R, p)[k] /\ k \in 1..Len(Append(R, p))
      BY <1>1, AppendFacts
    <3>2. \A k \in 1..Len(Append(R, p)) : Append(R, p)[k] \in Spans(from, v)
      BY <1>2, ElementOfSeq
    <3>3. Spans(from, v) \subseteq Spans(from, u)
      <4>1. from..v \subseteq from..u
        OBVIOUS
      <4> QED BY <4>1 DEF Spans
    <3> QED BY <3>1, <3>2, <3>3
  <2> QED BY <2>1, <2>2, IsASeq
<1>5. A \in Seq(Spans(from, u)) /\ Follow(A)
  <2>1. s <= u
    BY <1>1
  <2> QED BY <1>1, <1>3, <1>4, <2>1, AppendedSpan
<1>6. ASSUME NEW t \in from..u - 1
      PROVE  t \in H <=> Within(t, A, Len(A))
  <2>1. t \in from..v - 1 \/ t \in v..u - 1
    OBVIOUS
  <2>2. CASE t \in v..u - 1
    <3>1. s <= t /\ t < u
      BY <1>1, <2>2
    <3> QED BY <1>1, <1>4, <2>2, <3>1, AppendedSpan
  <2>3. CASE t \in from..v - 1
    <3>1. (t < v) /\ (t < u)
      BY <2>3
    <3>2. t \in H <=> Within(t, Append(R, p), Len(Append(R, p)))
      BY <2>3 DEF Covers, p
    <3> QED BY <1>1, <1>4, <3>1, <3>2, AppendedSpan
  <2> QED BY <2>1, <2>2, <2>3
<1> QED BY <1>5, <1>6 DEF Covers, q

\* The intervals are the ticks of H, when the latest event tells of each tick whether
\* it is one, and before the first it is as it holds at first.
Closed(s, u) == IF s.holds THEN Append(s.result, [start |-> s.start, end |-> u]) ELSE s.result

Follows(events, k, u, types, from, to) ==
  \A j \in DOMAIN events : Turns(events[j], types, from, to) =>
    /\ j <= k => events[j].timestamp <= u
    /\ j > k => u <= events[j].timestamp

LatestTells(from, to, on, off, H) ==
  \A t \in from..to - 1 : \A j \in DOMAIN AllEvents :
    Latest(AllEvents, j, t, on \cup off) /\ from <= AllEvents[j].timestamp =>
      (t \in H <=> AllEvents[j].type \in on)

FirstTells(from, to, holds, on, off, H) ==
  \A t \in from..to - 1 :
    (\A j \in DOMAIN AllEvents :
       AllEvents[j].type \in on \cup off /\ from <= AllEvents[j].timestamp =>
         t < AllEvents[j].timestamp)
    => (t \in H <=> holds)

LEMMA CoverTurned ==
  ASSUME NEW from \in Nat, NEW to \in Nat, NEW s \in Lasting(from, to), NEW e, NEW on, NEW off,
         NEW H, NEW u \in from..to, Turns(e, on \cup off, from, to), e.timestamp <= u,
         on \cap off = {},
         Covers(Closed(s, e.timestamp), from, e.timestamp, H),
         \A t \in e.timestamp..u - 1 : t \in H <=> e.type \in on
  PROVE  Covers(Closed(Turned(s, e, from, to, on, off), u), from, u, H)
<1> DEFINE v == e.timestamp
           r == Turned(s, e, from, to, on, off)
<1>1. /\ v \in Nat /\ from <= v /\ v <= u /\ u \in Nat /\ u <= to
      /\ s.holds \in BOOLEAN /\ s.result \in Seq(Spans(from, to)) /\ v \in from..to
  BY DEF Turns, Lasting
<1>2. /\ Turns(e, on, from, to) /\ ~s.holds => r.holds = TRUE /\ r.start = v /\ r.result = s.result
      /\ Turns(e, off, from, to) /\ s.holds =>
           /\ r.holds = FALSE /\ r.result = Append(s.result, [start |-> s.start, end |-> v])
      /\ ~ (Turns(e, on, from, to) /\ ~s.holds) /\ ~ (Turns(e, off, from, to) /\ s.holds) => r = s
  <2>1. TurnedTo(r, s, e, from, to, on, off)
    BY TurnedFacts
  <2> HIDE DEF r
  <2> QED BY <2>1 DEF TurnedTo
<1>3. CASE e.type \in on
  <2>1. Turns(e, on, from, to) /\ ~ Turns(e, off, from, to)
    BY <1>3 DEF Turns
  <2>2. \A t \in v..u - 1 : t \in H
    BY <1>3
  <2>3. CASE s.holds
    <3>1. r = s /\ Closed(s, v) = Append(s.result, [start |-> s.start, end |-> v])
          /\ Closed(s, u) = Append(s.result, [start |-> s.start, end |-> u])
      BY <1>2, <2>1, <2>3 DEF Closed
    <3>2. s.start \in from..v
      <4> DEFINE p == [start |-> s.start, end |-> v]
                 A == Append(s.result, p)
      <4>1. p \in Spans(from, to)
        BY <1>1 DEF Spans, Lasting
      <4>2. Len(A) \in 1..Len(A) /\ A[Len(A)] = p
        BY <1>1, <4>1
      <4>3. A \in Seq(Spans(from, v))
        BY <3>1 DEF Covers
      <4> HIDE DEF A, p
      <4>4. p \in Spans(from, v)
        BY <4>2, <4>3, ElementOfSeq
      <4> QED BY <4>4 DEF p, Spans
    <3> HIDE DEF r, v
    <3> QED BY <1>1, <2>2, <3>1, <3>2, CoverStretched DEF v, r
  <2>4. CASE ~s.holds
    <3>1. Closed(s, v) = s.result /\ Closed(r, u) = Append(s.result, [start |-> v, end |-> u])
      BY <1>2, <2>1, <2>4 DEF Closed
    <3> HIDE DEF r, v
    <3> QED BY <1>1, <2>2, <3>1, CoverLonger DEF r, v
  <2> QED BY <1>1, <2>3, <2>4
<1>4. CASE e.type \notin on
  <2>1. ~ Turns(e, on, from, to) /\ Turns(e, off, from, to)
    BY <1>4 DEF Turns
  <2>2. \A t \in v..u - 1 : t \notin H
    BY <1>4
  <2>3. Closed(r, u) = Closed(s, v)
    BY <1>1, <1>2, <2>1 DEF Closed
  <2> HIDE DEF r, v
  <2> QED BY <1>1, <2>2, <2>3, CoverSame DEF r, v
<1> QED BY <1>3, <1>4

LEMMA IntervalsCover ==
  ASSUME IInv, NEW from \in Nat, NEW to \in Nat, from <= to, NEW holds \in BOOLEAN,
         NEW on, NEW off, on \cap off = {}, NEW H,
         LatestTells(from, to, on, off, H), FirstTells(from, to, holds, on, off, H)
  PROVE  Covers(Intervals(from, to, holds, on, off), from, to, H)
<1> DEFINE E == AllEvents
           N == Len(E)
           types == on \cup off
<1>1. /\ N \in Nat /\ DOMAIN E = 1..N /\ \A j \in DOMAIN E : E[j].timestamp \in Nat
      /\ \A i, j \in DOMAIN E : i <= j => E[i].timestamp <= E[j].timestamp
  BY EntriesOrdered DEF Ordered
<1>2. PICK after :
        /\ \A k \in 0..N : after[k] \in Lasting(from, to)
        /\ after[0] = [holds |-> holds, start |-> from, result |-> <<>>]
        /\ \A k \in 1..N : after[k] = Turned(after[k - 1], E[k], from, to, on, off)
        /\ Intervals(from, to, holds, on, off) =
             IF after[N].holds
             THEN Append(after[N].result, [start |-> after[N].start, end |-> to])
             ELSE after[N].result
  <2>1. PICK after : Unfolded(after, from, to, holds, on, off)
    BY IntervalsUnfold
  <2> QED BY <2>1 DEF Unfolded
<1> HIDE DEF E, N
<1> DEFINE Good(k) == \A u \in from..to :
             Follows(E, k, u, types, from, to) => Covers(Closed(after[k], u), from, u, H)
           T == {k \in 0..N : Good(k)}
<1>3. 0 \in T
  <2>1. ASSUME NEW u \in from..to, Follows(E, 0, u, types, from, to)
        PROVE  Covers(Closed(after[0], u), from, u, H)
    <3>1. Covers(<<>>, from, from, H)
      BY DEF Covers, Follow
    <3>2. ASSUME NEW t \in from..u - 1
          PROVE  t \in H <=> holds
      <4>1. t \in from..to - 1 /\ t \in Nat /\ t < u /\ u <= to /\ u \in Nat
        OBVIOUS
      <4>2. ASSUME NEW j \in DOMAIN E, E[j].type \in types, from <= E[j].timestamp
            PROVE  t < E[j].timestamp
        <5>1. E[j].timestamp \in Nat /\ j > 0
          BY <1>1
        <5>2. CASE E[j].timestamp <= to
          <6>1. Turns(E[j], types, from, to)
            BY <4>2, <5>1, <5>2 DEF Turns
          <6>2. u <= E[j].timestamp
            BY <2>1, <5>1, <6>1 DEF Follows
          <6> QED BY <4>1, <5>1, <6>2
        <5>3. CASE ~ (E[j].timestamp <= to)
          BY <4>1, <5>1, <5>3
        <5> QED BY <5>2, <5>3
      <4> QED BY <4>1, <4>2 DEF FirstTells, E
    <3>3. u \in Nat /\ from <= u /\ from <= from
      OBVIOUS
    <3>4. CASE holds
      <4>1. Closed(after[0], u) = Append(<<>>, [start |-> from, end |-> u])
        BY <1>2, <3>4 DEF Closed
      <4>2. \A t \in from..u - 1 : t \in H
        BY <3>2, <3>4
      <4> QED BY <3>1, <3>3, <4>1, <4>2, CoverLonger
    <3>5. CASE ~holds
      <4>1. Closed(after[0], u) = <<>>
        BY <1>2, <3>5 DEF Closed
      <4>2. \A t \in from..u - 1 : t \notin H
        BY <3>2, <3>5
      <4> QED BY <3>1, <3>3, <4>1, <4>2, CoverSame
    <3> QED BY <3>4, <3>5
  <2>2. 0 \in 0..N
    BY <1>1
  <2> QED BY <2>1, <2>2
<1>4. ASSUME NEW k \in 0..N - 1, k \in T
      PROVE  k + 1 \in T
  <2> DEFINE e == E[k + 1]
             v == e.timestamp
  <2>1. /\ k + 1 \in 1..N /\ (k + 1) - 1 = k /\ k + 1 \in 0..N /\ k \in 0..N /\ k \in Nat
        /\ k + 1 \in DOMAIN E /\ v \in Nat
    BY <1>1
  <2>2. /\ after[k + 1] = Turned(after[k], e, from, to, on, off)
        /\ after[k] \in Lasting(from, to)
    BY <1>2, <2>1
  <2>3. Good(k)
    BY <1>4
  <2>4. \A j \in DOMAIN E : j \in Nat
    BY <1>1
  <2>5. ASSUME NEW u \in from..to, Follows(E, k + 1, u, types, from, to)
        PROVE  Covers(Closed(after[k + 1], u), from, u, H)
    <3>1. CASE ~ Turns(e, types, from, to)
      <4>1. after[k + 1] = after[k]
        <5>1. ~ Turns(e, on, from, to) /\ ~ Turns(e, off, from, to)
          BY <3>1 DEF Turns
        <5>2. Turned(after[k], e, from, to, on, off) = after[k]
          <6>1. TurnedTo(Turned(after[k], e, from, to, on, off), after[k], e, from, to, on, off)
            BY <2>2, TurnedFacts
          <6> QED BY <5>1, <6>1 DEF TurnedTo
        <5> QED BY <2>2, <5>2
      <4>2. Follows(E, k, u, types, from, to)
        <5>1. \A j \in DOMAIN E : (j <= k => j <= k + 1) /\ (j > k => j = k + 1 \/ j > k + 1)
          BY <2>1, <2>4
        <5> HIDE DEF types
        <5> QED BY <2>5, <3>1, <5>1 DEF Follows
      <4> QED BY <2>3, <4>1, <4>2
    <3>2. CASE Turns(e, types, from, to)
      <4>1. v \in from..to /\ v <= u
        <5>1. k + 1 <= k + 1
          BY <2>1
        <5> QED BY <2>1, <2>5, <3>2, <5>1 DEF Turns, Follows
      <4>2. Follows(E, k, v, types, from, to)
        <5>1. \A j \in DOMAIN E : (j <= k => j <= k + 1) /\ (j > k => k + 1 <= j)
          BY <2>1, <2>4
        <5> QED BY <1>1, <2>1, <5>1 DEF Follows
      <4>3. Covers(Closed(after[k], v), from, v, H)
        <5> HIDE DEF v
        <5> QED BY <2>3, <4>1, <4>2
      <4>4. ASSUME NEW t \in v..u - 1
            PROVE  t \in H <=> e.type \in on
        <5>1. t \in Nat /\ v <= t /\ t < u /\ u <= to /\ u \in Nat /\ from <= v /\ t \in from..to - 1
          BY <2>1, <4>1
        <5>2. ASSUME NEW j \in DOMAIN E, j > k + 1, E[j].type \in types
              PROVE  E[j].timestamp > t
          <6>1. v <= E[j].timestamp /\ E[j].timestamp \in Nat
            <7>1. k + 1 <= j
              BY <2>1, <2>4, <5>2
            <7> QED BY <1>1, <2>1, <7>1
          <6>2. from <= E[j].timestamp
            BY <2>1, <5>1, <6>1
          <6>3. CASE E[j].timestamp <= to
            <7>1. Turns(E[j], types, from, to)
              BY <5>2, <6>1, <6>2, <6>3 DEF Turns
            <7>2. u <= E[j].timestamp
              BY <2>5, <5>2, <7>1 DEF Follows
            <7> QED BY <5>1, <6>1, <7>2
          <6>4. CASE ~ (E[j].timestamp <= to)
            BY <5>1, <6>1, <6>4
          <6> QED BY <6>3, <6>4
        <5>3. Latest(E, k + 1, t, types)
          BY <3>2, <5>1, <5>2 DEF Latest, Turns
        <5> QED BY <2>1, <5>1, <5>3 DEF LatestTells, E
      <4>5. Covers(Closed(Turned(after[k], e, from, to, on, off), u), from, u, H)
        <5> HIDE DEF e
        <5> QED BY <2>2, <3>2, <4>1, <4>3, <4>4, CoverTurned
      <4> QED BY <2>2, <4>5
    <3> QED BY <3>1, <3>2
  <2> QED BY <2>1, <2>5
<1>5. N \in T
  <2>1. \A k \in 0..N : k \in T
    <3> HIDE DEF T
    <3> QED BY <1>1, <1>3, <1>4, BoundedInduction
  <2>2. N \in 0..N
    BY <1>1
  <2> HIDE DEF T
  <2> QED BY <2>1, <2>2
<1>6. Follows(E, N, to, types, from, to) /\ to \in from..to
  <2>1. \A j \in DOMAIN E : ~ (j > N)
    BY <1>1
  <2>2. \A j \in DOMAIN E : Turns(E[j], types, from, to) => E[j].timestamp <= to
    BY <1>1 DEF Turns
  <2> QED BY <2>1, <2>2 DEF Follows
<1>7. Closed(after[N], to) = Intervals(from, to, holds, on, off)
  BY <1>2 DEF Closed
<1> QED BY <1>5, <1>6, <1>7

LEMMA TotalCovered ==
  ASSUME NEW from \in Nat, NEW to \in Nat, NEW R, NEW H, Covers(R, from, to, H)
  PROVE  Total(R) = Cardinality({t \in from..to - 1 : t \in H})
<1> DEFINE A == from..to - 1
           c == [k \in DOMAIN R |-> R[k].end - R[k].start]
<1>1. /\ R \in Seq(Spans(from, to)) /\ Follow(R)
      /\ \A t \in A : t \in H <=> Within(t, R, Len(R))
  BY DEF Covers
<1>2. /\ DOMAIN R = 1..Len(R) /\ Len(R) \in Nat
      /\ \A k \in 1..Len(R) : /\ R[k].start \in Nat /\ R[k].end \in Nat
                              /\ from <= R[k].start /\ R[k].end <= to
  BY <1>1, SpanFacts
<1>3. c \in Seq(Int) /\ Len(c) = Len(R) /\ \A k \in 1..Len(R) : c[k] = R[k].end - R[k].start
  <2>1. c = [k \in 1..Len(R) |-> c[k]] /\ \A k \in 1..Len(R) : c[k] = R[k].end - R[k].start
    BY <1>2
  <2>2. \A k \in 1..Len(R) : c[k] \in Int
    BY <1>2
  <2> HIDE DEF c
  <2>3. c \in Seq(Int)
    BY <1>2, <2>1, <2>2, IsASeq
  <2>4. DOMAIN c = 1..Len(R)
    BY <2>1
  <2>5. Len(c) = Len(R)
    BY <1>2, <2>3, <2>4, LenProperties
  <2> QED BY <2>1, <2>3, <2>5
<1>4. A \in SUBSET (from..to)
  OBVIOUS
<1>5. ASSUME NEW k \in 1..Len(R)
      PROVE  c[k] = Cardinality({t \in A : R[k].start <= t /\ t < R[k].end})
  <2> DEFINE s == R[k].start
             e == R[k].end
  <2>1. s \in Nat /\ e \in Nat /\ from <= s /\ e <= to /\ s <= e
    BY <1>1, <1>2 DEF Follow
  <2> HIDE DEF s, e
  <2>2. {t \in A : s <= t /\ t < e} = s..e - 1
    BY <2>1
  <2>3. Cardinality(s..e - 1) = e - s
    <3>1. s \in Int /\ e - 1 \in Int /\ (s <= e - 1 => (e - 1) - s + 1 = e - s)
          /\ (~ (s <= e - 1) => e - s = 0)
      BY <2>1
    <3>2. Cardinality(s..e - 1) = IF s > e - 1 THEN 0 ELSE (e - 1) - s + 1
      BY <3>1, FS_Interval
    <3> QED BY <3>1, <3>2
  <2> QED BY <1>3, <2>2, <2>3 DEF s, e
<1>6. SumOf(c) = Cardinality({t \in A : Within(t, R, Len(R))})
  <2> HIDE DEF c
  <2>1. Counting(c, R, A)
    BY <1>5 DEF Counting
  <2>2. R \in Seq(Spans(from, to)) /\ Follow(R) /\ c \in Seq(Int) /\ Len(c) = Len(R)
    BY <1>1, <1>3
  <2> HIDE DEF A
  <2> QED BY <1>4, <2>1, <2>2, SumCovers
<1>7. {t \in A : Within(t, R, Len(R))} = {t \in A : t \in H}
  BY <1>1
<1>8. Total(R) = SumOf(c)
  BY DEF Total
<1> QED BY <1>6, <1>7, <1>8

\* The state before a window is that of its ticks before the first event in it.
LEMMA StateTells ==
  ASSUME IInv, NEW from \in Nat, NEW on, NEW off, NEW G,
         \A t \in from..now - 1 : \A j \in DOMAIN AllEvents :
           Latest(AllEvents, j, t, on \cup off) => (t \in G <=> AllEvents[j].type \in on),
         \A t \in from..now - 1 : NoneTold(AllEvents, t, on \cup off) =>
           /\ t \in G
           /\ \A m \in DOMAIN AllEvents :
                /\ AllEvents[m].type \in on \cup off
                /\ \A i \in DOMAIN AllEvents : AllEvents[i].type \in on \cup off => m <= i
                => AllEvents[m].type \in off,
         NEW t \in from..now - 1,
         \A j \in DOMAIN AllEvents :
           AllEvents[j].type \in on \cup off /\ from <= AllEvents[j].timestamp =>
             t < AllEvents[j].timestamp
  PROVE  t \in G <=> StateBefore(from, on, off)
<1> DEFINE E == AllEvents
           types == on \cup off
           told == Told(types)
           past == {i \in told : E[i].timestamp < from}
<1>1. /\ DOMAIN E = 1..Len(E) /\ Len(E) \in Nat /\ now \in Nat
      /\ \A j \in DOMAIN E : E[j].timestamp \in Nat
  BY EntriesOrdered
<1>2. told = {i \in DOMAIN E : E[i].type \in types}
  BY DEF Told
<1>3. StateBefore(from, on, off) =
        CASE past # {} -> E[Max(past)].type \in on
          [] past = {} /\ told # {} -> E[Min(told)].type \in off
          [] OTHER -> TRUE
  BY DEF StateBefore
<1>4. t \in Nat /\ from <= t
  OBVIOUS
<1> HIDE DEF told, E
<1>5. CASE past # {}
  <2> DEFINE m == Max(past)
  <2>1. m \in past /\ \A i \in past : i <= m
    <3>1. past \in SUBSET (0..Len(E))
      BY <1>1, <1>2
    <3> HIDE DEF past
    <3> QED BY <1>1, <1>5, <3>1, MaxFacts
  <2>2. StateBefore(from, on, off) = (E[m].type \in on)
    BY <1>3, <1>5
  <2> HIDE DEF m
  <2>3. m \in DOMAIN E /\ E[m].type \in types /\ E[m].timestamp < from
    BY <1>2, <2>1
  <2>4. ASSUME NEW k \in DOMAIN E, k > m, E[k].type \in types
        PROVE  E[k].timestamp > t
    <3>1. k \notin past
      BY <1>1, <2>1, <2>3, <2>4
    <3>2. ~ (E[k].timestamp < from)
      BY <1>2, <2>4, <3>1
    <3>3. from <= E[k].timestamp
      BY <1>1, <3>2
    <3>4. t < E[k].timestamp
      BY <2>4, <3>3 DEF E
    <3> QED BY <3>4, <1>1, <1>4
  <2>5. Latest(E, m, t, types)
    <3>1. E[m].timestamp <= t
      BY <1>1, <1>4, <2>3
    <3> QED BY <2>3, <2>4, <3>1 DEF Latest
  <2> QED BY <2>2, <2>3, <2>5 DEF E
<1>6. CASE past = {}
  <2>1. NoneTold(E, t, types)
    <3>1. ASSUME NEW k \in DOMAIN E, E[k].type \in types
          PROVE  E[k].timestamp > t
      <4>1. from <= E[k].timestamp
        BY <1>1, <1>2, <1>6, <3>1
      <4>2. t < E[k].timestamp
        BY <3>1, <4>1 DEF E
      <4> QED BY <1>1, <1>4, <4>2
    <3> QED BY <3>1 DEF NoneTold
  <2>2. t \in G
    BY <2>1 DEF E
  <2>3. CASE told = {}
    BY <1>3, <1>6, <2>2, <2>3
  <2>4. CASE told # {}
    <3> DEFINE m == Min(told)
    <3>1. m \in told /\ \A i \in told : m <= i
      <4>1. told \in SUBSET Nat
        BY <1>1, <1>2
      <4> QED BY <2>4, <4>1, MinFacts
    <3>2. E[m].type \in off
      <4> HIDE DEF m
      <4> QED BY <1>2, <2>1, <3>1 DEF E
    <3> QED BY <1>3, <1>6, <2>2, <2>4, <3>2
  <2> QED BY <2>3, <2>4
<1> QED BY <1>5, <1>6

LEMMA StateIsBoolean ==
  ASSUME NEW from, NEW on, NEW off
  PROVE  StateBefore(from, on, off) \in BOOLEAN
<1> DEFINE told == Told(on \cup off)
           past == {i \in told : AllEvents[i].timestamp < from}
<1>1. StateBefore(from, on, off) =
        CASE past # {} -> AllEvents[Max(past)].type \in on
          [] past = {} /\ told # {} -> AllEvents[Min(told)].type \in off
          [] OTHER -> TRUE
  BY DEF StateBefore
<1> HIDE DEF told
<1>2. CASE past # {}
  <2>1. StateBefore(from, on, off) = (AllEvents[Max(past)].type \in on)
    BY <1>1, <1>2
  <2> QED BY <2>1
<1>3. CASE past = {} /\ told # {}
  <2>1. StateBefore(from, on, off) = (AllEvents[Min(told)].type \in off)
    BY <1>1, <1>3
  <2> QED BY <2>1
<1>4. CASE past = {} /\ told = {}
  BY <1>1, <1>4
<1> QED BY <1>2, <1>3, <1>4

(***************************************************************************)
(* The active periods.                                                     *)
(***************************************************************************)
\* The ticks awake, and what the log tells of them when no sleep was a hybrid one.
AwakeTicks == {t \in 1..now - 1 : day[t].slept = "no"}

LEMMA SleepsKnown ==
  ASSUME IInv, Spared({"refused", "others", "slow", "ended"}), SleepInv, Told({"HYBRID_SUSPEND"}) = {}
  PROVE  /\ \A t \in 1..now - 1, j \in DOMAIN AllEvents :
              Latest(AllEvents, j, t, {"WAKE_UP"} \cup Sleeps) =>
                (t \in AwakeTicks <=> AllEvents[j].type \in {"WAKE_UP"})
         /\ \A t \in 1..now - 1 :
              NoneTold(AllEvents, t, {"WAKE_UP"} \cup Sleeps)
              /\ (\E w \in Windows(PowerTypes) : w <= t) =>
                /\ t \in AwakeTicks
                /\ \A m \in DOMAIN AllEvents :
                     /\ AllEvents[m].type \in {"WAKE_UP"} \cup Sleeps
                     /\ \A i \in DOMAIN AllEvents :
                          AllEvents[i].type \in {"WAKE_UP"} \cup Sleeps => m <= i
                     => AllEvents[m].type \in Sleeps
<1> DEFINE E == AllEvents
           types == {"WAKE_UP"} \cup Sleeps
<1>1. /\ DOMAIN E = 1..Len(E) /\ Len(E) \in Nat /\ now \in Nat /\ DOMAIN day = 1..now - 1
      /\ \A j \in DOMAIN E : E[j].timestamp \in Nat
  BY EntriesOrdered
<1>2. SleepTold(E, day, mishaps) /\ SleepsAlternate(E, mishaps)
  BY DEF SleepInv
<1>3. \A j \in DOMAIN E : E[j].type # "HYBRID_SUSPEND"
  BY DEF Told
<1>4. /\ \A j \in DOMAIN E : E[j].type \in PowerTypes => E[j].type \in types
      /\ \A j \in DOMAIN E : E[j].type \in Ways => E[j].type \in types
      /\ \A j \in DOMAIN E : E[j].type \in types => E[j].type \in PowerTypes \/ E[j].type = "POWER_OFF"
      /\ \A j \in DOMAIN E : E[j].type \in types => E[j].type = "WAKE_UP" \/ E[j].type \in Sleeps
  BY <1>3 DEF PowerTypes, Ways, Sleeps
<1>5. \A t \in 1..now - 1 : t \in Nat /\ 1 <= t /\ t \in DOMAIN day
  BY <1>1
<1>6. Told(PowerTypes) = {i \in DOMAIN E : E[i].type \in PowerTypes}
  BY DEF Told
<1> HIDE DEF E
<1>7. ASSUME NEW t \in 1..now - 1, NEW j \in DOMAIN E, Latest(E, j, t, types)
      PROVE  t \in AwakeTicks <=> E[j].type \in {"WAKE_UP"}
  <2>1. E[j].type # "POWER_OFF"
    <3>1. SUFFICES ASSUME E[j].type = "POWER_OFF"
                   PROVE  FALSE
      OBVIOUS
    <3>2. PICK k \in DOMAIN E : k > j /\ E[k].type = "WAKE_UP" /\ E[k].timestamp <= 1
      BY <1>2, <3>1 DEF SleepsAlternate
    <3>3. E[k].timestamp > t
      BY <1>7, <3>2 DEF Latest
    <3> QED BY <1>1, <1>5, <3>2, <3>3
  <2>2. E[j].type \in PowerTypes
    BY <1>4, <1>7, <2>1 DEF Latest
  <2>3. Latest(E, j, t, PowerTypes)
    BY <1>4, <1>7, <2>2 DEF Latest
  <2>4. day[t].slept = SleptAfter(E[j], t)
    BY <1>2, <1>5, <2>3 DEF SleepTold
  <2> QED BY <2>4 DEF AwakeTicks, SleptAfter
<1>8. ASSUME NEW t \in 1..now - 1, NoneTold(E, t, types), NEW w \in Windows(PowerTypes), w <= t
      PROVE  /\ t \in AwakeTicks
             /\ \A m \in DOMAIN E :
                  /\ E[m].type \in types
                  /\ \A i \in DOMAIN E : E[i].type \in types => m <= i
                  => E[m].type \in Sleeps
  <2>1. NoneTold(E, t, PowerTypes)
    BY <1>4, <1>8 DEF NoneTold
  <2>2. "dropped" \notin mishaps
    <3>1. SUFFICES ASSUME "dropped" \in mishaps
                   PROVE  FALSE
      OBVIOUS
    <3>2. PICK i \in DOMAIN E : E[i].type \in PowerTypes /\ E[i].timestamp <= w
      BY <1>6, <3>1 DEF Windows, E
    <3>3. E[i].timestamp > t
      BY <2>1, <3>2 DEF NoneTold
    <3>4. w \in Nat
      BY <1>1 DEF Windows
    <3> QED BY <1>1, <1>5, <1>8, <3>2, <3>3, <3>4
  <2>3. t \in AwakeTicks
    BY <1>2, <1>5, <2>1, <2>2 DEF SleepTold, AwakeTicks
  <2>4. ASSUME NEW m \in DOMAIN E, E[m].type \in types,
               \A i \in DOMAIN E : E[i].type \in types => m <= i, E[m].type \notin Sleeps
        PROVE  FALSE
    <3>1. E[m].type = "WAKE_UP"
      BY <1>4, <2>4
    <3>2. E[m].timestamp > 1
      <4>1. E[m].timestamp > t
        BY <1>8, <2>4 DEF NoneTold
      <4> QED BY <1>1, <1>5, <4>1
    <3>3. PICK i \in DOMAIN E : i < m /\ E[i].type \in Ways
      BY <1>2, <2>2, <3>1, <3>2 DEF SleepsAlternate
    <3>4. m <= i
      BY <1>4, <2>4, <3>3
    <3> QED BY <1>1, <3>3, <3>4
  <2> QED BY <2>3, <2>4
<1> QED BY <1>7, <1>8 DEF E

LEMMA ActivityTold ==
  ASSUME IInv, Spared({"refused", "others", "slow", "ended"}), SleepInv, Told({"HYBRID_SUSPEND"}) = {},
         NEW from \in Windows(PowerTypes)
  PROVE  Covers(CalculateActivePeriods(from, now), from, now, AwakeTicks)
<1> DEFINE holds == StateBefore(from, {"WAKE_UP"}, Sleeps)
<1>1. from \in Nat /\ now \in Nat /\ from <= now /\ 1 <= from
  BY EntriesOrdered DEF Windows
<1>2. \A t \in from..now - 1 : t \in 1..now - 1 /\ from <= t
  BY <1>1
<1>3. holds \in BOOLEAN
  BY StateIsBoolean
<1>4. LatestTells(from, now, {"WAKE_UP"}, Sleeps, AwakeTicks)
  BY <1>2, SleepsKnown DEF LatestTells
<1>5. ASSUME NEW t \in from..now - 1,
             \A j \in DOMAIN AllEvents :
               AllEvents[j].type \in {"WAKE_UP"} \cup Sleeps /\ from <= AllEvents[j].timestamp =>
                 t < AllEvents[j].timestamp
      PROVE  t \in AwakeTicks <=> holds
  <2>1. \A u \in from..now - 1 : \A j \in DOMAIN AllEvents :
          Latest(AllEvents, j, u, {"WAKE_UP"} \cup Sleeps) =>
            (u \in AwakeTicks <=> AllEvents[j].type \in {"WAKE_UP"})
    BY <1>2, SleepsKnown
  <2>2. \A u \in from..now - 1 : NoneTold(AllEvents, u, {"WAKE_UP"} \cup Sleeps) =>
          /\ u \in AwakeTicks
          /\ \A m \in DOMAIN AllEvents :
               /\ AllEvents[m].type \in {"WAKE_UP"} \cup Sleeps
               /\ \A i \in DOMAIN AllEvents :
                    AllEvents[i].type \in {"WAKE_UP"} \cup Sleeps => m <= i
               => AllEvents[m].type \in Sleeps
    BY <1>2, SleepsKnown
  <2> QED BY <1>1, <1>5, <2>1, <2>2, StateTells
<1>6. FirstTells(from, now, holds, {"WAKE_UP"}, Sleeps, AwakeTicks)
  <2> HIDE DEF holds
  <2> QED BY <1>5 DEF FirstTells
<1>7. {"WAKE_UP"} \cap Sleeps = {}
  BY DEF Sleeps
<1>8. Covers(Intervals(from, now, holds, {"WAKE_UP"}, Sleeps), from, now, AwakeTicks)
  <2> HIDE DEF holds
  <2> QED BY <1>1, <1>3, <1>4, <1>6, <1>7, IntervalsCover
<1> QED BY <1>8 DEF CalculateActivePeriods

LEMMA ActivityCounted == TellInv => ActivityReported
<1> SUFFICES ASSUME TellInv, mishaps \cap {"refused", "others", "slow", "ended"} = {},
                    Told({"HYBRID_SUSPEND"}) = {}, NEW from \in Windows(PowerTypes)
             PROVE  Total(CalculateActivePeriods(from, now)) =
                      Cardinality({t \in from..now - 1 : day[t].slept = "no"})
  BY DEF ActivityReported, Ticks
<1>1. IInv /\ SleepInv /\ Spared({"refused", "others", "slow", "ended"})
  BY DEF TellInv, Spared
<1>2. from \in Nat /\ now \in Nat /\ 1 <= from
  BY <1>1, EntriesOrdered DEF Windows
<1>3. Total(CalculateActivePeriods(from, now)) = Cardinality({t \in from..now - 1 : t \in AwakeTicks})
  BY <1>1, <1>2, ActivityTold, TotalCovered
<1>4. {t \in from..now - 1 : t \in AwakeTicks} = {t \in from..now - 1 : day[t].slept = "no"}
  <2>1. \A t \in from..now - 1 : t \in 1..now - 1
    BY <1>2
  <2> QED BY <2>1 DEF AwakeTicks
<1> QED BY <1>3, <1>4

(***************************************************************************)
(* The time with the screen off.                                           *)
(***************************************************************************)
LitTicks == {t \in 1..now - 1 : ~day[t].dark}
UnlitTicks == {t \in 1..now - 1 : day[t].dark}

LEMMA LightsKnown ==
  ASSUME IInv, Spared({"others", "ended", "dark", "unlogged", "dimmed"}), ScreenInv
  PROVE  /\ \A t \in 1..now - 1, j \in DOMAIN AllEvents :
              Latest(AllEvents, j, t, {"SCREEN_ON"} \cup {"SCREEN_OFF"}) =>
                (t \in LitTicks <=> AllEvents[j].type \in {"SCREEN_ON"})
         /\ \A t \in 1..now - 1 :
              NoneTold(AllEvents, t, {"SCREEN_ON"} \cup {"SCREEN_OFF"})
              /\ (\E w \in Windows(ScreenTypes) : w <= t) =>
                /\ t \in LitTicks
                /\ \A m \in DOMAIN AllEvents :
                     /\ AllEvents[m].type \in {"SCREEN_ON"} \cup {"SCREEN_OFF"}
                     /\ \A i \in DOMAIN AllEvents :
                          AllEvents[i].type \in {"SCREEN_ON"} \cup {"SCREEN_OFF"} => m <= i
                     => AllEvents[m].type \in {"SCREEN_OFF"}
<1> DEFINE E == AllEvents
           types == {"SCREEN_ON"} \cup {"SCREEN_OFF"}
<1>1. /\ DOMAIN E = 1..Len(E) /\ Len(E) \in Nat /\ now \in Nat /\ DOMAIN day = 1..now - 1
      /\ \A j \in DOMAIN E : E[j].timestamp \in Nat
  BY EntriesOrdered
<1>2. DarkTold(E, day, mishaps) /\ LightsAlternate(E, mishaps)
  BY DEF ScreenInv
<1>3. types = ScreenTypes
  BY DEF ScreenTypes
<1>4. \A t \in 1..now - 1 : t \in Nat /\ 1 <= t /\ t \in DOMAIN day
  BY <1>1
<1>5. Told(ScreenTypes) = {i \in DOMAIN E : E[i].type \in ScreenTypes}
  BY DEF Told
<1> HIDE DEF E
<1>6. ASSUME NEW t \in 1..now - 1, NEW j \in DOMAIN E, Latest(E, j, t, ScreenTypes)
      PROVE  t \in LitTicks <=> E[j].type \in {"SCREEN_ON"}
  <2>1. E[j].type \in ScreenTypes
    BY <1>6 DEF Latest
  <2>2. day[t].dark <=> E[j].type = "SCREEN_OFF"
    BY <1>2, <1>4, <1>6 DEF DarkTold
  <2> QED BY <2>1, <2>2 DEF LitTicks, ScreenTypes
<1>7. ASSUME NEW t \in 1..now - 1, NoneTold(E, t, ScreenTypes),
             NEW w \in Windows(ScreenTypes), w <= t
      PROVE  /\ t \in LitTicks
             /\ \A m \in DOMAIN E :
                  /\ E[m].type \in ScreenTypes
                  /\ \A i \in DOMAIN E : E[i].type \in ScreenTypes => m <= i
                  => E[m].type \in {"SCREEN_OFF"}
  <2>1. "dropped" \notin mishaps
    <3>1. SUFFICES ASSUME "dropped" \in mishaps
                   PROVE  FALSE
      OBVIOUS
    <3>2. PICK i \in DOMAIN E : E[i].type \in ScreenTypes /\ E[i].timestamp <= w
      BY <1>5, <3>1 DEF Windows, E
    <3>3. E[i].timestamp > t
      BY <1>7, <3>2 DEF NoneTold
    <3>4. w \in Nat
      BY <1>1 DEF Windows
    <3> QED BY <1>1, <1>4, <1>7, <3>2, <3>3, <3>4
  <2>2. t \in LitTicks
    BY <1>2, <1>4, <1>7, <2>1 DEF DarkTold, LitTicks
  <2>3. ASSUME NEW m \in DOMAIN E, E[m].type \in ScreenTypes,
               \A i \in DOMAIN E : E[i].type \in ScreenTypes => m <= i, E[m].type # "SCREEN_OFF"
        PROVE  FALSE
    <3>1. E[m].type = "SCREEN_ON"
      BY <2>3 DEF ScreenTypes
    <3>2. E[m].timestamp > 1
      <4>1. E[m].timestamp > t
        BY <1>7, <2>3 DEF NoneTold
      <4> QED BY <1>1, <1>4, <4>1
    <3>3. PICK i \in DOMAIN E : i < m /\ E[i].type = "SCREEN_OFF"
      BY <1>2, <2>1, <3>1, <3>2 DEF LightsAlternate
    <3>4. m <= i
      BY <2>3, <3>3 DEF ScreenTypes
    <3> QED BY <1>1, <3>3, <3>4
  <2> QED BY <2>2, <2>3
<1> QED BY <1>3, <1>6, <1>7 DEF E

LEMMA ScreenOffTold ==
  ASSUME IInv, Spared({"others", "ended", "dark", "unlogged", "dimmed"}), ScreenInv,
         NEW w \in Windows(ScreenTypes), NEW p, p.start \in Nat, p.end \in Nat,
         w <= p.start, p.start <= p.end, p.end <= now
  PROVE  ScreenOff(p) = Cardinality({t \in p.start..p.end - 1 : t \in UnlitTicks})
<1> DEFINE from == p.start
           to == p.end
           lit == StateBefore(from, {"SCREEN_ON"}, {"SCREEN_OFF"})
           R == Intervals(from, to, ~lit, {"SCREEN_OFF"}, {"SCREEN_ON"})
<1>1. from \in Nat /\ to \in Nat /\ now \in Nat /\ from <= to /\ to <= now /\ w <= from /\ 1 <= w
      /\ w \in Nat
  BY EntriesOrdered DEF Windows
<1> HIDE DEF from, to
<1>2. /\ \A t \in from..now - 1 : t \in 1..now - 1 /\ w <= t
      /\ \A t \in from..to - 1 : t \in from..now - 1 /\ t \in 1..now - 1
  BY <1>1
<1>3. lit \in BOOLEAN
  BY StateIsBoolean
<1>4. \A t \in 1..now - 1 : t \in LitTicks <=> ~ (t \in UnlitTicks)
  BY DEF LitTicks, UnlitTicks
<1>5. LatestTells(from, to, {"SCREEN_OFF"}, {"SCREEN_ON"}, UnlitTicks)
  <2>1. {"SCREEN_OFF"} \cup {"SCREEN_ON"} = {"SCREEN_ON"} \cup {"SCREEN_OFF"}
    OBVIOUS
  <2>2. ASSUME NEW t \in from..to - 1, NEW j \in DOMAIN AllEvents,
               Latest(AllEvents, j, t, {"SCREEN_ON"} \cup {"SCREEN_OFF"})
        PROVE  t \in UnlitTicks <=> AllEvents[j].type \in {"SCREEN_OFF"}
    <3>1. t \in LitTicks <=> AllEvents[j].type \in {"SCREEN_ON"}
      BY <1>2, <2>2, LightsKnown
    <3>2. AllEvents[j].type \in {"SCREEN_ON"} \cup {"SCREEN_OFF"}
      BY <2>2 DEF Latest
    <3> QED BY <1>2, <1>4, <3>1, <3>2
  <2> QED BY <2>1, <2>2 DEF LatestTells
<1>6. ASSUME NEW t \in from..now - 1,
             \A j \in DOMAIN AllEvents :
               AllEvents[j].type \in {"SCREEN_ON"} \cup {"SCREEN_OFF"}
               /\ from <= AllEvents[j].timestamp => t < AllEvents[j].timestamp
      PROVE  t \in LitTicks <=> lit
  <2>1. \A u \in from..now - 1 : \A j \in DOMAIN AllEvents :
          Latest(AllEvents, j, u, {"SCREEN_ON"} \cup {"SCREEN_OFF"}) =>
            (u \in LitTicks <=> AllEvents[j].type \in {"SCREEN_ON"})
    BY <1>2, LightsKnown
  <2>2. \A u \in from..now - 1 : NoneTold(AllEvents, u, {"SCREEN_ON"} \cup {"SCREEN_OFF"}) =>
          /\ u \in LitTicks
          /\ \A m \in DOMAIN AllEvents :
               /\ AllEvents[m].type \in {"SCREEN_ON"} \cup {"SCREEN_OFF"}
               /\ \A i \in DOMAIN AllEvents :
                    AllEvents[i].type \in {"SCREEN_ON"} \cup {"SCREEN_OFF"} => m <= i
               => AllEvents[m].type \in {"SCREEN_OFF"}
    BY <1>2, LightsKnown
  <2> QED BY <1>1, <1>6, <2>1, <2>2, StateTells
<1>7. FirstTells(from, to, ~lit, {"SCREEN_OFF"}, {"SCREEN_ON"}, UnlitTicks)
  <2> HIDE DEF lit
  <2>1. {"SCREEN_OFF"} \cup {"SCREEN_ON"} = {"SCREEN_ON"} \cup {"SCREEN_OFF"}
    OBVIOUS
  <2> QED BY <1>2, <1>4, <1>6, <2>1 DEF FirstTells
<1>8. Covers(R, from, to, UnlitTicks)
  <2> HIDE DEF lit
  <2>1. {"SCREEN_OFF"} \cap {"SCREEN_ON"} = {} /\ (~lit) \in BOOLEAN
    OBVIOUS
  <2> QED BY <1>1, <1>5, <1>7, <2>1, IntervalsCover
<1>9. Total(R) = Cardinality({t \in from..to - 1 : t \in UnlitTicks})
  <2> HIDE DEF R
  <2> QED BY <1>1, <1>8, TotalCovered
<1>10. ScreenOff(p) = Total(R)
  BY DEF ScreenOff, from, to
<1> QED BY <1>9, <1>10 DEF from, to

LEMMA ScreenOffCounted == TellInv => ScreenOffReported
<1> SUFFICES ASSUME TellInv, mishaps \subseteq {"dropped", "unsaved", "late"},
                    Told({"HYBRID_SUSPEND"}) = {},
                    NEW from \in Windows(PowerTypes) \cap Windows(ScreenTypes)
             PROVE  CalculateScreenOff(from, now) =
                      Cardinality({t \in from..now - 1 : day[t].slept = "no" /\ day[t].dark})
  BY DEF ScreenOffReported, Ticks
<1>1. /\ IInv /\ SleepInv /\ ScreenInv /\ Spared({"refused", "others", "slow", "ended"})
      /\ Spared({"others", "ended", "dark", "unlogged", "dimmed"})
  BY DEF TellInv, Spared
<1>2. from \in Nat /\ now \in Nat /\ 1 <= from /\ from <= now
  BY <1>1, EntriesOrdered DEF Windows
<1> DEFINE R == CalculateActivePeriods(from, now)
           A == {t \in from..now - 1 : t \in UnlitTicks}
           c == [k \in DOMAIN R |-> ScreenOff(R[k])]
<1>3. Covers(R, from, now, AwakeTicks)
  BY <1>1, ActivityTold
<1> HIDE DEF R
<1>4. R \in Seq(Spans(from, now)) /\ Follow(R)
  BY <1>3 DEF Covers
<1>5. /\ DOMAIN R = 1..Len(R) /\ Len(R) \in Nat
      /\ \A k \in 1..Len(R) : /\ R[k].start \in Nat /\ R[k].end \in Nat
                              /\ from <= R[k].start /\ R[k].end <= now
  BY <1>2, <1>4, SpanFacts
<1>6. A \in SUBSET (from..now) /\ IsFiniteSet(from..now)
  BY <1>2, FS_Interval
<1>7. ASSUME NEW k \in 1..Len(R)
      PROVE  c[k] = Cardinality({t \in A : R[k].start <= t /\ t < R[k].end})
  <2>1. R[k].start <= R[k].end
    BY <1>4, <1>5 DEF Follow
  <2>2. ScreenOff(R[k]) = Cardinality({t \in R[k].start..R[k].end - 1 : t \in UnlitTicks})
    BY <1>1, <1>5, <2>1, ScreenOffTold
  <2> DEFINE s == R[k].start
             e == R[k].end
  <2>3. s \in Nat /\ e \in Nat /\ from <= s /\ e <= now
    BY <1>5
  <2> HIDE DEF s, e
  <2>4. {t \in s..e - 1 : t \in UnlitTicks} = {t \in A : s <= t /\ t < e}
    <3>1. \A t : t \in s..e - 1 <=> t \in from..now - 1 /\ s <= t /\ t < e
      BY <1>2, <2>3
    <3> QED BY <3>1
  <2> QED BY <1>5, <2>2, <2>4 DEF s, e
<1>8. c \in Seq(Int) /\ Len(c) = Len(R)
  <2>1. c = [k \in 1..Len(R) |-> c[k]]
    BY <1>5
  <2>2. ASSUME NEW k \in 1..Len(R)
        PROVE  c[k] \in Int
    <3> DEFINE B == {t \in A : R[k].start <= t /\ t < R[k].end}
    <3>1. B \in SUBSET (from..now)
      <4> HIDE DEF A
      <4> QED BY <1>6
    <3>2. Cardinality(B) \in Nat
      <4> HIDE DEF B
      <4> QED BY <1>6, <3>1, FS_Subset, FS_CardinalityType
    <3>3. c[k] = Cardinality(B)
      BY <1>7
    <3> HIDE DEF B, c
    <3> QED BY <3>2, <3>3
  <2> HIDE DEF c
  <2>3. c \in Seq(Int)
    BY <1>5, <2>1, <2>2, IsASeq
  <2>4. DOMAIN c = 1..Len(R)
    BY <2>1
  <2>5. Len(c) = Len(R)
    BY <1>5, <2>3, <2>4, LenProperties
  <2> QED BY <2>3, <2>5
<1>9. SumOf(c) = Cardinality({t \in A : Within(t, R, Len(R))})
  <2> HIDE DEF c
  <2>1. Counting(c, R, A)
    BY <1>7 DEF Counting
  <2> HIDE DEF A
  <2> QED BY <1>2, <1>4, <1>6, <1>8, <2>1, SumCovers
<1>10. {t \in A : Within(t, R, Len(R))} =
         {t \in from..now - 1 : day[t].slept = "no" /\ day[t].dark}
  <2>1. \A t \in from..now - 1 : t \in 1..now - 1
    BY <1>2
  <2>2. \A t \in from..now - 1 : t \in AwakeTicks <=> Within(t, R, Len(R))
    BY <1>3 DEF Covers
  <2> QED BY <2>1, <2>2 DEF AwakeTicks, UnlitTicks
<1>11. CalculateScreenOff(from, now) = SumOf(c)
  BY DEF CalculateScreenOff, R
<1> QED BY <1>9, <1>10, <1>11

(***************************************************************************)
(* The time asleep.                                                        *)
(***************************************************************************)
LEMMA IntervalLength ==
  ASSUME NEW a \in Int, NEW b \in Int
  PROVE  Cardinality(a..b - 1) = IF a <= b THEN b - a ELSE 0
<1>1. Cardinality(a..b - 1) = IF a > b - 1 THEN 0 ELSE (b - 1) - a + 1
  <2>1. b - 1 \in Int
    OBVIOUS
  <2> QED BY <2>1, FS_Interval
<1>2. /\ a <= b - 1 => (b - 1) - a + 1 = b - a /\ a <= b /\ ~ (a > b - 1)
      /\ ~ (a <= b - 1) /\ a <= b => b - a = 0 /\ a > b - 1
      /\ ~ (a <= b) => a > b - 1
  OBVIOUS
<1> QED BY <1>1, <1>2

LEMMA PairExtremes ==
  ASSUME NEW x \in Int, NEW y \in Int
  PROVE  /\ Min({x, y}) = IF x <= y THEN x ELSE y
         /\ Max({x, y}) = IF x <= y THEN y ELSE x
<1>1. /\ \E m \in {x, y} : \A z \in {x, y} : m <= z
      /\ \E m \in {x, y} : \A z \in {x, y} : m >= z
  BY DEF Min
<1>2. Min({x, y}) \in {x, y} /\ \A z \in {x, y} : Min({x, y}) <= z
  BY <1>1 DEF Min
<1>3. Max({x, y}) \in {x, y} /\ \A z \in {x, y} : Max({x, y}) >= z
  BY <1>1 DEF Max
<1> DEFINE n == Min({x, y})
           m == Max({x, y})
<1>4. (n = x \/ n = y) /\ n <= x /\ n <= y
  BY <1>2
<1>5. (m = x \/ m = y) /\ m >= x /\ m >= y
  BY <1>3
<1> HIDE DEF n, m
<1>6. n = IF x <= y THEN x ELSE y
  BY <1>4
<1>7. m = IF x <= y THEN y ELSE x
  BY <1>5
<1> QED BY <1>6, <1>7 DEF n, m

LEMMA SleepCountedIs ==
  ASSUME NEW way, NEW start \in Nat, NEW end \in Nat, NEW from \in Nat, NEW to \in Nat
  PROVE  LET begins == IF start < from THEN from ELSE start
             ends == IF end > to THEN to ELSE end
             left == IF 0 <= HibernateDelay - (begins - start)
                     THEN HibernateDelay - (begins - start) ELSE 0
         IN  /\ SleepCounted(way, start, end, from, to) =
                  IF end <= from \/ start >= to \/ way = "HIBERNATE" THEN 0
                  ELSE IF way \in {"SUSPEND", "HYBRID_SUSPEND"} THEN ends - begins
                  ELSE IF ends - begins <= left THEN ends - begins ELSE left
             /\ SleepCounted(way, start, end, from, to) \in Int
<1> DEFINE begins == IF start < from THEN from ELSE start
           ends == IF end > to THEN to ELSE end
           rest == HibernateDelay - (begins - start)
           left == IF 0 <= rest THEN rest ELSE 0
           simple == end <= from \/ start >= to \/ way = "HIBERNATE"
           plain == way \in {"SUSPEND", "HYBRID_SUSPEND"}
<1>1. begins \in Nat /\ ends \in Nat /\ rest \in Int /\ left \in Int /\ ends - begins \in Int
  BY BatteryLogAssumption
<1>2. Max({0, rest}) = left
  <2> HIDE DEF rest
  <2>1. 0 \in Int
    OBVIOUS
  <2> QED BY <1>1, <2>1, PairExtremes
<1>3. SleepCounted(way, start, end, from, to) =
        IF simple THEN 0
        ELSE IF plain THEN ends - begins
        ELSE Min({ends - begins, Max({0, rest})})
  BY DEF SleepCounted
<1> HIDE DEF begins, ends, rest, left
<1>4. Min({ends - begins, Max({0, rest})}) = IF ends - begins <= left THEN ends - begins ELSE left
  <2> DEFINE d == ends - begins
  <2>1. d \in Int
    BY <1>1
  <2> HIDE DEF d
  <2>2. Min({d, left}) = IF d <= left THEN d ELSE left
    BY <1>1, <2>1, PairExtremes
  <2> QED BY <1>2, <2>2 DEF d
<1> DEFINE count == SleepCounted(way, start, end, from, to)
<1> HIDE DEF count
<1>5. CASE simple
  <2>1. count = 0
    BY <1>3, <1>5 DEF count
  <2> QED BY <1>5, <2>1 DEF count, begins, ends, left, rest
<1>6. CASE ~simple /\ plain
  <2>1. count = ends - begins
    BY <1>3, <1>6 DEF count
  <2> QED BY <1>1, <2>1, <1>6 DEF count, begins, ends, left, rest
<1>7. CASE ~simple /\ ~plain
  <2>1. count = IF ends - begins <= left THEN ends - begins ELSE left
    BY <1>3, <1>4, <1>7 DEF count
  <2>2. count \in Int
    BY <1>1, <2>1
  <2> QED BY <2>1, <2>2, <1>7 DEF count, begins, ends, left, rest
<1> QED BY <1>5, <1>6, <1>7

\* What a sleep counts for is its ticks that were not spent in hibernation.
LEMMA SleepOfEvent ==
  ASSUME NEW e, e.type \in Ways, e.timestamp \in Nat, NEW u \in Nat, NEW from \in Nat, NEW to \in Nat,
         from <= u, e.timestamp <= u, u <= to
  PROVE  SleepCounted(e.type, e.timestamp, u, from, to) =
           Cardinality({t \in from..u - 1 : e.timestamp <= t /\ SleptAfter(e, t) = "light"})
<1> DEFINE s == e.timestamp
           way == e.type
           D == HibernateDelay
           begins == IF s < from THEN from ELSE s
           left == IF 0 <= D - (begins - s) THEN D - (begins - s) ELSE 0
           Counted == {t \in from..u - 1 : s <= t /\ SleptAfter(e, t) = "light"}
           count == SleepCounted(way, s, u, from, to)
<1>1. way \in Ways /\ s \in Nat /\ D \in Nat /\ s <= u
  BY BatteryLogAssumption
<1>2. \A t : SleptAfter(e, t) = "light" <=>
        /\ way # "HIBERNATE"
        /\ way = "SUSPEND_THEN_HIBERNATE" => ~ (t - s >= D)
  BY <1>1 DEF SleptAfter, Ways
<1> HIDE DEF s, way, D
<1>3. begins \in Nat /\ from <= begins /\ s <= begins /\ begins <= u /\ left \in Nat
      /\ (u > to <=> FALSE)
  BY <1>1
<1>4. count = IF u <= from \/ s >= to \/ way = "HIBERNATE" THEN 0
              ELSE IF way \in {"SUSPEND", "HYBRID_SUSPEND"} THEN u - begins
              ELSE IF u - begins <= left THEN u - begins ELSE left
  <2>1. (IF u > to THEN to ELSE u) = u
    BY <1>3
  <2> QED BY <1>1, <2>1, SleepCountedIs DEF D
<1> HIDE DEF count
<1>5. CASE u <= from \/ s >= to \/ way = "HIBERNATE"
  <2>1. Counted = {}
    <3>1. CASE way = "HIBERNATE"
      BY <1>2, <3>1
    <3>2. CASE u <= from \/ s >= to
      <4>1. \A t \in from..u - 1 : ~ (s <= t)
        BY <1>1, <3>2
      <4> QED BY <4>1
    <3> QED BY <1>5, <3>1, <3>2
  <2>2. count = 0
    BY <1>4, <1>5
  <2> HIDE DEF Counted
  <2>3. count = Cardinality(Counted)
    BY <2>1, <2>2, FS_EmptySet
  <2> QED BY <2>3 DEF Counted, count, s, way
<1>6. CASE ~ (u <= from \/ s >= to \/ way = "HIBERNATE") /\ way \in {"SUSPEND", "HYBRID_SUSPEND"}
  <2>1. Counted = begins..u - 1
    <3>1. \A t : t \in from..u - 1 /\ s <= t <=> t \in begins..u - 1
      BY <1>1
    <3>2. \A t : SleptAfter(e, t) = "light"
      BY <1>2, <1>6
    <3> QED BY <3>1, <3>2
  <2>2. count = u - begins
    BY <1>4, <1>6
  <2>3. Cardinality(begins..u - 1) = u - begins
    <3>1. begins \in Int /\ u \in Int /\ begins <= u
      BY <1>3
    <3> HIDE DEF begins
    <3> QED BY <3>1, IntervalLength
  <2> HIDE DEF Counted, begins
  <2>4. count = Cardinality(Counted)
    BY <2>1, <2>2, <2>3
  <2> QED BY <2>4 DEF Counted, count, s, way
<1>7. CASE ~ (u <= from \/ s >= to \/ way = "HIBERNATE") /\ way = "SUSPEND_THEN_HIBERNATE"
  <2> DEFINE ends == IF u - begins <= left THEN u ELSE begins + left
  <2>1. Counted = begins..ends - 1
    <3>1. \A t \in Int : from <= t /\ t <= u - 1 /\ s <= t /\ ~ (t - s >= D) <=>
                           begins <= t /\ t <= ends - 1
      BY <1>1
    <3>2. u - 1 \in Int /\ ends - 1 \in Int
      BY <1>3
    <3> HIDE DEF begins, ends
    <3>3. \A t : t \in from..u - 1 /\ s <= t /\ ~ (t - s >= D) <=> t \in begins..ends - 1
      BY <1>3, <3>1, <3>2
    <3>4. \A t : SleptAfter(e, t) = "light" <=> ~ (t - s >= D)
      BY <1>2, <1>7
    <3> QED BY <3>3, <3>4
  <2>2. ends \in Int /\ begins \in Int /\ begins <= ends
        /\ ends - begins = IF u - begins <= left THEN u - begins ELSE left
    <3> HIDE DEF left, begins
    <3> QED BY <1>3
  <2>3. count = ends - begins
    <3>1. way \notin {"SUSPEND", "HYBRID_SUSPEND"}
      BY <1>7
    <3> HIDE DEF ends, begins, left
    <3> QED BY <1>4, <1>7, <2>2, <3>1
  <2> HIDE DEF ends, begins, Counted
  <2>4. count = Cardinality(Counted)
    BY <2>1, <2>2, <2>3, IntervalLength
  <2> QED BY <2>4 DEF Counted, count, s, way
<1> QED BY <1>1, <1>5, <1>6, <1>7 DEF Ways

\* What one event makes of the sleep so far.
Sleeping == [way : Ways \cup {"none"}, start : Nat, total : Int]

SleptTurn(s, e, from, to) ==
  CASE e.timestamp <= to /\ e.type \in Ways ->
         [s EXCEPT !.way = e.type, !.start = e.timestamp]
    [] e.timestamp <= to /\ e.type = "WAKE_UP" /\ s.way # "none" ->
         [way |-> "none", start |-> 0,
          total |-> s.total + SleepCounted(s.way, s.start, e.timestamp, from, to)]
    [] OTHER -> s

SleptTo(r, s, e, from, to) ==
  /\ r \in Sleeping
  /\ e.type \in Ways => r.way = e.type /\ r.start = e.timestamp /\ r.total = s.total
  /\ e.type = "WAKE_UP" /\ s.way # "none" =>
       r.way = "none" /\ r.total = s.total + SleepCounted(s.way, s.start, e.timestamp, from, to)
  /\ e.type = "WAKE_UP" /\ s.way = "none" => r = s
  /\ e.type \notin PowerTypes => r = s

LEMMA SleptTurnFacts ==
  ASSUME NEW from \in Nat, NEW to \in Nat, NEW s \in Sleeping, NEW e,
         e.timestamp \in Nat, e.timestamp <= to
  PROVE  SleptTo(SleptTurn(s, e, from, to), s, e, from, to)
<1> DEFINE r == SleptTurn(s, e, from, to)
           count == SleepCounted(s.way, s.start, e.timestamp, from, to)
<1>1. /\ s = [way |-> s.way, start |-> s.start, total |-> s.total]
      /\ s.way \in Ways \cup {"none"} /\ s.start \in Nat /\ s.total \in Int
  BY DEF Sleeping
<1>2. count \in Int
  BY <1>1, SleepCountedIs
<1> HIDE DEF count
<1>3. CASE e.type \in Ways
  <2>1. e.type # "WAKE_UP" /\ e.type \in PowerTypes
    BY <1>3 DEF Ways, PowerTypes
  <2>2. r = [s EXCEPT !.way = e.type, !.start = e.timestamp]
    BY <1>3, <2>1 DEF SleptTurn
  <2> HIDE DEF r
  <2>3. r = [way |-> e.type, start |-> e.timestamp, total |-> s.total]
    BY <1>1, <2>2
  <2>4. r \in Sleeping /\ r.way = e.type /\ r.start = e.timestamp /\ r.total = s.total
    BY <1>1, <1>3, <2>3 DEF Sleeping
  <2>5. SleptTo(r, s, e, from, to)
    BY <2>1, <2>4 DEF SleptTo
  <2> QED BY <2>5 DEF r
<1>4. CASE e.type = "WAKE_UP" /\ s.way # "none"
  <2>1. e.type \notin Ways /\ e.type \in PowerTypes
    BY <1>4 DEF Ways, PowerTypes
  <2>2. r = [way |-> "none", start |-> 0, total |-> s.total + count]
    BY <1>4, <2>1 DEF SleptTurn, count
  <2> HIDE DEF r
  <2>3. s.total + count \in Int /\ 0 \in Nat
    BY <1>1, <1>2
  <2>4. r \in Sleeping /\ r.way = "none" /\ r.total = s.total + count
    BY <2>2, <2>3 DEF Sleeping
  <2>5. SleptTo(r, s, e, from, to)
    BY <1>4, <2>1, <2>4 DEF SleptTo, count
  <2> QED BY <2>5 DEF r
<1>5. CASE e.type \notin Ways /\ ~ (e.type = "WAKE_UP" /\ s.way # "none")
  <2>1. r = s
    BY <1>5 DEF SleptTurn
  <2> HIDE DEF r
  <2>2. SleptTo(r, s, e, from, to)
    BY <1>5, <2>1 DEF SleptTo
  <2> QED BY <2>2 DEF r
<1> QED BY <1>3, <1>4, <1>5

SleepUnfolded(after, from, to) ==
  /\ \A k \in 0..Len(AllEvents) : after[k] \in Sleeping
  /\ after[0] = [way |-> "none", start |-> 0, total |-> 0]
  /\ \A k \in 1..Len(AllEvents) : after[k] = SleptTurn(after[k - 1], AllEvents[k], from, to)
  /\ CalculateSleepTime(from, to) =
       IF to <= from THEN 0
       ELSE IF after[Len(AllEvents)].way = "none" THEN after[Len(AllEvents)].total
       ELSE after[Len(AllEvents)].total
            + SleepCounted(after[Len(AllEvents)].way, after[Len(AllEvents)].start, to, from, to)

LEMMA SleepUnfolds ==
  ASSUME IInv, NEW from \in Nat
  PROVE  \E after : SleepUnfolded(after, from, now)
<1> DEFINE E == AllEvents
           N == Len(E)
           to == now
           base == [way |-> "none", start |-> 0, total |-> 0]
           Step(s, e) ==
             CASE e.timestamp <= to /\ e.type \in Ways ->
                    [s EXCEPT !.way = e.type, !.start = e.timestamp]
               [] e.timestamp <= to /\ e.type = "WAKE_UP" /\ s.way # "none" ->
                    [way |-> "none", start |-> 0,
                     total |-> s.total + SleepCounted(s.way, s.start, e.timestamp, from, to)]
               [] OTHER -> s
           Unfolds(a) == a = [n \in 0..N |-> IF n = 0 THEN base ELSE Step(a[n - 1], E[n])]
           step == [s \in Sleeping |-> [k \in 1..N |-> SleptTurn(s, E[k], from, to)]]
<1>1. /\ N \in Nat /\ base \in Sleeping /\ to \in Nat
      /\ \A k \in 1..N : E[k].timestamp \in Nat /\ E[k].timestamp <= to
  BY EntriesOrdered DEF Sleeping
<1>2. \A s \in Sleeping : \A k \in 1..N :
        step[s][k] = SleptTurn(s, E[k], from, to) /\ SleptTurn(s, E[k], from, to) \in Sleeping
  <2>1. ASSUME NEW s \in Sleeping, NEW k \in 1..N
        PROVE  SleptTurn(s, E[k], from, to) \in Sleeping
    <3>1. SleptTo(SleptTurn(s, E[k], from, to), s, E[k], from, to)
      BY <1>1, SleptTurnFacts
    <3> QED BY <3>1 DEF SleptTo
  <2> QED BY <2>1
<1>3. PICK a : Reaches(a, N, Sleeping, base, step)
  <2> HIDE DEF step, N, base
  <2> QED BY <1>1, <1>2, Recursion
<1>4. \A k \in 1..N : k - 1 \in 0..N /\ k \in 0..N /\ k # 0
  BY <1>1
<1>5. \A k \in 0..N : a[k] \in Sleeping
  BY <1>3 DEF Reaches
<1>6. \A k \in 1..N : a[k] = SleptTurn(a[k - 1], E[k], from, to)
  <2> HIDE DEF step, N, base
  <2> QED BY <1>2, <1>3, <1>4, <1>5 DEF Reaches
<1>7. \A s, e : Step(s, e) = SleptTurn(s, e, from, to)
  BY DEF SleptTurn
<1> HIDE DEF Step
<1>8. Unfolds(a)
  <2> HIDE DEF N, base, step
  <2>1. \A n \in 0..N : a[n] = IF n = 0 THEN base ELSE Step(a[n - 1], E[n])
    <3>1. \A n \in 0..N : n = 0 \/ n \in 1..N
      BY <1>1
    <3> QED BY <1>3, <1>6, <1>7, <3>1 DEF Reaches
  <2>2. a = [n \in 0..N |-> a[n]]
    BY <1>3 DEF Reaches
  <2> QED BY <2>1, <2>2
<1> DEFINE after == CHOOSE x : Unfolds(x)
<1>9. Unfolds(after)
  BY <1>8
<1>10. CalculateSleepTime(from, to) =
         IF to <= from THEN 0
         ELSE IF after[N].way = "none" THEN after[N].total
         ELSE after[N].total + SleepCounted(after[N].way, after[N].start, to, from, to)
  BY DEF CalculateSleepTime, Step
<1>11. after[0] = base /\ \A k \in 1..N : after[k] = SleptTurn(after[k - 1], E[k], from, to)
  <2> HIDE DEF after, N, base
  <2>1. 0 \in 0..N
    BY <1>1
  <2> QED BY <1>4, <1>7, <1>9, <2>1
<1>12. \A k \in 0..N : after[k] \in Sleeping
  <2> DEFINE T == {k \in 0..N : after[k] \in Sleeping}
  <2>1. 0 \in T
    <3> HIDE DEF after, N, base
    <3> QED BY <1>1, <1>11
  <2>2. ASSUME NEW k \in 0..N - 1, k \in T
        PROVE  k + 1 \in T
    <3>1. k + 1 \in 1..N /\ (k + 1) - 1 = k /\ k + 1 \in 0..N
      BY <1>1
    <3>2. after[k + 1] = SleptTurn(after[k], E[k + 1], from, to)
      BY <1>11, <3>1
    <3>3. after[k] \in Sleeping
      BY <2>2
    <3> HIDE DEF after, N
    <3>4. \A s \in Sleeping : SleptTurn(s, E[k + 1], from, to) \in Sleeping
      BY <1>2, <3>1
    <3>5. after[k + 1] \in Sleeping
      BY <3>2, <3>3, <3>4
    <3> QED BY <3>1, <3>5
  <2>3. \A k \in 0..N : k \in T
    <3> HIDE DEF T, N
    <3> QED BY <1>1, <2>1, <2>2, BoundedInduction
  <2> QED BY <2>3
<1> HIDE DEF after
<1> QED BY <1>10, <1>11, <1>12 DEF SleepUnfolded

LightTicks(from, u) == {t \in from..u - 1 : day[t].slept = "light"}

CountedUpTo(s, u, from) ==
  s.total + IF s.way = "none" THEN 0 ELSE SleepCounted(s.way, s.start, u, from, now)

\* Between the k-th event and the next, as far as sleeping goes.
Reached(k, u) ==
  \A j \in DOMAIN AllEvents : AllEvents[j].type \in PowerTypes =>
    /\ j <= k => AllEvents[j].timestamp <= u
    /\ j > k => u <= AllEvents[j].timestamp

SleepSoFar(s, k, from) ==
  /\ (\A j \in DOMAIN AllEvents : j <= k => AllEvents[j].timestamp <= from) => s.total = 0
  /\ s.way # "none" =>
       \E j \in DOMAIN AllEvents :
         /\ j <= k /\ AllEvents[j].type \in Ways
         /\ \A i \in DOMAIN AllEvents : j < i /\ i <= k => AllEvents[i].type \notin PowerTypes
  /\ \A u \in from..now :
       Reached(k, u) => CountedUpTo(s, u, from) = Cardinality(LightTicks(from, u))

LEMMA LightTicksFinite ==
  ASSUME NEW from \in Nat, NEW u \in Nat
  PROVE  IsFiniteSet(LightTicks(from, u)) /\ Cardinality(LightTicks(from, u)) \in Nat
<1>1. LightTicks(from, u) \in SUBSET (from..u - 1) /\ u - 1 \in Int
  BY DEF LightTicks
<1>2. IsFiniteSet(from..u - 1)
  BY <1>1, FS_Interval
<1> QED BY <1>1, <1>2, FS_Subset, FS_CardinalityType

\* The ticks after the (k + 1)st event are as that event tells.
LEMMA TicksAfter ==
  ASSUME IInv, SleepTold(AllEvents, day, mishaps), NEW from \in Nat, 1 <= from,
         NEW k \in 0..Len(AllEvents) - 1, AllEvents[k + 1].type \in PowerTypes,
         NEW u \in from..now, Reached(k + 1, u),
         NEW t \in from..u - 1, AllEvents[k + 1].timestamp <= t
  PROVE  day[t].slept = SleptAfter(AllEvents[k + 1], t)
<1> DEFINE E == AllEvents
<1>1. /\ DOMAIN E = 1..Len(E) /\ Len(E) \in Nat /\ now \in Nat /\ DOMAIN day = 1..now - 1
      /\ \A j \in DOMAIN E : E[j].timestamp \in Nat
  BY EntriesOrdered
<1>2. k + 1 \in DOMAIN E /\ t \in DOMAIN day /\ t \in Nat /\ u \in Nat /\ t < u
  BY <1>1
<1> HIDE DEF E
<1>3. ASSUME NEW j \in DOMAIN E, j > k + 1, E[j].type \in PowerTypes
      PROVE  E[j].timestamp > t
  <2>1. u <= E[j].timestamp
    BY <1>3 DEF Reached, E
  <2> QED BY <1>1, <1>2, <2>1
<1>4. Latest(E, k + 1, t, PowerTypes)
  BY <1>2, <1>3 DEF Latest, E
<1> QED BY <1>2, <1>4 DEF SleepTold, E

LEMMA SleepBegins ==
  ASSUME IInv, SleepTold(AllEvents, day, mishaps), NEW from \in Windows(PowerTypes)
  PROVE  SleepSoFar([way |-> "none", start |-> 0, total |-> 0], 0, from)
<1> DEFINE E == AllEvents
           s == [way |-> "none", start |-> 0, total |-> 0]
<1>1. /\ DOMAIN E = 1..Len(E) /\ Len(E) \in Nat /\ now \in Nat /\ DOMAIN day = 1..now - 1
      /\ \A j \in DOMAIN E : E[j].timestamp \in Nat
  BY EntriesOrdered
<1>2. from \in Nat /\ 1 <= from /\ from <= now
  BY <1>1 DEF Windows
<1>3. ASSUME NEW u \in from..now, Reached(0, u)
      PROVE  LightTicks(from, u) = {}
  <2>1. SUFFICES ASSUME NEW t \in from..u - 1, day[t].slept = "light"
                 PROVE  FALSE
    BY DEF LightTicks
  <2>2. t \in DOMAIN day /\ t \in Nat /\ u \in Nat /\ from <= t /\ t < u
    BY <1>1, <1>2
  <2> HIDE DEF E
  <2>3. \A j \in DOMAIN E : E[j].type \in PowerTypes => E[j].timestamp > t
    <3>1. ASSUME NEW j \in DOMAIN E, E[j].type \in PowerTypes
          PROVE  E[j].timestamp > t
      <4>1. j > 0
        BY <1>1
      <4>2. u <= E[j].timestamp
        BY <1>3, <3>1, <4>1 DEF Reached, E
      <4> QED BY <1>1, <2>2, <4>2
    <3> QED BY <3>1
  <2>4. "dropped" \notin mishaps
    <3>1. "dropped" \in mishaps => \E j \in DOMAIN E : E[j].type \in PowerTypes /\ E[j].timestamp <= from
      BY DEF Windows, Told, E
    <3> QED BY <1>1, <1>2, <2>2, <2>3, <3>1
  <2>5. NoneTold(E, t, PowerTypes)
    BY <2>3 DEF NoneTold
  <2>6. day[t].slept = "no"
    BY <2>2, <2>4, <2>5 DEF SleepTold, E
  <2> QED BY <2>1, <2>6
<1>4. s.way = "none" /\ s.total = 0
  OBVIOUS
<1> HIDE DEF s
<1>5. \A u \in from..now : Reached(0, u) => CountedUpTo(s, u, from) = Cardinality(LightTicks(from, u))
  BY <1>3, <1>4, FS_EmptySet DEF CountedUpTo
<1>6. SleepSoFar(s, 0, from)
  BY <1>4, <1>5 DEF SleepSoFar
<1> QED BY <1>6 DEF s

\* An event that has nothing to do with sleep.
LEMMA OtherEventPasses ==
  ASSUME IInv, NEW from \in Nat, NEW k \in 0..Len(AllEvents) - 1, NEW s,
         AllEvents[k + 1].type \notin PowerTypes, SleepSoFar(s, k, from)
  PROVE  SleepSoFar(s, k + 1, from)
<1> DEFINE E == AllEvents
<1>1. DOMAIN E = 1..Len(E) /\ Len(E) \in Nat
  BY EntriesOrdered
<1>2. \A j \in DOMAIN E : (j <= k => j <= k + 1) /\ (j > k => j = k + 1 \/ j > k + 1)
                          /\ (j <= k + 1 => j <= k \/ j = k + 1)
  BY <1>1
<1> HIDE DEF E
<1>3. \A u : Reached(k + 1, u) => Reached(k, u)
  BY <1>2 DEF Reached, E
<1> QED BY <1>2, <1>3 DEF SleepSoFar, E

\* What was asleep before the (k + 1)st event and what is after it.
PowerSplit(s, v, from, u) ==
  /\ v \in Nat /\ v <= u
  /\ v <= from => s.total = 0 /\ LightTicks(from, u) = {t \in LightTicks(from, u) : v <= t}
  /\ v > from =>
       /\ v \in from..now
       /\ CountedUpTo(s, v, from) = Cardinality(LightTicks(from, v))
       /\ LightTicks(from, u) = LightTicks(from, v) \cup {t \in LightTicks(from, u) : v <= t}
       /\ Cardinality(LightTicks(from, u)) =
            Cardinality(LightTicks(from, v))
            + Cardinality({t \in LightTicks(from, u) : v <= t})

LEMMA PowerEventSplits ==
  ASSUME IInv, NEW from \in Nat, 1 <= from, NEW k \in 0..Len(AllEvents) - 1, NEW s \in Sleeping,
         SleepSoFar(s, k, from),
         NEW u \in from..now, Reached(k + 1, u), AllEvents[k + 1].type \in PowerTypes
  PROVE  PowerSplit(s, AllEvents[k + 1].timestamp, from, u)
<1> DEFINE E == AllEvents
           v == E[k + 1].timestamp
           Late == {t \in LightTicks(from, u) : v <= t}
<1>1. /\ DOMAIN E = 1..Len(E) /\ Len(E) \in Nat /\ now \in Nat
      /\ \A j \in DOMAIN E : E[j].timestamp \in Nat /\ E[j].timestamp <= now
      /\ \A i, j \in DOMAIN E : i <= j => E[i].timestamp <= E[j].timestamp
  BY EntriesOrdered DEF Ordered
<1>2. k + 1 \in DOMAIN E /\ k + 1 <= k + 1 /\ u \in Nat /\ u <= now /\ from <= u
      /\ \A j \in DOMAIN E : (j <= k => j <= k + 1) /\ (j > k => k + 1 <= j)
  BY <1>1
<1> HIDE DEF E
<1>3. v \in Nat /\ v <= u
  BY <1>1, <1>2 DEF Reached, E
<1>4. ASSUME v <= from
      PROVE  s.total = 0 /\ LightTicks(from, u) = Late
  <2>1. \A j \in DOMAIN E : j <= k => E[j].timestamp <= from
    <3>1. \A j \in DOMAIN E : j <= k => E[j].timestamp <= v
      BY <1>1, <1>2
    <3>2. \A x, y, z \in Nat : x <= y /\ y <= z => x <= z
      OBVIOUS
    <3> HIDE DEF v
    <3> QED BY <1>1, <1>3, <1>4, <3>1, <3>2
  <2>2. s.total = 0
    BY <2>1 DEF SleepSoFar, E
  <2>3. \A t \in from..u - 1 : v <= t
    BY <1>3, <1>4
  <2> QED BY <2>2, <2>3 DEF LightTicks
<1>5. ASSUME v > from
      PROVE  /\ v \in from..now
             /\ CountedUpTo(s, v, from) = Cardinality(LightTicks(from, v))
             /\ LightTicks(from, u) = LightTicks(from, v) \cup Late
             /\ Cardinality(LightTicks(from, u)) =
                  Cardinality(LightTicks(from, v)) + Cardinality(Late)
  <2>1. v \in from..now
    BY <1>1, <1>2, <1>3, <1>5
  <2>2. Reached(k, v)
    BY <1>1, <1>2 DEF Reached, E
  <2>3. CountedUpTo(s, v, from) = Cardinality(LightTicks(from, v))
    <3> HIDE DEF v
    <3> QED BY <2>1, <2>2 DEF SleepSoFar
  <2>4. LightTicks(from, u) = LightTicks(from, v) \cup Late /\ LightTicks(from, v) \cap Late = {}
    <3> HIDE DEF v
    <3>1. \A t \in from..u - 1 : t \in from..v - 1 \/ v <= t
      BY <1>2, <1>3
    <3>2. \A t \in from..v - 1 : t \in from..u - 1 /\ ~ (v <= t)
      BY <1>2, <1>3
    <3> QED BY <3>1, <3>2 DEF LightTicks
  <2>5. /\ IsFiniteSet(LightTicks(from, v)) /\ Cardinality(LightTicks(from, v)) \in Nat
        /\ IsFiniteSet(Late) /\ Cardinality(Late) \in Nat
    <3>1. IsFiniteSet(LightTicks(from, v)) /\ Cardinality(LightTicks(from, v)) \in Nat
      BY <1>3, LightTicksFinite
    <3>2. IsFiniteSet(LightTicks(from, u))
      BY <1>2, LightTicksFinite
    <3>3. Late \in SUBSET LightTicks(from, u)
      OBVIOUS
    <3> HIDE DEF Late
    <3>4. IsFiniteSet(Late) /\ Cardinality(Late) \in Nat
      BY <3>2, <3>3, FS_Subset, FS_CardinalityType
    <3> QED BY <3>1, <3>4
  <2>6. Cardinality(LightTicks(from, u)) = Cardinality(LightTicks(from, v)) + Cardinality(Late)
    <3> DEFINE B == LightTicks(from, v)
    <3> HIDE DEF Late, B
    <3>1. Cardinality(B \cup Late) = Cardinality(B) + Cardinality(Late) - Cardinality(B \cap Late)
      BY <2>5, FS_Union DEF B
    <3>2. Cardinality(B \cap Late) = 0
      BY <2>4, FS_EmptySet DEF B
    <3>3. \A x, y \in Nat : x + y - 0 = x + y
      OBVIOUS
    <3>4. Cardinality(B \cup Late) = Cardinality(B) + Cardinality(Late)
      BY <2>5, <3>1, <3>2, <3>3 DEF B
    <3> QED BY <2>4, <3>4 DEF B
  <2> QED BY <2>1, <2>3, <2>4, <2>6
<1>6. PowerSplit(s, v, from, u)
  BY <1>3, <1>4, <1>5 DEF PowerSplit
<1> QED BY <1>6 DEF E

LEMMA SleepEventCounts ==
  ASSUME IInv, SleepTold(AllEvents, day, mishaps), SleepsAlternate(AllEvents, mishaps),
         NEW from \in Nat, 1 <= from, NEW k \in 0..Len(AllEvents) - 1, NEW s \in Sleeping, NEW r,
         SleepSoFar(s, k, from), SleptTo(r, s, AllEvents[k + 1], from, now),
         AllEvents[k + 1].type \in Ways
  PROVE  SleepSoFar(r, k + 1, from)
<1> DEFINE E == AllEvents
           e == E[k + 1]
           v == e.timestamp
<1>1. /\ DOMAIN E = 1..Len(E) /\ Len(E) \in Nat /\ now \in Nat
      /\ \A j \in DOMAIN E : E[j].timestamp \in Nat /\ E[j].timestamp <= now
  BY EntriesOrdered
<1>2. /\ k + 1 \in DOMAIN E /\ k \in Nat
      /\ \A j \in DOMAIN E : (j <= k => j <= k + 1) /\ (j > k => k + 1 <= j)
                             /\ (j < k + 1 => j <= k) /\ ~ (k + 1 < j /\ j <= k + 1)
      /\ k + 1 <= k + 1
  BY <1>1
<1>3. /\ r.way = e.type /\ r.start = v /\ r.total = s.total /\ r.way # "none"
      /\ e.type \in PowerTypes /\ s.total \in Int
  BY DEF SleptTo, Ways, PowerTypes, Sleeping
<1> HIDE DEF E
<1>4. (\A j \in DOMAIN E : j <= k + 1 => E[j].timestamp <= from) => r.total = 0
  BY <1>2, <1>3 DEF SleepSoFar, E
<1>5. \E j \in DOMAIN E :
        /\ j <= k + 1 /\ E[j].type \in Ways
        /\ \A i \in DOMAIN E : j < i /\ i <= k + 1 => E[i].type \notin PowerTypes
  BY <1>2 DEF E
<1>6. v > from => s.way = "none"
  <2>1. SUFFICES ASSUME v > from, s.way # "none"
                 PROVE  FALSE
    OBVIOUS
  <2>2. PICK j \in DOMAIN E :
          /\ j <= k /\ E[j].type \in Ways
          /\ \A i \in DOMAIN E : j < i /\ i <= k => E[i].type \notin PowerTypes
    BY <2>1 DEF SleepSoFar, E
  <2>3. v > 1
    BY <1>1, <1>2, <2>1
  <2>4. j < k + 1
    BY <1>1, <1>2, <2>2
  <2>5. PICK i \in DOMAIN E : j < i /\ i < k + 1 /\ E[i].type = "WAKE_UP"
    BY <1>2, <2>2, <2>3, <2>4 DEF SleepsAlternate, E
  <2> QED BY <1>2, <2>2, <2>5 DEF PowerTypes
<1>7. ASSUME NEW u \in from..now, Reached(k + 1, u)
      PROVE  CountedUpTo(r, u, from) = Cardinality(LightTicks(from, u))
  <2> DEFINE Late == {t \in LightTicks(from, u) : v <= t}
             Slept == {t \in from..u - 1 : v <= t /\ SleptAfter(e, t) = "light"}
             count == SleepCounted(e.type, v, u, from, now)
  <2>1. /\ v \in Nat /\ v <= u /\ u \in Nat /\ u <= now /\ from <= u
        /\ v <= from => s.total = 0 /\ LightTicks(from, u) = Late
        /\ v > from =>
             /\ CountedUpTo(s, v, from) = Cardinality(LightTicks(from, v))
             /\ Cardinality(LightTicks(from, u)) =
                  Cardinality(LightTicks(from, v)) + Cardinality(Late)
    <3>1. PowerSplit(s, v, from, u)
      BY <1>3, <1>7, PowerEventSplits DEF E
    <3>2. u \in Nat /\ u <= now /\ from <= u
      BY <1>1
    <3> HIDE DEF v
    <3> QED BY <3>1, <3>2 DEF PowerSplit
  <2>2. Late = Slept
    <3>1. \A t \in from..u - 1 : v <= t => day[t].slept = SleptAfter(e, t)
      BY <1>3, <1>7, TicksAfter DEF E
    <3> QED BY <3>1 DEF LightTicks
  <2>3. count = Cardinality(Slept)
    <3>1. e.type \in Ways
      BY DEF E
    <3> HIDE DEF e
    <3> QED BY <1>1, <2>1, <3>1, SleepOfEvent
  <2>4. CountedUpTo(r, u, from) = s.total + count
    BY <1>3 DEF CountedUpTo
  <2>5. Cardinality(LightTicks(from, u)) \in Nat
    BY <2>1, LightTicksFinite
  <2> HIDE DEF Late, Slept, count, v
  <2>6. CASE v <= from
    BY <2>1, <2>2, <2>3, <2>4, <2>5, <2>6
  <2>7. CASE v > from
    <3>1. s.total = Cardinality(LightTicks(from, v))
      BY <1>3, <1>6, <2>1, <2>7 DEF CountedUpTo
    <3> QED BY <2>1, <2>2, <2>3, <2>4, <2>7, <3>1
  <2> QED BY <2>1, <2>6, <2>7
<1> QED BY <1>3, <1>4, <1>5, <1>7 DEF SleepSoFar, E

LEMMA WakeUpCounts ==
  ASSUME IInv, SleepTold(AllEvents, day, mishaps),
         NEW from \in Nat, 1 <= from, NEW k \in 0..Len(AllEvents) - 1, NEW s \in Sleeping, NEW r,
         SleepSoFar(s, k, from), SleptTo(r, s, AllEvents[k + 1], from, now),
         AllEvents[k + 1].type = "WAKE_UP"
  PROVE  SleepSoFar(r, k + 1, from)
<1> DEFINE E == AllEvents
           e == E[k + 1]
           v == e.timestamp
           count == SleepCounted(s.way, s.start, v, from, now)
<1>1. /\ DOMAIN E = 1..Len(E) /\ Len(E) \in Nat /\ now \in Nat
      /\ \A j \in DOMAIN E : E[j].timestamp \in Nat /\ E[j].timestamp <= now
      /\ \A i, j \in DOMAIN E : i <= j => E[i].timestamp <= E[j].timestamp
  BY EntriesOrdered DEF Ordered
<1>2. /\ k + 1 \in DOMAIN E /\ k \in Nat
      /\ \A j \in DOMAIN E : j <= k => j <= k + 1
      /\ k + 1 <= k + 1
  BY <1>1
<1>3. /\ r.way = "none" /\ s.total \in Int /\ s.start \in Nat /\ e.type \in PowerTypes
      /\ r.total = s.total + (IF s.way = "none" THEN 0 ELSE count)
      /\ r.total \in Int
  <2>1. s.total \in Int /\ s.start \in Nat /\ r.total \in Int /\ e.type \in PowerTypes
    BY DEF SleptTo, PowerTypes, Sleeping
  <2>2. CASE s.way = "none"
    <3>1. r = s
      BY <2>2 DEF SleptTo
    <3> QED BY <2>1, <2>2, <3>1
  <2>3. CASE s.way # "none"
    BY <2>1, <2>3 DEF SleptTo
  <2> QED BY <2>2, <2>3
<1>4. r.total = CountedUpTo(s, v, from)
  BY <1>3 DEF CountedUpTo
<1>5. v \in Nat
  BY <1>1, <1>2
<1> HIDE DEF E
<1>6. v <= from => count = 0
  BY <1>1, <1>3, <1>5, SleepCountedIs
<1> HIDE DEF count, v
<1>7. (\A j \in DOMAIN E : j <= k + 1 => E[j].timestamp <= from) => r.total = 0
  BY <1>2, <1>3, <1>6 DEF SleepSoFar, E, v
<1>8. v <= from => \A j \in DOMAIN E : j <= k + 1 => E[j].timestamp <= from
  <2>1. \A j \in DOMAIN E : j <= k + 1 => E[j].timestamp <= v
    BY <1>1, <1>2 DEF v
  <2>2. \A x, y, z \in Nat : x <= y /\ y <= z => x <= z
    OBVIOUS
  <2> QED BY <1>1, <1>5, <2>1, <2>2
<1>9. ASSUME NEW u \in from..now, Reached(k + 1, u)
      PROVE  CountedUpTo(r, u, from) = Cardinality(LightTicks(from, u))
  <2> DEFINE Late == {t \in LightTicks(from, u) : v <= t}
  <2>1. /\ v <= from => LightTicks(from, u) = Late
        /\ v > from =>
             /\ CountedUpTo(s, v, from) = Cardinality(LightTicks(from, v))
             /\ LightTicks(from, u) = LightTicks(from, v) \cup Late
    <3>1. PowerSplit(s, v, from, u)
      BY <1>3, <1>9, PowerEventSplits DEF E, v
    <3> QED BY <3>1 DEF PowerSplit
  <2>2. Late = {}
    <3>1. \A t \in from..u - 1 : v <= t => day[t].slept = SleptAfter(e, t)
      BY <1>3, <1>9, TicksAfter DEF E, v
    <3>2. \A t \in from..u - 1 : v <= t => day[t].slept = "no"
      BY <3>1 DEF SleptAfter, E
    <3> QED BY <3>2 DEF LightTicks
  <2>3. CountedUpTo(r, u, from) = r.total
    BY <1>3 DEF CountedUpTo
  <2> HIDE DEF Late
  <2>4. CASE v <= from
    BY <1>7, <1>8, <2>1, <2>2, <2>3, <2>4, FS_EmptySet
  <2>5. CASE v > from
    BY <1>4, <2>1, <2>2, <2>3, <2>5
  <2> QED BY <1>5, <2>4, <2>5
<1> QED BY <1>3, <1>7, <1>9 DEF SleepSoFar, E

LEMMA SleepCountedTo == TellInv => SleepReported
<1> SUFFICES ASSUME TellInv, mishaps \cap {"refused", "others", "slow", "ended"} = {},
                    NEW from \in Windows(PowerTypes)
             PROVE  CalculateSleepTime(from, now) =
                      Cardinality({t \in from..now - 1 : day[t].slept = "light"})
  BY DEF SleepReported, Ticks
<1> DEFINE E == AllEvents
           N == Len(E)
<1>1. IInv /\ SleepTold(E, day, mishaps) /\ SleepsAlternate(E, mishaps)
  BY DEF TellInv, SleepInv, Spared
<1>2. /\ DOMAIN E = 1..N /\ N \in Nat /\ now \in Nat
      /\ \A j \in DOMAIN E : E[j].timestamp \in Nat /\ E[j].timestamp <= now
  BY <1>1, EntriesOrdered
<1>3. from \in Nat /\ 1 <= from /\ from <= now
  BY <1>2 DEF Windows
<1>4. PICK after : SleepUnfolded(after, from, now)
  BY <1>1, <1>3, SleepUnfolds
<1> DEFINE T == {k \in 0..N : SleepSoFar(after[k], k, from)}
<1>5. 0 \in T
  <2>1. SleepSoFar(after[0], 0, from)
    BY <1>1, <1>4, SleepBegins DEF SleepUnfolded
  <2> QED BY <1>2, <2>1
<1>6. ASSUME NEW k \in 0..N - 1, k \in T
      PROVE  k + 1 \in T
  <2>1. k + 1 \in 1..N /\ (k + 1) - 1 = k /\ k + 1 \in 0..N /\ k \in 0..N /\ k + 1 \in DOMAIN E
    BY <1>2
  <2> DEFINE s == after[k]
             r == after[k + 1]
  <2>2. s \in Sleeping /\ r = SleptTurn(s, E[k + 1], from, now)
    BY <1>4, <2>1 DEF SleepUnfolded
  <2>3. SleepSoFar(s, k, from)
    BY <1>6
  <2> HIDE DEF s, r
  <2>4. SleptTo(r, s, E[k + 1], from, now)
    BY <1>2, <1>3, <2>1, <2>2, SleptTurnFacts
  <2>5. ASSUME E[k + 1].type \in Ways
        PROVE  SleepSoFar(r, k + 1, from)
    BY <1>1, <1>3, <2>2, <2>3, <2>4, <2>5, SleepEventCounts
  <2>6. ASSUME E[k + 1].type = "WAKE_UP"
        PROVE  SleepSoFar(r, k + 1, from)
    BY <1>1, <1>3, <2>2, <2>3, <2>4, <2>6, WakeUpCounts
  <2>7. ASSUME E[k + 1].type \notin PowerTypes
        PROVE  SleepSoFar(r, k + 1, from)
    <3>1. r = s
      BY <2>4, <2>7 DEF SleptTo
    <3> QED BY <1>1, <1>3, <2>3, <2>7, <3>1, OtherEventPasses
  <2>8. SleepSoFar(r, k + 1, from)
    BY <2>5, <2>6, <2>7 DEF PowerTypes
  <2> QED BY <2>1, <2>8 DEF r
<1>7. SleepSoFar(after[N], N, from)
  <2>1. \A k \in 0..N : k \in T
    <3> HIDE DEF T, N
    <3> QED BY <1>2, <1>5, <1>6, BoundedInduction
  <2>2. N \in 0..N
    BY <1>2
  <2> HIDE DEF N
  <2> QED BY <2>1, <2>2
<1> DEFINE s == after[N]
<1>8. s \in Sleeping
  <2>1. N \in 0..N
    BY <1>2
  <2> QED BY <1>4, <2>1 DEF SleepUnfolded
<1>9. CountedUpTo(s, now, from) = Cardinality(LightTicks(from, now))
  <2>1. Reached(N, now)
    BY <1>2 DEF Reached
  <2>2. now \in from..now
    BY <1>2, <1>3
  <2> HIDE DEF N
  <2> QED BY <1>7, <2>1, <2>2 DEF SleepSoFar
<1>10. CalculateSleepTime(from, now) =
         IF now <= from THEN 0
         ELSE IF s.way = "none" THEN s.total
         ELSE s.total + SleepCounted(s.way, s.start, now, from, now)
  BY <1>4 DEF SleepUnfolded
<1> HIDE DEF s
<1>11. CASE now <= from
  <2>1. LightTicks(from, now) = {}
    BY <1>2, <1>3, <1>11 DEF LightTicks
  <2>2. CalculateSleepTime(from, now) = Cardinality(LightTicks(from, now))
    BY <1>10, <1>11, <2>1, FS_EmptySet
  <2> QED BY <2>2 DEF LightTicks
<1>12. CASE ~ (now <= from)
  <2>1. s.total + 0 = s.total
    BY <1>8 DEF Sleeping
  <2>2. CalculateSleepTime(from, now) = CountedUpTo(s, now, from)
    BY <1>10, <1>12, <2>1 DEF CountedUpTo
  <2> QED BY <1>9, <2>2 DEF LightTicks
<1> QED BY <1>11, <1>12

(***************************************************************************)
(* Whatever the sizes of the rings, the clean-ups and the window, what the *)
(* history dialog computes from the events of the log is what happened:    *)
(* the time asleep that was not hibernation, the time awake, and of that   *)
(* the time with the screen off.                                           *)
(***************************************************************************)
THEOREM TimesAreTrue == Spec => []TimesReported
<1>1. TellInv => TimesReported
  BY SleepCountedTo, ActivityCounted, ScreenOffCounted DEF TimesReported
<1> QED BY <1>1, TellInvariance, PTL
=============================================================================
