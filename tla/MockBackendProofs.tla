------------------------- MODULE MockBackendProofs -------------------------
(* What the in-memory backend guarantees for every value of its constants. *)
EXTENDS MockBackend, SequenceTheorems, LedgerProofs

-----------------------------------------------------------------------------
(* Sequences.                                                              *)

(* What an element appended to a sequence leaves of it.                    *)
LEMMA Appended ==
    ASSUME NEW S, NEW s \in Seq(S), NEW e \in S
    PROVE  /\ Append(s, e) \in Seq(S)
           /\ Len(s) \in Nat /\ Len(Append(s, e)) = Len(s) + 1
           /\ \A i \in 1 .. Len(s) : Append(s, e)[i] = s[i]
           /\ Append(s, e)[Len(s) + 1] = e
OBVIOUS

(* A sequence given by its elements.                                       *)
LEMMA Listed ==
    ASSUME NEW S, NEW n \in Nat, NEW f \in [1 .. n -> S]
    PROVE  f \in Seq(S) /\ Len(f) = n
OBVIOUS

(* Two sequences with the same elements.                                   *)
LEMMA SameElements ==
    ASSUME NEW S, NEW s \in Seq(S), NEW t \in Seq(S), Len(s) = Len(t),
           \A i \in 1 .. Len(s) : s[i] = t[i]
    PROVE  s = t
OBVIOUS

(* Putting an element in front of a sequence,                              *)
LEMMA Prefixed ==
    ASSUME NEW S, NEW s \in Seq(S), NEW e \in S
    PROVE  /\ <<e>> \o s \in Seq(S)
           /\ Len(s) \in Nat /\ Len(<<e>> \o s) = Len(s) + 1
           /\ (<<e>> \o s)[1] = e
           /\ \A i \in 2 .. Len(s) + 1 : (<<e>> \o s)[i] = s[i - 1]
OBVIOUS

(* leaving out the last one,                                               *)
LEMMA WithoutLast ==
    ASSUME NEW S, NEW s \in Seq(S), Len(s) > 0
    PROVE  /\ Front(s) \in Seq(S)
           /\ Len(Front(s)) = Len(s) - 1
           /\ \A i \in 1 .. Len(s) - 1 : Front(s)[i] = s[i]
<1> DEFINE n == Len(s) - 1
<1>1. n \in Nat /\ \A i \in 1 .. n : s[i] \in S
  OBVIOUS
<1>2. Front(s) = [i \in 1 .. n |-> s[i]]
  BY DEF Front
<1> HIDE DEF n
<1>3. Front(s) \in [1 .. n -> S]
  BY <1>1, <1>2
<1>4. Front(s) \in Seq(S) /\ Len(Front(s)) = n
  BY <1>1, <1>3, Listed
<1>5. QED
  BY <1>2, <1>4 DEF n

(* and leaving out the first one.                                          *)
LEMMA WithoutFirst ==
    ASSUME NEW S, NEW s \in Seq(S), Len(s) > 0
    PROVE  /\ Tail(s) \in Seq(S)
           /\ Len(Tail(s)) = Len(s) - 1
           /\ \A i \in 1 .. Len(s) - 1 : Tail(s)[i] = s[i + 1]
OBVIOUS
-----------------------------------------------------------------------------
(* The feed.                                                               *)

ShownCount(events) == IF Len(events) < FeedLimit THEN Len(events) ELSE FeedLimit
KeptCount(events) == IF Len(events) < RingSize THEN Len(events) ELSE RingSize

(* The newest events, newest first, and the newest events in their order.  *)
Shown(events) ==
    [i \in 1 .. ShownCount(events) |-> events[Len(events) + 1 - i]]
Kept(events) ==
    [i \in 1 .. KeptCount(events) |-> events[Len(events) - KeptCount(events) + i]]

(* What a feed shows is a sequence of events, no longer than its limit.    *)
LEMMA ShownType ==
    ASSUME NEW S, NEW l \in Seq(S)
    PROVE  /\ Shown(l) \in Seq(S)
           /\ Len(Shown(l)) = ShownCount(l)
           /\ ShownCount(l) \in Nat /\ ShownCount(l) <= Len(l)
           /\ ShownCount(l) <= FeedLimit
           /\ \A i \in 1 .. ShownCount(l) : Shown(l)[i] = l[Len(l) + 1 - i]
<1> DEFINE n == ShownCount(l)
<1>1. /\ Len(l) \in Nat /\ FeedLimit \in Nat
      /\ n \in Nat /\ n <= Len(l) /\ n <= FeedLimit
  BY MockAssumption DEF ShownCount
<1> HIDE DEF n
<1>2. \A i \in 1 .. n : Len(l) + 1 - i \in 1 .. Len(l)
  BY <1>1
<1>3. [i \in 1 .. n |-> l[Len(l) + 1 - i]] \in [1 .. n -> S]
  BY <1>2
<1>4. Shown(l) = [i \in 1 .. n |-> l[Len(l) + 1 - i]]
  BY DEF Shown, n
<1>5. Shown(l) \in [1 .. n -> S]
  BY <1>3, <1>4
<1>6. Shown(l) \in Seq(S) /\ Len(Shown(l)) = n
  BY <1>1, <1>5, Listed
<1>7. QED
  BY <1>1, <1>4, <1>6 DEF n

(* What the ring keeps is one too, no longer than its size.                *)
LEMMA KeptType ==
    ASSUME NEW S, NEW l \in Seq(S)
    PROVE  /\ Kept(l) \in Seq(S)
           /\ Len(Kept(l)) = KeptCount(l)
           /\ KeptCount(l) \in Nat /\ KeptCount(l) <= Len(l)
           /\ KeptCount(l) <= RingSize
           /\ \A i \in 1 .. KeptCount(l) :
                 Kept(l)[i] = l[Len(l) - KeptCount(l) + i]
<1> DEFINE n == KeptCount(l)
<1>1. /\ Len(l) \in Nat /\ RingSize \in Nat
      /\ n \in Nat /\ n <= Len(l) /\ n <= RingSize
  BY MockAssumption DEF KeptCount
<1> HIDE DEF n
<1>2. \A i \in 1 .. n : Len(l) - n + i \in 1 .. Len(l)
  BY <1>1
<1>3. [i \in 1 .. n |-> l[Len(l) - n + i]] \in [1 .. n -> S]
  BY <1>2
<1>4. Kept(l) = [i \in 1 .. n |-> l[Len(l) - n + i]]
  BY DEF Kept, n
<1>5. Kept(l) \in [1 .. n -> S]
  BY <1>3, <1>4
<1>6. Kept(l) \in Seq(S) /\ Len(Kept(l)) = n
  BY <1>1, <1>5, Listed
<1>7. QED
  BY <1>1, <1>4, <1>6 DEF n

(* The handler of a feed keeps showing the newest events.                  *)
LEMMA EnteredShown ==
    ASSUME NEW S, NEW l \in Seq(S), NEW e \in S
    PROVE  Entered(Shown(l), e) = Shown(Append(l, e))
<1> DEFINE s == Shown(l)
           next == <<e>> \o s
           m == Append(l, e)
           n == ShownCount(l)
<1>1. /\ m \in Seq(S) /\ Len(l) \in Nat /\ Len(m) = Len(l) + 1
      /\ \A i \in 1 .. Len(l) : m[i] = l[i]
      /\ m[Len(l) + 1] = e
  BY Appended
<1>2. /\ s \in Seq(S) /\ Len(s) = n /\ n \in Nat /\ n <= Len(l)
      /\ \A i \in 1 .. n : s[i] = l[Len(l) + 1 - i]
  BY ShownType
<1>3. /\ next \in Seq(S) /\ Len(next) = n + 1 /\ next[1] = e
      /\ \A i \in 2 .. n + 1 : next[i] = s[i - 1]
  BY <1>2, Prefixed
<1>4. /\ Shown(m) \in Seq(S) /\ Len(Shown(m)) = ShownCount(m)
      /\ \A i \in 1 .. ShownCount(m) : Shown(m)[i] = m[Len(m) + 1 - i]
  BY <1>1, ShownType
<1>5. /\ FeedLimit \in Nat /\ FeedLimit > 0
      /\ n = IF Len(l) < FeedLimit THEN Len(l) ELSE FeedLimit
      /\ ShownCount(m) = IF Len(m) < FeedLimit THEN Len(m) ELSE FeedLimit
  BY MockAssumption DEF ShownCount
<1>6. Entered(s, e) = IF Len(next) > FeedLimit THEN Front(next) ELSE next
  BY DEF Entered
<1> HIDE DEF s, next, m, n
<1>7. \A i \in 1 .. n + 1 : next[i] = m[Len(m) + 1 - i]
  <2>1. SUFFICES ASSUME NEW i \in 1 .. n + 1, i # 1
                 PROVE  next[i] = m[Len(m) + 1 - i]
    BY <1>1, <1>2, <1>3
  <2>2. i \in 2 .. n + 1 /\ i - 1 \in 1 .. n
    BY <1>2, <2>1
  <2>3. next[i] = l[Len(l) + 1 - (i - 1)]
    BY <1>2, <1>3, <2>2
  <2>4. Len(l) + 1 - (i - 1) \in 1 .. Len(l)
        /\ Len(l) + 1 - (i - 1) = Len(m) + 1 - i
    BY <1>1, <1>2, <2>2
  <2>5. QED
    BY <1>1, <2>3, <2>4
<1>8. CASE n + 1 > FeedLimit
  <2>1. n = FeedLimit /\ ShownCount(m) = n
    BY <1>1, <1>2, <1>5, <1>8
  <2>2. /\ Front(next) \in Seq(S) /\ Len(Front(next)) = n
        /\ \A i \in 1 .. n : Front(next)[i] = next[i]
    <3>1. Len(next) > 0 /\ Len(next) - 1 = n
      BY <1>2, <1>3
    <3>2. QED
      BY <1>3, <3>1, WithoutLast
  <2>3. \A i \in 1 .. n : Front(next)[i] = Shown(m)[i]
    <3>1. SUFFICES ASSUME NEW i \in 1 .. n
                   PROVE  Front(next)[i] = Shown(m)[i]
      OBVIOUS
    <3>2. i \in 1 .. n + 1
      BY <1>2
    <3>3. Front(next)[i] = m[Len(m) + 1 - i]
      BY <1>7, <2>2, <3>2
    <3>4. QED
      BY <1>4, <2>1, <3>3
  <2>4. Front(next) = Shown(m)
    <3> DEFINE f == Front(next)
               t == Shown(m)
    <3>1. f \in Seq(S) /\ t \in Seq(S) /\ Len(f) = n /\ Len(t) = n
      BY <1>4, <2>1, <2>2
    <3>2. \A i \in 1 .. n : f[i] = t[i]
      BY <2>3
    <3> HIDE DEF f, t
    <3>3. f = t
      BY <3>1, <3>2, SameElements
    <3>4. QED
      BY <3>3 DEF f, t
  <2>5. QED
    BY <1>3, <1>6, <1>8, <2>4 DEF s, m
<1>9. CASE ~ (n + 1 > FeedLimit)
  <2>1. ShownCount(m) = n + 1
    BY <1>1, <1>2, <1>5, <1>9
  <2>2. next = Shown(m)
    BY <1>3, <1>4, <1>7, <2>1, SameElements
  <2>3. QED
    BY <1>3, <1>6, <1>9, <2>2 DEF s, m
<1>10. QED
  BY <1>8, <1>9

(* And the ring keeps holding them.                                        *)
LEMMA PushedKept ==
    ASSUME NEW S, NEW l \in Seq(S), NEW e \in S
    PROVE  Pushed(Kept(l), e) = Kept(Append(l, e))
<1> DEFINE k == Kept(l)
           m == Append(l, e)
           n == KeptCount(l)
           p == Pushed(k, e)
<1>1. /\ m \in Seq(S) /\ Len(l) \in Nat /\ Len(m) = Len(l) + 1
      /\ \A i \in 1 .. Len(l) : m[i] = l[i]
      /\ m[Len(l) + 1] = e
  BY Appended
<1>2. /\ k \in Seq(S) /\ Len(k) = n /\ n \in Nat /\ n <= Len(l)
      /\ \A i \in 1 .. n : k[i] = l[Len(l) - n + i]
  BY KeptType
<1>3. /\ Kept(m) \in Seq(S) /\ Len(Kept(m)) = KeptCount(m)
      /\ \A i \in 1 .. KeptCount(m) :
            Kept(m)[i] = m[Len(m) - KeptCount(m) + i]
  BY <1>1, KeptType
<1>4. /\ RingSize \in Nat /\ RingSize > 0
      /\ n = IF Len(l) < RingSize THEN Len(l) ELSE RingSize
      /\ KeptCount(m) = IF Len(m) < RingSize THEN Len(m) ELSE RingSize
  BY MockAssumption DEF KeptCount
<1>5. p = IF Len(k) = RingSize THEN Append(Tail(k), e) ELSE Append(k, e)
  BY DEF Pushed
<1> HIDE DEF k, m, n, p
<1>6. CASE n = RingSize
  <2> DEFINE t == Tail(k)
  <2>1. /\ t \in Seq(S) /\ Len(t) = n - 1
        /\ \A i \in 1 .. n - 1 : t[i] = k[i + 1]
    BY <1>2, <1>4, <1>6, WithoutFirst
  <2>2. p = Append(t, e)
    BY <1>2, <1>5, <1>6
  <2> HIDE DEF t
  <2>3. /\ p \in Seq(S) /\ Len(p) = n /\ p[n] = e
        /\ \A i \in 1 .. n - 1 : p[i] = t[i]
    <3>1. Len(t) + 1 = n
      BY <1>2, <2>1
    <3>2. QED
      BY <2>1, <2>2, <3>1, Appended
  <2>4. KeptCount(m) = n
    BY <1>1, <1>2, <1>4, <1>6
  <2>5. ASSUME NEW i \in 1 .. n
        PROVE  p[i] = Kept(m)[i]
    <3>1. Kept(m)[i] = m[Len(l) + 1 - n + i]
      BY <1>1, <1>3, <2>4, SMTT(60)
    <3>2. CASE i = n
      BY <1>1, <1>2, <2>3, <3>1, <3>2
    <3>3. CASE i # n
      <4>1. i \in 1 .. n - 1 /\ i + 1 \in 1 .. n
            /\ Len(l) - n + (i + 1) \in 1 .. Len(l)
            /\ Len(l) - n + (i + 1) = Len(l) + 1 - n + i
        BY <1>1, <1>2, <3>3
      <4>2. p[i] = l[Len(l) - n + (i + 1)]
        BY <1>2, <2>1, <2>3, <4>1
      <4>3. QED
        BY <1>1, <3>1, <4>1, <4>2
    <3>4. QED
      BY <3>2, <3>3
  <2>6. p = Kept(m)
    BY <1>3, <2>3, <2>4, <2>5, SameElements
  <2>7. QED
    BY <2>6 DEF p, k, m
<1>7. CASE n # RingSize
  <2>1. p = Append(k, e)
    BY <1>2, <1>5, <1>7
  <2>2. /\ p \in Seq(S) /\ Len(p) = n + 1 /\ p[n + 1] = e
        /\ \A i \in 1 .. n : p[i] = k[i]
    BY <1>2, <2>1, Appended
  <2>3. n = Len(l) /\ KeptCount(m) = n + 1
    BY <1>1, <1>2, <1>4, <1>7
  <2>4. ASSUME NEW i \in 1 .. n + 1
        PROVE  p[i] = Kept(m)[i]
    <3>1. Kept(m)[i] = m[i]
      BY <1>1, <1>3, <2>3
    <3>2. CASE i = n + 1
      BY <1>1, <2>2, <2>3, <3>1, <3>2
    <3>3. CASE i # n + 1
      <4>1. i \in 1 .. n /\ Len(l) - n + i = i
        BY <1>1, <1>2, <2>3, <3>3
      <4>2. p[i] = l[i]
        BY <1>2, <2>2, <4>1
      <4>3. QED
        BY <1>1, <2>3, <3>1, <4>1, <4>2
    <3>4. QED
      BY <3>2, <3>3
  <2>5. p = Kept(m)
    BY <1>3, <2>2, <2>3, <2>4, SameElements
  <2>6. QED
    BY <2>5 DEF p, k, m
<1>8. QED
  BY <1>6, <1>7
(* One event is one push and one call of each handler.                     *)
IsRing(s, ring, events) ==
    s = [n \in 0 .. Len(events) |->
            IF n = 0 THEN ring ELSE Pushed(s[n - 1], events[n])]

IsReplay(s, entries, events) ==
    s = [n \in 0 .. Len(events) |->
            IF n = 0 THEN entries ELSE Entered(s[n - 1], events[n])]

(* One event emitted is one push onto the ring,                            *)
LEMMA RingAfterOne ==
    ASSUME NEW ring, NEW e
    PROVE  RingAfter(ring, <<e>>) = Pushed(ring, e)
<1> DEFINE s0 == [n \in 0 .. 1 |-> IF n = 0 THEN ring ELSE Pushed(ring, e)]
<1>1. Len(<<e>>) = 1 /\ <<e>>[1] = e
  OBVIOUS
<1>2. IsRing(s0, ring, <<e>>)
  <2>1. \A n \in 0 .. 1 : s0[n] = IF n = 0 THEN ring
                                  ELSE Pushed(s0[n - 1], <<e>>[n])
    <3>1. s0[0] = ring /\ s0[1] = Pushed(ring, e)
      OBVIOUS
    <3> HIDE DEF s0
    <3>2. QED
      BY <1>1, <3>1
  <2>2. s0 = [n \in 0 .. 1 |-> s0[n]]
    OBVIOUS
  <2> HIDE DEF s0
  <2>3. QED
    BY <1>1, <2>1, <2>2 DEF IsRing
<1> HIDE DEF s0
<1>3. \E s : IsRing(s, ring, <<e>>) /\ RingAfter(ring, <<e>>) = s[Len(<<e>>)]
  BY <1>2 DEF IsRing, RingAfter
<1>4. PICK s : IsRing(s, ring, <<e>>) /\ RingAfter(ring, <<e>>) = s[1]
  BY <1>1, <1>3
<1>5. s[0] = ring /\ s[1] = Pushed(s[0], e)
  <2>1. 0 \in 0 .. 1 /\ 1 \in 0 .. 1 /\ 1 - 1 = 0
    OBVIOUS
  <2>2. QED
    BY <1>1, <1>4, <2>1 DEF IsRing
<1>6. QED
  BY <1>4, <1>5

(* and one call of the handler of each feed.                               *)
LEMMA ShownAfterOne ==
    ASSUME NEW entries, NEW e
    PROVE  ShownAfter(entries, <<e>>) = Entered(entries, e)
<1> DEFINE s0 == [n \in 0 .. 1 |-> IF n = 0 THEN entries ELSE Entered(entries, e)]
<1>1. Len(<<e>>) = 1 /\ <<e>>[1] = e
  OBVIOUS
<1>2. IsReplay(s0, entries, <<e>>)
  <2>1. \A n \in 0 .. 1 : s0[n] = IF n = 0 THEN entries
                                  ELSE Entered(s0[n - 1], <<e>>[n])
    <3>1. s0[0] = entries /\ s0[1] = Entered(entries, e)
      OBVIOUS
    <3> HIDE DEF s0
    <3>2. QED
      BY <1>1, <3>1
  <2>2. s0 = [n \in 0 .. 1 |-> s0[n]]
    OBVIOUS
  <2> HIDE DEF s0
  <2>3. QED
    BY <1>1, <2>1, <2>2 DEF IsReplay
<1> HIDE DEF s0
<1>3. \E s : IsReplay(s, entries, <<e>>)
             /\ ShownAfter(entries, <<e>>) = s[Len(<<e>>)]
  BY <1>2 DEF IsReplay, ShownAfter
<1>4. PICK s : IsReplay(s, entries, <<e>>) /\ ShownAfter(entries, <<e>>) = s[1]
  BY <1>1, <1>3
<1>5. s[0] = entries /\ s[1] = Entered(s[0], e)
  <2>1. 0 \in 0 .. 1 /\ 1 \in 0 .. 1 /\ 1 - 1 = 0
    OBVIOUS
  <2>2. QED
    BY <1>1, <1>4, <2>1 DEF IsReplay
<1>6. QED
  BY <1>4, <1>5

(* The first events of a sequence, one more at a time.                     *)
LEMMA OneMore ==
    ASSUME NEW S, NEW l \in Seq(S), NEW n \in 1 .. Len(l)
    PROVE  /\ SubSeq(l, 1, n - 1) \in Seq(S)
           /\ l[n] \in S
           /\ SubSeq(l, 1, n) = Append(SubSeq(l, 1, n - 1), l[n])
BY AppendIsConcat, SubSeqRecursiveSecond, SubSeqProperties

(* Replaying a sequence of events from nothing shows the newest of them.   *)
LEMMA ReplayShows ==
    ASSUME NEW S, NEW l \in Seq(S)
    PROVE  Replayed(l) = Shown(l)
<1> DEFINE prefix(n) == Shown(SubSeq(l, 1, n))
           s0 == [n \in 0 .. Len(l) |-> prefix(n)]
<1>1. Len(l) \in Nat
  OBVIOUS
<1>2. prefix(0) = <<>>
  <2>1. SubSeq(l, 1, 0) = <<>> /\ <<>> \in Seq(S) /\ Len(<<>>) = 0
    OBVIOUS
  <2>2. Shown(<<>>) \in Seq(S) /\ Len(Shown(<<>>)) = ShownCount(<<>>)
        /\ ShownCount(<<>>) \in Nat /\ ShownCount(<<>>) <= 0
    BY <2>1, ShownType
  <2>3. Len(Shown(<<>>)) = 0
    BY <2>2
  <2>4. Shown(<<>>) = <<>>
    BY <2>2, <2>3, EmptySeq
  <2>5. QED
    BY <2>1, <2>4
<1>3. ASSUME NEW n \in 1 .. Len(l)
      PROVE  prefix(n) = Entered(prefix(n - 1), l[n])
  <2> DEFINE k == SubSeq(l, 1, n - 1)
  <2>1. k \in Seq(S) /\ l[n] \in S /\ SubSeq(l, 1, n) = Append(k, l[n])
    BY OneMore
  <2> HIDE DEF k
  <2>2. Entered(Shown(k), l[n]) = Shown(Append(k, l[n]))
    BY <2>1, EnteredShown
  <2>3. QED
    BY <2>1, <2>2 DEF k
<1>0. prefix(Len(l)) = Shown(l)
  BY SubSeqFull
<1> HIDE DEF prefix
<1>4. IsReplay(s0, <<>>, l)
  <2>1. s0 = [n \in 0 .. Len(l) |-> s0[n]]
    OBVIOUS
  <2> HIDE DEF s0
  <2>2. \A n \in 0 .. Len(l) :
           s0[n] = IF n = 0 THEN <<>> ELSE Entered(s0[n - 1], l[n])
    BY <1>1, <1>2, <1>3 DEF s0
  <2>3. QED
    BY <2>1, <2>2 DEF IsReplay
<1>5. \A n \in 0 .. Len(l) : s0[n] = prefix(n)
  OBVIOUS
<1> HIDE DEF s0
<1>6. \E s : IsReplay(s, <<>>, l) /\ ShownAfter(<<>>, l) = s[Len(l)]
  BY <1>4 DEF IsReplay, ShownAfter
<1>7. PICK s : IsReplay(s, <<>>, l) /\ ShownAfter(<<>>, l) = s[Len(l)]
  BY <1>6
<1> DEFINE Bad == {n \in 0 .. Len(l) : s[n] # s0[n]}
<1>8. Bad = {}
  <2>1. SUFFICES ASSUME Bad # {}
                 PROVE  FALSE
    OBVIOUS
  <2>2. PICK n \in Bad : \A m \in Bad : n <= m
    <3>1. Bad \subseteq Nat
      OBVIOUS
    <3> HIDE DEF Bad
    <3>2. QED
      BY <2>1, <3>1, LeastNatural
  <2>3. s[0] = <<>>
    BY <1>1, <1>7 DEF IsReplay
  <2>4. n # 0
    BY <1>1, <1>2, <1>5, <2>2, <2>3
  <2>5. n \in 1 .. Len(l) /\ n - 1 \in 0 .. Len(l) /\ n - 1 \notin Bad
    BY <1>1, <2>2, <2>4
  <2>6. s[n - 1] = s0[n - 1]
    BY <2>5
  <2>7. s[n] = Entered(s[n - 1], l[n])
    BY <1>7, <2>4, <2>5 DEF IsReplay
  <2>8. s0[n] = Entered(s0[n - 1], l[n])
    BY <1>3, <1>5, <2>2, <2>5
  <2>9. QED
    BY <2>2, <2>6, <2>7, <2>8
<1>9. Len(l) \in 0 .. Len(l)
  BY <1>1
<1>10. QED
  BY <1>0, <1>5, <1>7, <1>8, <1>9 DEF Replayed

(* What is shown depends only on what the ring keeps.                      *)
LEMMA KeptShows ==
    ASSUME NEW S, NEW l \in Seq(S)
    PROVE  Shown(Kept(l)) = Shown(l)
<1> DEFINE k == Kept(l)
           c == KeptCount(l)
           n == ShownCount(l)
<1>1. /\ k \in Seq(S) /\ Len(k) = c /\ c \in Nat /\ c <= Len(l)
      /\ \A i \in 1 .. c : k[i] = l[Len(l) - c + i]
      /\ c = IF Len(l) < RingSize THEN Len(l) ELSE RingSize
  BY KeptType DEF KeptCount
<1>2. /\ Shown(l) \in Seq(S) /\ Len(Shown(l)) = n /\ n \in Nat
      /\ \A i \in 1 .. n : Shown(l)[i] = l[Len(l) + 1 - i]
      /\ n = IF Len(l) < FeedLimit THEN Len(l) ELSE FeedLimit
  BY ShownType DEF ShownCount
<1>3. /\ Shown(k) \in Seq(S) /\ Len(Shown(k)) = ShownCount(k)
      /\ \A i \in 1 .. ShownCount(k) : Shown(k)[i] = k[Len(k) + 1 - i]
      /\ ShownCount(k) = IF Len(k) < FeedLimit THEN Len(k) ELSE FeedLimit
  BY <1>1, ShownType DEF ShownCount
<1>4. /\ RingSize \in Nat /\ FeedLimit \in Nat /\ FeedLimit <= RingSize
      /\ Len(l) \in Nat
  BY MockAssumption
<1> HIDE DEF k, c, n
<1>5. ShownCount(k) = n /\ n <= c
  BY <1>1, <1>2, <1>3, <1>4
<1>6. ASSUME NEW i \in 1 .. n
      PROVE  Shown(k)[i] = Shown(l)[i]
  <2>0. c \in Nat /\ n \in Nat /\ Len(l) \in Nat /\ n <= c
    BY <1>1, <1>2, <1>4, <1>5
  <2>1. c + 1 - i \in 1 .. c /\ Len(l) - c + (c + 1 - i) = Len(l) + 1 - i
    BY <2>0
  <2>2. Shown(k)[i] = l[Len(l) - c + (c + 1 - i)]
    BY <1>1, <1>3, <1>5, <2>1
  <2>3. QED
    BY <1>2, <2>1, <2>2
<1>7. QED
  BY <1>2, <1>3, <1>5, <1>6, SameElements DEF k
-----------------------------------------------------------------------------
(* The invariant: what is stored is well typed, and the ring and every feed *)
(* are what the history of events says.                                    *)

StoredAttestation ==
    [attestor: Accounts, modelId: ModelIds, uri: Uris,
     status: {"Active", "Challenged", "Slashed", "Finalized"},
     challenger: {NoOne, MockAccount}]

StoredPolicy ==
    [triggerTypes: TriggerChoices, expiry: Expiries,
     status: {"Active", "Claimed", "Expired"}]

Counters == [successful: Nat, slashed: Nat, challengesDefended: Nat]

StoreOK ==
    /\ attestations \in Seq(StoredAttestation) /\ Count <= MaxAttestations
    /\ policies \in Seq(StoredPolicy) /\ Len(policies) <= MaxPolicies
    /\ reputations \in [Accounts -> Counters]
    /\ stakedTotal \in 0 .. MaxStaked

FeedsOK ==
    /\ log \in Seq(Event)
    /\ recentEvents = Kept(log)
    /\ DOMAIN feeds \subseteq Feeds
    /\ feeds = [f \in DOMAIN feeds |-> Shown(log)]

IInv == StoreOK /\ FeedsOK

(* It implies the type invariant and what a feed shows.                    *)
LEMMA InvTypeOK == IInv => TypeOK
<1> SUFFICES ASSUME IInv
             PROVE  TypeOK
  OBVIOUS
<1>1. recentEvents \in Seq(Event) /\ Len(recentEvents) <= RingSize
  BY KeptType DEF IInv, FeedsOK
<1>2. \A f \in DOMAIN feeds :
         feeds[f] \in Seq(Event) /\ Len(feeds[f]) <= FeedLimit
  BY ShownType DEF IInv, FeedsOK
<1>3. QED
  BY <1>1, <1>2
  DEF IInv, StoreOK, FeedsOK, TypeOK, StoredAttestation, StoredPolicy, Counters

(* That every feed shows the newest events is part of it.                  *)
LEMMA InvFeedShowsLatest == IInv => FeedShowsLatest
BY DEF IInv, FeedsOK, FeedShowsLatest, Shown, ShownCount

(* Emitting an event keeps ring and feeds in step with the history.        *)
LEMMA EmitFeeds ==
    ASSUME FeedsOK, NEW name, NEW id, [name |-> name, id |-> id] \in Event,
           Emit(name, id)
    PROVE  FeedsOK' /\ log' = Append(log, [name |-> name, id |-> id])
<1> DEFINE e == [name |-> name, id |-> id]
<1> HIDE DEF e
<1>1. log \in Seq(Event) /\ e \in Event /\ log' = log \o <<e>>
  BY DEF FeedsOK, Emit, EmitAll, e
<1>2. log' = Append(log, e) /\ log' \in Seq(Event)
  BY <1>1, AppendIsConcat, Appended
<1>3. recentEvents' = Kept(log')
  <2>1. recentEvents' = Pushed(recentEvents, e)
    BY RingAfterOne DEF Emit, EmitAll, e
  <2>2. QED
    BY <1>1, <1>2, <2>1, PushedKept DEF FeedsOK
<1>4. feeds' = [f \in DOMAIN feeds |-> Shown(log')]
  <2>1. feeds' = [f \in DOMAIN feeds |-> ShownAfter(feeds[f], <<e>>)]
    BY DEF Emit, EmitAll, e
  <2>2. \A f \in DOMAIN feeds : feeds[f] = Shown(log)
    BY DEF FeedsOK
  <2>3. \A f \in DOMAIN feeds : ShownAfter(feeds[f], <<e>>) = Shown(log')
    BY <1>1, <1>2, <2>2, ShownAfterOne, EnteredShown
  <2>4. QED
    BY <2>1, <2>3
<1>5. QED
  BY <1>2, <1>3, <1>4 DEF FeedsOK, e

(* A call that emits nothing leaves ring, feeds and history in step.       *)
LEMMA QuietFeeds ==
    ASSUME FeedsOK, Quiet
    PROVE  FeedsOK'
BY DEF FeedsOK, Quiet

(* Calls that write an attestation.                                        *)
LEMMA SubmitInv ==
    ASSUME IInv, NEW a \in Accounts, NEW m \in ModelIds, NEW u \in Uris,
           NEW s, SubmitAttestation(a, m, u, s)
    PROVE  /\ IInv'
           /\ Count \in Nat /\ Count' = Count + 1
           /\ attestations' = Append(attestations, NewAttestation(a, m, u))
           /\ \A i \in Ids : attestations'[i] = attestations[i]
           /\ attestations'[Count + 1] = NewAttestation(a, m, u)
           /\ log' = Append(log, [name |-> "AttestationSubmitted",
                                  id |-> Count + 1])
           /\ UNCHANGED <<policies, reputations, stakedTotal>>
<1>1. NewAttestation(a, m, u) \in StoredAttestation
  BY DEF NewAttestation, StoredAttestation
<1>2. /\ attestations \in Seq(StoredAttestation)
      /\ attestations' = Append(attestations, NewAttestation(a, m, u))
      /\ Count < MaxAttestations
      /\ Emit("AttestationSubmitted", Count + 1)
      /\ UNCHANGED <<policies, reputations, stakedTotal>>
  BY DEF SubmitAttestation, IInv, StoreOK
<1>3. /\ attestations' \in Seq(StoredAttestation)
      /\ Count \in Nat /\ Count' = Count + 1
      /\ \A i \in Ids : attestations'[i] = attestations[i]
      /\ attestations'[Count + 1] = NewAttestation(a, m, u)
  BY <1>1, <1>2, Appended DEF Count, Ids
<1>4. MaxAttestations \in Nat
  BY MockAssumption
<1>5. [name |-> "AttestationSubmitted", id |-> Count + 1] \in Event
  BY <1>2, <1>3, <1>4 DEF Event
<1>6. FeedsOK' /\ log' = Append(log, [name |-> "AttestationSubmitted",
                                      id |-> Count + 1])
  BY <1>2, <1>5, EmitFeeds DEF IInv
<1>7. Count' <= MaxAttestations
  BY <1>2, <1>3, <1>4
<1>8. QED
  BY <1>2, <1>3, <1>6, <1>7 DEF IInv, StoreOK

(* The events about attestations already on record are events.             *)
LEMMA AboutEvent ==
    ASSUME IInv, NEW id \in Ids
    PROVE  /\ [name |-> "Challenged", id |-> id] \in Event
           /\ [name |-> "Resolved", id |-> id] \in Event
<1>1. MaxAttestations \in Nat /\ Count \in Nat /\ Count <= MaxAttestations
  BY MockAssumption DEF IInv, StoreOK, Count
<1>2. id \in 1 .. MaxAttestations
  BY <1>1 DEF Ids
<1>3. QED
  BY <1>2 DEF Event

(* A challenge writes the status and the challenger of one attestation.    *)
LEMMA ChallengeInv ==
    ASSUME IInv, NEW id \in Ids, Challenge(id)
    PROVE  /\ IInv'
           /\ Count' = Count /\ Ids' = Ids
           /\ attestations[id].status = "Active"
           /\ \A i \in Ids : i # id => attestations'[i] = attestations[i]
           /\ attestations'[id] = [attestations[id] EXCEPT
                 !.status = "Challenged", !.challenger = MockAccount]
           /\ log' = Append(log, [name |-> "Challenged", id |-> id])
           /\ UNCHANGED <<policies, reputations, stakedTotal>>
<1> DEFINE old == attestations[id]
           new == [old EXCEPT !.status = "Challenged", !.challenger = MockAccount]
<1>1. /\ attestations \in Seq(StoredAttestation) /\ id \in 1 .. Len(attestations)
      /\ old \in StoredAttestation /\ Count <= MaxAttestations
  BY DEF IInv, StoreOK, Ids, Count
<1>2. /\ attestations' = [attestations EXCEPT ![id] = new]
      /\ Emit("Challenged", id) /\ old.status = "Active"
      /\ UNCHANGED <<policies, reputations, stakedTotal>>
  BY DEF Challenge, MayChallenge
<1>3. new \in StoredAttestation
  BY <1>1 DEF StoredAttestation
<1> HIDE DEF old, new
<1>4. /\ attestations' \in Seq(StoredAttestation)
      /\ Len(attestations') = Len(attestations)
      /\ \A i \in 1 .. Len(attestations) :
            attestations'[i] = IF i = id THEN new ELSE attestations[i]
  BY <1>1, <1>2, <1>3, ExceptSeq
<1>5. FeedsOK' /\ log' = Append(log, [name |-> "Challenged", id |-> id])
  BY <1>2, AboutEvent, EmitFeeds DEF IInv
<1>6. QED
  BY <1>1, <1>2, <1>4, <1>5 DEF IInv, StoreOK, Count, Ids, new, old
(* The two verdicts, on the record and on the counters.                    *)
RulingOf(fraudulent) == IF fraudulent THEN "Slashed" ELSE "Finalized"

(* A verdict leaves the counters counters.                                 *)
LEMMA CountersAfterType ==
    ASSUME NEW r \in Counters, NEW fraudulent \in BOOLEAN
    PROVE  CountersAfter(r, fraudulent) \in Counters
<1>1. r.slashed + 1 \in Nat /\ r.successful + 1 \in Nat
      /\ r.challengesDefended + 1 \in Nat
  BY DEF Counters
<1>2. CASE fraudulent
  BY <1>1, <1>2 DEF Counters, CountersAfter
<1>3. CASE ~ fraudulent
  <2>1. CountersAfter(r, fraudulent) =
          [r EXCEPT !.successful = r.successful + 1,
                    !.challengesDefended = r.challengesDefended + 1]
    BY <1>3 DEF CountersAfter
  <2>2. QED
    BY <1>1, <2>1 DEF Counters
<1>4. QED
  BY <1>2, <1>3

(* A verdict writes one status and the counters of one attestor.           *)
LEMMA ResolveInv ==
    ASSUME IInv, NEW id \in Ids, NEW fraudulent \in BOOLEAN,
           Resolve(id, fraudulent)
    PROVE  /\ IInv'
           /\ Count' = Count /\ Ids' = Ids
           /\ attestations[id].status = "Challenged"
           /\ attestations[id].attestor \in Accounts
           /\ \A i \in Ids : i # id => attestations'[i] = attestations[i]
           /\ attestations'[id] =
                 [attestations[id] EXCEPT !.status = RulingOf(fraudulent)]
           /\ reputations' = [reputations EXCEPT ![attestations[id].attestor] =
                                 CountersAfter(@, fraudulent)]
           /\ log' = Append(log, [name |-> "Resolved", id |-> id])
           /\ UNCHANGED <<policies, stakedTotal>>
<1> DEFINE old == attestations[id]
           verdict == RulingOf(fraudulent)
           new == [old EXCEPT !.status = verdict]
<1>1. /\ attestations \in Seq(StoredAttestation) /\ id \in 1 .. Len(attestations)
      /\ old \in StoredAttestation /\ Count <= MaxAttestations
  BY DEF IInv, StoreOK, Ids, Count
<1>2. /\ attestations' = [attestations EXCEPT ![id] = new]
      /\ Emit("Resolved", id) /\ old.status = "Challenged"
      /\ reputations' = [reputations EXCEPT ![old.attestor] =
                            CountersAfter(@, fraudulent)]
      /\ UNCHANGED <<policies, stakedTotal>>
  BY DEF Resolve, MayResolve, RulingOf
<1>3. verdict \in {"Slashed", "Finalized"}
  BY DEF RulingOf
<1>4. old.attestor \in Accounts
  BY <1>1 DEF StoredAttestation
<1>5. reputations' \in [Accounts -> Counters]
  BY <1>2, <1>4, CountersAfterType DEF IInv, StoreOK
<1> HIDE DEF verdict, old
<1>6. new \in StoredAttestation
  BY <1>1, <1>3 DEF StoredAttestation
<1> HIDE DEF new
<1>7. /\ attestations' \in Seq(StoredAttestation)
      /\ Len(attestations') = Len(attestations)
      /\ \A i \in 1 .. Len(attestations) :
            attestations'[i] = IF i = id THEN new ELSE attestations[i]
  BY <1>1, <1>2, <1>6, ExceptSeq
<1>8. FeedsOK' /\ log' = Append(log, [name |-> "Resolved", id |-> id])
  BY <1>2, AboutEvent, EmitFeeds DEF IInv
<1>9. StoreOK'
  BY <1>1, <1>2, <1>5, <1>7 DEF IInv, StoreOK, Count
<1>10. IInv'
  BY <1>8, <1>9 DEF IInv
<1>11. Count' = Count /\ Ids' = Ids
  BY <1>7 DEF Count, Ids
<1>12. /\ \A i \in Ids : i # id => attestations'[i] = attestations[i]
       /\ attestations'[id] = new
  BY <1>1, <1>7 DEF Ids, Count
<1>13. QED
  BY <1>2, <1>4, <1>8, <1>10, <1>11, <1>12 DEF old, new, verdict

(* Calls that write a policy.                                              *)
LEMMA CreatePolicyInv ==
    ASSUME IInv, NEW ts \in TriggerChoices, NEW e \in Expiries,
           CreatePolicy(ts, e)
    PROVE  /\ IInv'
           /\ Len(policies) \in Nat /\ Len(policies') = Len(policies) + 1
           /\ \A p \in PolicyIds : policies'[p] = policies[p]
           /\ policies'[Len(policies) + 1].status = "Active"
           /\ UNCHANGED <<attestations, reputations, stakedTotal, log>>
<1> DEFINE new == [triggerTypes |-> ts, expiry |-> e, status |-> "Active"]
<1>1. new \in StoredPolicy /\ new.status = "Active"
  BY DEF StoredPolicy
<1>2. /\ policies \in Seq(StoredPolicy) /\ Len(policies) < MaxPolicies
      /\ policies' = Append(policies, new) /\ Quiet
      /\ UNCHANGED <<attestations, reputations, stakedTotal>>
  BY DEF CreatePolicy, IInv, StoreOK
<1> HIDE DEF new
<1>3. /\ policies' \in Seq(StoredPolicy)
      /\ Len(policies) \in Nat /\ Len(policies') = Len(policies) + 1
      /\ \A p \in PolicyIds : policies'[p] = policies[p]
      /\ policies'[Len(policies) + 1] = new
  BY <1>1, <1>2, Appended DEF PolicyIds
<1>4. FeedsOK' /\ log' = log
  BY <1>2, QuietFeeds DEF IInv, Quiet
<1>5. Len(policies') <= MaxPolicies
  BY <1>2, <1>3, MockAssumption
<1>6. QED
  BY <1>1, <1>2, <1>3, <1>4, <1>5 DEF IInv, StoreOK, Count

(* A claim writes the status of its policy and nothing else of it.         *)
LEMMA PolicyMarked ==
    ASSUME IInv, NEW p \in PolicyIds, NEW status \in {"Claimed", "Expired"},
           policies' = [policies EXCEPT ![p].status = status]
    PROVE  /\ policies' \in Seq(StoredPolicy)
           /\ Len(policies') = Len(policies) /\ PolicyIds' = PolicyIds
           /\ \A q \in PolicyIds : q # p => policies'[q] = policies[q]
           /\ policies'[p].status = status
<1> DEFINE old == policies[p]
           new == [old EXCEPT !.status = status]
<1>1. /\ policies \in Seq(StoredPolicy) /\ p \in 1 .. Len(policies)
      /\ old \in StoredPolicy
  BY DEF IInv, StoreOK, PolicyIds
<1>2. policies' = [policies EXCEPT ![p] = new]
  OBVIOUS
<1> HIDE DEF old
<1>3. new \in StoredPolicy /\ new.status = status
  BY <1>1 DEF StoredPolicy
<1> HIDE DEF new
<1>4. /\ policies' \in Seq(StoredPolicy)
      /\ Len(policies') = Len(policies)
      /\ \A i \in 1 .. Len(policies) :
            policies'[i] = IF i = p THEN new ELSE policies[i]
  BY <1>1, <1>2, <1>3, ExceptSeq
<1>5. QED
  BY <1>1, <1>3, <1>4 DEF PolicyIds

(* A claim refused marks its policy and is not announced,                  *)
LEMMA RefuseInv ==
    ASSUME IInv, NEW p \in PolicyIds, NEW now \in Times, RefuseLapsed(p, now)
    PROVE  /\ IInv'
           /\ PolicyIds' = PolicyIds
           /\ \A q \in PolicyIds : q # p => policies'[q] = policies[q]
           /\ policies'[p].status = "Expired"
           /\ UNCHANGED <<attestations, reputations, stakedTotal, log>>
<1>1. /\ policies' = [policies EXCEPT ![p].status = "Expired"] /\ Quiet
      /\ UNCHANGED <<attestations, reputations, stakedTotal>>
  BY DEF RefuseLapsed
<1>2. FeedsOK' /\ log' = log
  BY <1>1, QuietFeeds DEF IInv, Quiet
<1>3. /\ policies' \in Seq(StoredPolicy)
      /\ Len(policies') = Len(policies) /\ PolicyIds' = PolicyIds
      /\ \A q \in PolicyIds : q # p => policies'[q] = policies[q]
      /\ policies'[p].status = "Expired"
  BY <1>1, PolicyMarked
<1>4. QED
  BY <1>1, <1>2, <1>3 DEF IInv, StoreOK, Count

(* a claim paid marks its policy, which was not expired, and is.           *)
LEMMA PayInv ==
    ASSUME IInv, NEW p \in PolicyIds, NEW id \in Ids, NEW now \in Times,
           PayClaim(p, id, now)
    PROVE  /\ IInv'
           /\ PolicyIds' = PolicyIds
           /\ policies[p].status # "Expired"
           /\ \A q \in PolicyIds : q # p => policies'[q] = policies[q]
           /\ policies'[p].status = "Claimed"
           /\ log' = Append(log, [name |-> "ClaimPaid", id |-> p])
           /\ UNCHANGED <<attestations, reputations, stakedTotal>>
<1>1. /\ policies' = [policies EXCEPT ![p].status = "Claimed"]
      /\ Emit("ClaimPaid", p) /\ policies[p].status # "Expired"
      /\ UNCHANGED <<attestations, reputations, stakedTotal>>
  BY DEF PayClaim, Lapsed
<1>2. [name |-> "ClaimPaid", id |-> p] \in Event
  <2>1. MaxPolicies \in Nat /\ Len(policies) \in Nat /\ Len(policies) <= MaxPolicies
    BY MockAssumption DEF IInv, StoreOK
  <2>2. p \in 1 .. MaxPolicies
    BY <2>1 DEF PolicyIds
  <2>3. QED
    BY <2>2 DEF Event
<1>3. FeedsOK' /\ log' = Append(log, [name |-> "ClaimPaid", id |-> p])
  BY <1>1, <1>2, EmitFeeds DEF IInv
<1>4. /\ policies' \in Seq(StoredPolicy)
      /\ Len(policies') = Len(policies) /\ PolicyIds' = PolicyIds
      /\ \A q \in PolicyIds : q # p => policies'[q] = policies[q]
      /\ policies'[p].status = "Claimed"
  BY <1>1, PolicyMarked
<1>5. QED
  BY <1>1, <1>3, <1>4 DEF IInv, StoreOK, Count

(* Calls that move capital, and feeds that come and go.                    *)
LEMMA StakingInv ==
    ASSUME IInv, NEW amount \in Nat, Stake(amount) \/ Unstake(amount)
    PROVE  /\ IInv'
           /\ UNCHANGED <<attestations, policies, reputations, log>>
<1>1. amount \in Nat /\ stakedTotal \in Nat /\ MaxStaked \in Nat
      /\ stakedTotal <= MaxStaked
  BY MockAssumption DEF IInv, StoreOK
<1>2. Quiet /\ UNCHANGED <<attestations, policies, reputations>>
  BY DEF Stake, Unstake
<1>3. stakedTotal' \in 0 .. MaxStaked
  BY <1>1 DEF Stake, Unstake
<1>4. FeedsOK' /\ log' = log
  BY <1>2, QuietFeeds DEF IInv, Quiet
<1>5. QED
  BY <1>2, <1>3, <1>4 DEF IInv, StoreOK, Count

(* A feed mounted late shows what the feeds already mounted show.          *)
LEMMA FeedInv ==
    ASSUME IInv, NEW f \in Feeds, MountFeed(f) \/ UnmountFeed(f)
    PROVE  /\ IInv'
           /\ UNCHANGED <<attestations, policies, reputations, stakedTotal, log>>
<1>1. UNCHANGED <<attestations, policies, reputations, stakedTotal,
                  recentEvents, log>>
  BY DEF MountFeed, UnmountFeed
<1>2. log \in Seq(Event) /\ recentEvents = Kept(log)
  BY DEF IInv, FeedsOK
<1>3. /\ DOMAIN feeds \subseteq Feeds
      /\ \A g \in DOMAIN feeds : feeds[g] = Shown(log)
  BY DEF IInv, FeedsOK
<1>4. Replayed(recentEvents) = Shown(log)
  BY <1>2, KeptType, ReplayShows, KeptShows
<1>5. /\ DOMAIN feeds' \subseteq Feeds
      /\ feeds' = [g \in DOMAIN feeds' |-> Shown(log)]
  <2>1. CASE MountFeed(f)
    BY <1>3, <1>4, <2>1 DEF MountFeed
  <2>2. CASE UnmountFeed(f)
    BY <1>3, <2>2 DEF UnmountFeed, Restrict
  <2>3. QED
    BY <2>1, <2>2
<1>6. FeedsOK'
  BY <1>1, <1>2, <1>5 DEF FeedsOK
<1>7. QED
  BY <1>1, <1>6 DEF IInv, StoreOK, Count

(* So every call preserves it.                                             *)
LEMMA NextIInv == IInv /\ [Next]_vars => IInv'
<1> SUFFICES ASSUME IInv, [Next]_vars
             PROVE  IInv'
  OBVIOUS
<1>1. CASE UNCHANGED vars
  BY <1>1 DEF vars, IInv, StoreOK, FeedsOK, Count
<1>2. CASE Next
  BY <1>2, SubmitInv, ChallengeInv, ResolveInv, CreatePolicyInv, RefuseInv,
     PayInv, StakingInv, FeedInv, MockAssumption DEF Next
<1>3. QED
  BY <1>1, <1>2

(* The page is loaded with nothing stored and nothing emitted.             *)
LEMMA InitIInv == Init => IInv
<1> SUFFICES ASSUME Init
             PROVE  IInv
  OBVIOUS
<1>1. \A S : <<>> \in Seq(S) /\ Len(<<>>) = 0
  OBVIOUS
<1>2. Kept(<<>>) = <<>>
  <2>1. /\ Kept(<<>>) \in Seq(Event) /\ Len(Kept(<<>>)) = KeptCount(<<>>)
        /\ KeptCount(<<>>) \in Nat /\ KeptCount(<<>>) <= 0
    BY <1>1, KeptType
  <2>2. Len(Kept(<<>>)) = 0
    BY <2>1
  <2>3. QED
    BY <2>1, <2>2, EmptySeq
<1>3. FeedsOK
  BY <1>1, <1>2 DEF Init, FeedsOK
<1>4. StoreOK
  BY <1>1, MockAssumption DEF Init, StoreOK, Count, Counters
<1>5. QED
  BY <1>3, <1>4 DEF IInv

(* The invariant holds in every reachable state.                           *)
LEMMA IInvInductive == Spec => []IInv
BY InitIInv, NextIInv, PTL DEF Spec

(* What the backend stores and emits is well typed: the ring never holds   *)
(* more than its size and a feed never shows more than its limit.          *)
THEOREM BackendTypeCorrect == Spec => []TypeOK
BY IInvInductive, InvTypeOK, PTL

(* However deep the ring and however long the feed, as long as the ring is *)
(* the deeper one: whenever a feed is mounted, it shows the newest events. *)
THEOREM FeedsShowLatest == Spec => []FeedShowsLatest
BY IInvInductive, InvFeedShowsLatest, PTL
-----------------------------------------------------------------------------
(* The counters against a recount of the attestations.                     *)

(* The sets counted are finite, as they are in the next state.             *)
LEMMA SettledFinite ==
    ASSUME Count \in Nat, NEW a, NEW v
    PROVE  /\ IsFiniteSet(Settled(a, v))
           /\ Cardinality(Settled(a, v)) \in Nat
<1>1. IsFiniteSet(Ids)
  BY FS_Interval DEF Ids
<1>2. Settled(a, v) \subseteq Ids
  BY DEF Settled
<1>3. QED
  BY <1>1, <1>2, FS_Subset, FS_CardinalityType

(* Attestations that are not judged by a call are counted as before.       *)
LEMMA RecountKept ==
    ASSUME ReputationRecount, reputations' = reputations,
           \A a \in Accounts : Settled(a, "Finalized")' = Settled(a, "Finalized"),
           \A a \in Accounts : Settled(a, "Slashed")' = Settled(a, "Slashed")
    PROVE  ReputationRecount'
BY DEF ReputationRecount

(* An attestation just submitted, or just challenged, is not settled.      *)
LEMMA SubmitRecount ==
    ASSUME IInv, ReputationRecount, NEW a \in Accounts, NEW m \in ModelIds,
           NEW u \in Uris, NEW s \in Offers, SubmitAttestation(a, m, u, s)
    PROVE  ReputationRecount'
<1>1. /\ Count \in Nat /\ Count' = Count + 1
      /\ \A i \in Ids : attestations'[i] = attestations[i]
      /\ attestations'[Count + 1] = NewAttestation(a, m, u)
      /\ reputations' = reputations
  BY SubmitInv
<1>2. Ids' = Ids \cup {Count + 1}
  BY <1>1 DEF Ids
<1>3. attestations'[Count + 1].status = "Active"
  BY <1>1 DEF NewAttestation
<1>4. /\ \A b \in Accounts : Settled(b, "Finalized")' = Settled(b, "Finalized")
      /\ \A b \in Accounts : Settled(b, "Slashed")' = Settled(b, "Slashed")
  BY <1>1, <1>2, <1>3 DEF Settled
<1>5. QED
  BY <1>1, <1>4, RecountKept

(* A challenge settles nothing either.                                     *)
LEMMA ChallengeRecount ==
    ASSUME IInv, ReputationRecount, NEW id \in Ids, Challenge(id)
    PROVE  ReputationRecount'
<1>1. /\ Ids' = Ids /\ attestations[id].status = "Active"
      /\ \A i \in Ids : i # id => attestations'[i] = attestations[i]
      /\ attestations'[id] = [attestations[id] EXCEPT
            !.status = "Challenged", !.challenger = MockAccount]
      /\ reputations' = reputations /\ attestations \in Seq(StoredAttestation)
  BY ChallengeInv DEF IInv, StoreOK
<1>2. attestations[id] \in StoredAttestation
  BY <1>1 DEF Ids, Count
<1>3. attestations'[id].status = "Challenged"
  BY <1>1, <1>2 DEF StoredAttestation
<1>4. /\ \A b \in Accounts : Settled(b, "Finalized")' = Settled(b, "Finalized")
      /\ \A b \in Accounts : Settled(b, "Slashed")' = Settled(b, "Slashed")
  BY <1>1, <1>3 DEF Settled
<1>5. QED
  BY <1>1, <1>4, RecountKept

(* One more element.                                                       *)
LEMMA OneCounted ==
    ASSUME NEW S, NEW x, IsFiniteSet(S), x \notin S
    PROVE  Cardinality(S \cup {x}) = Cardinality(S) + 1
BY FS_AddElement

(* A verdict settles one attestation of one attestor, and counts it.       *)
LEMMA ResolveRecount ==
    ASSUME IInv, ReputationRecount, NEW id \in Ids, NEW fraudulent \in BOOLEAN,
           Resolve(id, fraudulent)
    PROVE  ReputationRecount'
<1> DEFINE v == RulingOf(fraudulent)
<1>0. PICK owner \in Accounts : owner = attestations[id].attestor
  BY ResolveInv
<1>1. /\ Ids' = Ids /\ attestations[id].status = "Challenged"
      /\ \A i \in Ids : i # id => attestations'[i] = attestations[i]
      /\ attestations'[id] = [attestations[id] EXCEPT !.status = v]
      /\ reputations' = [reputations EXCEPT ![owner] =
                            CountersAfter(@, fraudulent)]
  BY <1>0, ResolveInv
<1>10. /\ attestations \in Seq(StoredAttestation) /\ Count \in Nat
       /\ reputations \in [Accounts -> Counters]
  BY DEF IInv, StoreOK, Count
<1>2. attestations[id] \in StoredAttestation
  BY <1>10 DEF Ids, Count
<1>3. attestations'[id].status = v /\ attestations'[id].attestor = owner
  BY <1>0, <1>1, <1>2 DEF StoredAttestation
<1>4. v \in {"Finalized", "Slashed"}
  BY DEF RulingOf
<1> HIDE DEF v
<1>5. ASSUME NEW b \in Accounts, NEW w \in {"Finalized", "Slashed"},
             ~ (b = owner /\ w = v)
      PROVE  Settled(b, w)' = Settled(b, w)
  BY <1>0, <1>1, <1>3, <1>4, <1>5 DEF Settled
<1>6. Settled(owner, v)' = Settled(owner, v) \cup {id} /\ id \notin Settled(owner, v)
  BY <1>0, <1>1, <1>3, <1>4 DEF Settled
<1>7. Cardinality(Settled(owner, v)') = Cardinality(Settled(owner, v)) + 1
  <2>1. IsFiniteSet(Settled(owner, v))
    BY <1>10, SettledFinite
  <2>2. QED
    BY <1>6, <2>1, OneCounted
<1>8. ASSUME NEW b \in Accounts
      PROVE  reputations'[b] =
               [successful |-> Cardinality(Settled(b, "Finalized")'),
                challengesDefended |-> Cardinality(Settled(b, "Finalized")'),
                slashed |-> Cardinality(Settled(b, "Slashed")')]
  <2> DEFINE f == Cardinality(Settled(b, "Finalized"))
             c == Cardinality(Settled(b, "Slashed"))
  <2>1. reputations[b] = [successful |-> f, challengesDefended |-> f, slashed |-> c]
    BY DEF ReputationRecount
  <2>2. CASE b # owner
    <3>1. Settled(b, "Finalized")' = Settled(b, "Finalized")
          /\ Settled(b, "Slashed")' = Settled(b, "Slashed")
      BY <1>5, <2>2
    <3>2. reputations'[b] = reputations[b]
      BY <1>1, <1>10, <2>2
    <3>3. QED
      BY <2>1, <3>1, <3>2
  <2>3. CASE b = owner /\ fraudulent
    <3>1. v = "Slashed"
      BY <2>3 DEF v, RulingOf
    <3>2. Settled(b, "Finalized")' = Settled(b, "Finalized")
      BY <1>5, <3>1
    <3>3. Cardinality(Settled(b, "Slashed")') = c + 1
      BY <1>7, <2>3, <3>1
    <3>4. reputations'[b] = [reputations[b] EXCEPT !.slashed = @ + 1]
      BY <1>1, <1>10, <2>3 DEF CountersAfter
    <3> HIDE DEF f, c
    <3>5. reputations'[b] =
            [successful |-> f, challengesDefended |-> f, slashed |-> c + 1]
      BY <2>1, <3>4
    <3>6. QED
      BY <3>2, <3>3, <3>5 DEF f
  <2>4. CASE b = owner /\ ~ fraudulent
    <3>1. v = "Finalized"
      BY <2>4 DEF v, RulingOf
    <3>2. Settled(b, "Slashed")' = Settled(b, "Slashed")
      BY <1>5, <3>1
    <3>3. Cardinality(Settled(b, "Finalized")') = f + 1
      BY <1>7, <2>4, <3>1
    <3>4. reputations'[b] = [reputations[b] EXCEPT !.successful = f + 1,
                                                   !.challengesDefended = f + 1]
      <4>1. reputations[b].successful = f /\ reputations[b].challengesDefended = f
        BY <2>1
      <4> HIDE DEF f, c
      <4>2. QED
        BY <1>1, <1>10, <2>4, <4>1 DEF CountersAfter
    <3> HIDE DEF f, c
    <3>5. reputations'[b] =
            [successful |-> f + 1, challengesDefended |-> f + 1, slashed |-> c]
      <4> DEFINE more == [reputations[b] EXCEPT !.successful = f + 1]
      <4>1. more = [successful |-> f + 1, challengesDefended |-> f, slashed |-> c]
        BY <2>1
      <4>2. reputations'[b] = [more EXCEPT !.challengesDefended = f + 1]
        BY <3>4
      <4> HIDE DEF more
      <4>3. QED
        BY <4>1, <4>2
    <3>6. QED
      BY <3>2, <3>3, <3>5 DEF c
  <2>5. QED
    BY <2>2, <2>3, <2>4
<1>9. QED
  BY <1>8 DEF ReputationRecount

(* So every call keeps counters and recount in agreement.                  *)
LEMMA NextRecount == IInv /\ ReputationRecount /\ [Next]_vars => ReputationRecount'
<1> SUFFICES ASSUME IInv, ReputationRecount, [Next]_vars
             PROVE  ReputationRecount'
  OBVIOUS
<1>1. ASSUME attestations' = attestations, reputations' = reputations
      PROVE  ReputationRecount'
  BY <1>1 DEF ReputationRecount, Settled, Ids, Count
<1>2. CASE UNCHANGED vars
  BY <1>1, <1>2 DEF vars
<1>3. CASE Next
  BY <1>1, <1>3, SubmitRecount, ChallengeRecount, ResolveRecount,
     CreatePolicyInv, RefuseInv, PayInv, StakingInv, FeedInv, MockAssumption
  DEF Next
<1>4. QED
  BY <1>2, <1>3

(* Before the first verdict both are zero.                                 *)
LEMMA InitRecount == Init => ReputationRecount
<1> SUFFICES ASSUME Init
             PROVE  ReputationRecount
  OBVIOUS
<1>1. \A a, v : Settled(a, v) = {}
  BY DEF Init, Settled, Ids, Count
<1>2. QED
  BY <1>1, FS_EmptySet DEF Init, ReputationRecount

(* The counters an attestor is judged by always agree with a recount of    *)
(* its attestations, and here a success is always a defended challenge.    *)
THEOREM ReputationAlwaysRecounts == Spec => []ReputationRecount
BY InitRecount, NextRecount, IInvInductive, PTL DEF Spec
-----------------------------------------------------------------------------
(* The lifecycle readers rely on, with ids counted from 1.                 *)

(* What a reader sees of one attestation.                                  *)
Seen(att) ==
    [attestor |-> att.attestor, model_id |-> att.modelId,
     commitment |-> att.uri, status |-> att.status]

(* A change of nothing but the status of one attestation is an advance.    *)
LEMMA ReadableAdvance ==
    ASSUME Count \in Nat, NEW id \in Ids, Count' = Count, NEW from, NEW to,
           \A i \in Ids : i # id => attestations'[i] = attestations[i],
           attestations[id].status = from,
           Seen(attestations'[id]) = [Seen(attestations[id]) EXCEPT !.status = to]
    PROVE  /\ id - 1 \in Lifecycle!Published
           /\ Lifecycle!Advance(id - 1, from, to)
<1> DEFINE k == id - 1
           old == [i \in 0 .. Count - 1 |-> Seen(attestations[i + 1])]
           new == [i \in 0 .. Count - 1 |-> Seen(attestations'[i + 1])]
<1>1. Readable = old /\ Readable' = new
  BY DEF Readable, Seen
<1>2. k \in 0 .. Count - 1 /\ k + 1 = id
  BY DEF Ids
<1>3. DOMAIN old = 0 .. Count - 1 /\ old[k] = Seen(attestations[id])
  BY <1>2
<1>4. old[k].status = from
  BY <1>3 DEF Seen
<1>5. \A i \in 0 .. Count - 1 :
         i # k => Seen(attestations'[i + 1]) = Seen(attestations[i + 1])
  <2>1. \A i \in 0 .. Count - 1 : i # k => i + 1 \in Ids /\ i + 1 # id
    BY <1>2 DEF Ids
  <2>2. QED
    BY <2>1
<1> HIDE DEF k
<1>6. new = [old EXCEPT ![k] = Seen(attestations'[id])]
  BY <1>2, <1>5
<1>7. new = [old EXCEPT ![k].status = to]
  BY <1>3, <1>6
<1> HIDE DEF old, new
<1>8. QED
  BY <1>1, <1>2, <1>3, <1>4, <1>7
  DEF Lifecycle!Advance, Lifecycle!Published, k

(* A submission publishes the next id.                                     *)
LEMMA SubmitPublishes ==
    ASSUME IInv, NEW a \in Accounts, NEW m \in ModelIds, NEW u \in Uris,
           NEW s \in Offers, SubmitAttestation(a, m, u, s)
    PROVE  Lifecycle!Publish(a, m, u)
<1> DEFINE n == Count
           new == [attestor |-> a, model_id |-> m, commitment |-> u,
                   status |-> "Active"]
           old == [i \in 0 .. n - 1 |-> Seen(attestations[i + 1])]
<1>1. /\ n \in Nat /\ n < MaxAttestations /\ MaxAttestations \in Nat
      /\ Count' = n + 1
      /\ \A i \in Ids : attestations'[i] = attestations[i]
      /\ attestations'[n + 1] = NewAttestation(a, m, u)
  BY SubmitInv, MockAssumption DEF SubmitAttestation
<1>2. Readable = old
  BY DEF Readable, Seen
<1>3. Readable' = [i \in 0 .. n |-> Seen(attestations'[i + 1])]
  <2>1. 0 .. Count' - 1 = 0 .. n
    BY <1>1
  <2>2. QED
    BY <2>1 DEF Readable, Seen
<1>4. \A i \in 0 .. n : i < n => Seen(attestations'[i + 1]) = old[i]
  <2>1. \A i \in 0 .. n : i < n => i + 1 \in Ids /\ i \in 0 .. n - 1
    BY <1>1 DEF Ids
  <2>2. QED
    BY <1>1, <2>1
<1>5. Seen(attestations'[n + 1]) = new
  BY <1>1 DEF Seen, NewAttestation
<1>6. \A i \in 0 .. n : ~ (i < n) => i + 1 = n + 1
  BY <1>1
<1>7. DOMAIN old = 0 .. n - 1 /\ n \in 0 .. MaxAttestations - 1
  BY <1>1
<1> HIDE DEF old, new, n
<1>8. Readable' = [i \in 0 .. n |-> IF i < n THEN old[i] ELSE new]
  BY <1>3, <1>4, <1>5, <1>6
<1>9. QED
  BY <1>2, <1>7, <1>8 DEF Lifecycle!Publish, Lifecycle!Published, new

(* Every call is a step of the lifecycle, or one that readers cannot see.  *)
LEMMA NextLifecycle ==
    ASSUME IInv, [Next]_vars
    PROVE  [Lifecycle!LifecycleNext]_Readable
<1> USE DEF Lifecycle!LifecycleNext
<1>0. Count \in Nat /\ \A id \in Ids : attestations[id] \in StoredAttestation
  BY DEF IInv, StoreOK, Count, Ids
<1>1. ASSUME NEW a \in Accounts, NEW m \in ModelIds, NEW u \in Uris,
             NEW s \in Offers, SubmitAttestation(a, m, u, s)
      PROVE  Lifecycle!LifecycleNext
  BY <1>1, SubmitPublishes
<1>2. ASSUME NEW id \in Ids, Challenge(id)
      PROVE  Lifecycle!LifecycleNext
  <2>1. /\ Count' = Count /\ attestations[id].status = "Active"
        /\ \A i \in Ids : i # id => attestations'[i] = attestations[i]
        /\ attestations'[id] = [attestations[id] EXCEPT
              !.status = "Challenged", !.challenger = MockAccount]
    BY <1>2, ChallengeInv
  <2>2. Seen(attestations'[id]) =
          [Seen(attestations[id]) EXCEPT !.status = "Challenged"]
    BY <1>0, <2>1 DEF Seen, StoredAttestation
  <2>3. /\ id - 1 \in Lifecycle!Published
        /\ Lifecycle!Advance(id - 1, "Active", "Challenged")
    BY <1>0, <2>1, <2>2, ReadableAdvance
  <2>4. QED
    BY <2>3 DEF Lifecycle!Dispute
<1>3. ASSUME NEW id \in Ids, NEW fraudulent \in BOOLEAN, Resolve(id, fraudulent)
      PROVE  Lifecycle!LifecycleNext
  <2> DEFINE verdict == RulingOf(fraudulent)
  <2>1. /\ Count' = Count /\ attestations[id].status = "Challenged"
        /\ \A i \in Ids : i # id => attestations'[i] = attestations[i]
        /\ attestations'[id] = [attestations[id] EXCEPT !.status = verdict]
    BY <1>3, ResolveInv
  <2>2. verdict \in {"Slashed", "Finalized"}
    BY DEF RulingOf
  <2> HIDE DEF verdict
  <2>3. Seen(attestations'[id]) = [Seen(attestations[id]) EXCEPT !.status = verdict]
    BY <1>0, <2>1 DEF Seen, StoredAttestation
  <2>4. /\ id - 1 \in Lifecycle!Published
        /\ Lifecycle!Advance(id - 1, "Challenged", verdict)
    BY <1>0, <2>1, <2>3, ReadableAdvance
  <2>5. QED
    BY <2>2, <2>4 DEF Lifecycle!Rule
<1>4. ASSUME UNCHANGED attestations
      PROVE  UNCHANGED Readable
  BY <1>4 DEF Readable, Count
<1>5. QED
  BY <1>1, <1>2, <1>3, <1>4, CreatePolicyInv, RefuseInv, PayInv, StakingInv,
     FeedInv, MockAssumption DEF Next, vars

(* Code written against the chain's registry may be developed against the  *)
(* mock: an attestation is never rewritten, never disappears, and only its *)
(* status advances, along the same path.                                   *)
THEOREM MockLifecycle == Spec => ImplementsLifecycle
<1>1. Init => Lifecycle!LifecycleInit
  <2> SUFFICES ASSUME Init
               PROVE  Lifecycle!LifecycleInit
    OBVIOUS
  <2>1. 0 .. Count - 1 = {}
    BY DEF Init, Count
  <2>2. QED
    BY <2>1 DEF Readable, Lifecycle!LifecycleInit
<1>2. IInv /\ [Next]_vars => [Lifecycle!LifecycleNext]_Readable
  BY NextLifecycle
<1>3. QED
  BY <1>1, <1>2, IInvInductive, PTL
  DEF Spec, ImplementsLifecycle, Lifecycle!LifecycleSpec
-----------------------------------------------------------------------------
(* The event stream against the records.                                   *)

(* Events are about what is on record: the inductive part of what the      *)
(* stream tells.                                                           *)
EventsOnRecord ==
    \A i \in 1 .. Len(log) :
        IF log[i].name = "ClaimPaid" THEN log[i].id \in PolicyIds
        ELSE log[i].id \in Ids

(* The events about an attestation.                                        *)
Names == {"AttestationSubmitted", "Challenged", "Resolved"}

(* An event more in the history,                                           *)
Emitted(e) == log \in Seq(Event) /\ e \in Event /\ log' = Append(log, e)

(* and the payouts announced then: none more for another event,            *)
LEMMA PaidSame ==
    ASSUME NEW e, Emitted(e), NEW p, ~ (e.name = "ClaimPaid" /\ e.id = p)
    PROVE  PaidAt(p)' = PaidAt(p)
<1>1. /\ Len(log) \in Nat /\ Len(log') = Len(log) + 1
      /\ \A i \in 1 .. Len(log) : log'[i] = log[i]
      /\ log'[Len(log) + 1] = e
  BY Appended DEF Emitted
<1>2. 1 .. Len(log') = (1 .. Len(log)) \cup {Len(log) + 1}
  BY <1>1
<1>3. QED
  BY <1>1, <1>2 DEF PaidAt

(* There are finitely many of them.                                        *)
LEMMA PaidFinite ==
    ASSUME log \in Seq(Event), NEW p
    PROVE  IsFiniteSet(PaidAt(p)) /\ Cardinality(PaidAt(p)) \in Nat
<1>1. IsFiniteSet(1 .. Len(log)) /\ PaidAt(p) \subseteq 1 .. Len(log)
  BY FS_Interval DEF PaidAt
<1>2. QED
  BY <1>1, FS_Subset, FS_CardinalityType

(* one more for a payout.                                                  *)
LEMMA PaidMore ==
    ASSUME NEW e, Emitted(e), NEW p, e.name = "ClaimPaid", e.id = p
    PROVE  Payouts(p) \in Nat /\ Payouts(p)' = Payouts(p) + 1
<1>1. /\ Len(log) \in Nat /\ Len(log') = Len(log) + 1
      /\ \A i \in 1 .. Len(log) : log'[i] = log[i]
      /\ log'[Len(log) + 1] = e
  BY Appended DEF Emitted
<1>2. 1 .. Len(log') = (1 .. Len(log)) \cup {Len(log) + 1}
      /\ Len(log) + 1 \notin 1 .. Len(log)
  BY <1>1
<1>3. PaidAt(p)' = PaidAt(p) \cup {Len(log) + 1} /\ Len(log) + 1 \notin PaidAt(p)
  BY <1>1, <1>2 DEF PaidAt
<1>4. QED
  BY <1>3, PaidFinite, OneCounted DEF Payouts, Emitted

(* The story of an attestation: unchanged by an event about another one,   *)
LEMMA ToldSame ==
    ASSUME NEW e, Emitted(e), NEW id, NEW names, Told(id, names),
           e.name = "ClaimPaid" \/ e.id # id
    PROVE  Told(id, names)'
<1>1. /\ Len(log) \in Nat /\ Len(log') = Len(log) + 1
      /\ \A i \in 1 .. Len(log) : log'[i] = log[i]
      /\ log'[Len(log) + 1] = e
  BY Appended DEF Emitted
<1>2. 1 .. Len(log') = (1 .. Len(log)) \cup {Len(log) + 1}
  BY <1>1
<1>3. EventsAbout(id)' = EventsAbout(id) /\ EventsAbout(id) \subseteq 1 .. Len(log)
  BY <1>1, <1>2 DEF EventsAbout
<1>4. PICK at \in [1 .. Len(names) -> EventsAbout(id)] :
         /\ EventsAbout(id) = {at[k] : k \in 1 .. Len(names)}
         /\ \A k \in 1 .. Len(names) : log[at[k]].name = names[k]
         /\ \A k \in 2 .. Len(names) : at[k - 1] < at[k]
  BY DEF Told
<1>5. \A k \in 1 .. Len(names) : log'[at[k]].name = names[k]
  BY <1>1, <1>3, <1>4
<1>6. QED
  BY <1>3, <1>4, <1>5 DEF Told

(* continued by an event about it.                                         *)
LEMMA ToldMore ==
    ASSUME NEW e, Emitted(e), NEW id, NEW names \in Seq(Names), Told(id, names),
           e.id = id, e.name \in Names
    PROVE  Told(id, Append(names, e.name))'
<1> DEFINE n == Len(names)
           last == Len(log) + 1
           more == Append(names, e.name)
           about == EventsAbout(id) \cup {last}
<1>1. /\ Len(log) \in Nat /\ Len(log') = last
      /\ \A i \in 1 .. Len(log) : log'[i] = log[i]
      /\ log'[last] = e
  BY Appended DEF Emitted
<1>2. 1 .. last = (1 .. Len(log)) \cup {last}
  BY <1>1
<1>3. EventsAbout(id)' = about /\ EventsAbout(id) \subseteq 1 .. Len(log)
  BY <1>1, <1>2 DEF EventsAbout, Names
<1>4. PICK at \in [1 .. n -> EventsAbout(id)] :
         /\ EventsAbout(id) = {at[k] : k \in 1 .. n}
         /\ \A k \in 1 .. n : log[at[k]].name = names[k]
         /\ \A k \in 2 .. n : at[k - 1] < at[k]
  BY DEF Told
<1>5. /\ n \in Nat /\ Len(more) = n + 1 /\ more[n + 1] = e.name
      /\ \A k \in 1 .. n : more[k] = names[k]
  BY Appended
<1> HIDE DEF n, last, more, about
<1> DEFINE then == [k \in 1 .. n + 1 |-> IF k <= n THEN at[k] ELSE last]
<1>6. /\ \A k \in 1 .. n : k \in 1 .. n + 1 /\ then[k] = at[k]
      /\ n + 1 \in 1 .. n + 1 /\ then[n + 1] = last
      /\ \A k \in 1 .. n + 1 : k \in 1 .. n \/ k = n + 1
  BY <1>5
<1>7. then \in [1 .. n + 1 -> about]
  BY <1>4, <1>5 DEF about
<1> HIDE DEF then
<1>8. about = {then[k] : k \in 1 .. n + 1}
  <2>1. about \subseteq {then[k] : k \in 1 .. n + 1}
    BY <1>4, <1>6 DEF about
  <2>2. {then[k] : k \in 1 .. n + 1} \subseteq about
    BY <1>7
  <2>3. QED
    BY <2>1, <2>2
<1>9. \A k \in 1 .. n + 1 : log'[then[k]].name = more[k]
  <2>1. ASSUME NEW k \in 1 .. n
        PROVE  log'[then[k]].name = more[k]
    BY <1>1, <1>3, <1>4, <1>5, <1>6, SMTT(60)
  <2>2. log'[then[n + 1]].name = more[n + 1]
    BY <1>1, <1>5, <1>6
  <2>3. QED
    BY <1>6, <2>1, <2>2
<1>10. \A k \in 2 .. n + 1 : then[k - 1] < then[k]
  <2>1. ASSUME NEW k \in 2 .. n + 1
        PROVE  then[k - 1] < then[k]
    <3>1. k - 1 \in 1 .. n
      BY <1>5
    <3>2. then[k - 1] = at[k - 1]
      BY <1>6, <3>1
    <3>3. CASE k = n + 1
      <4>1. at[k - 1] \in 1 .. Len(log)
        BY <1>3, <1>4, <3>1
      <4>2. at[k - 1] < last
        BY <1>1, <4>1 DEF last
      <4>3. QED
        BY <1>6, <3>2, <3>3, <4>2
    <3>4. CASE k # n + 1
      <4>1. k \in 2 .. n /\ k \in 1 .. n
        BY <1>5, <3>4
      <4>2. QED
        BY <1>4, <1>6, <3>2, <4>1
    <3>5. QED
      BY <3>3, <3>4
  <2>2. QED
    BY <2>1
<1>11. \E t \in [1 .. Len(more) -> EventsAbout(id)'] :
          /\ EventsAbout(id)' = {t[k] : k \in 1 .. Len(more)}
          /\ \A k \in 1 .. Len(more) : log'[t[k]].name = more[k]
          /\ \A k \in 2 .. Len(more) : t[k - 1] < t[k]
  BY <1>3, <1>5, <1>7, <1>8, <1>9, <1>10
<1>12. QED
  BY <1>11 DEF Told, more
(* What the stream tells of the attestations and of the policies.          *)
StoriesTold == \A id \in Ids : Told(id, StoryOf(attestations[id].status))

PayoutsTold ==
    \A p \in PolicyIds :
        /\ policies[p].status = "Claimed" => Payouts(p) > 0
        /\ policies[p].status = "Active" => Payouts(p) = 0

StreamInv == EventsOnRecord /\ StoriesTold /\ PayoutsTold

(* The invariant of the stream is what the run checks, and one part more.  *)
LEMMA InvEventsTellState == StreamInv => EventsTellState
BY DEF StreamInv, StoriesTold, PayoutsTold, EventsTellState

(* Events keep being about what is on record,                              *)
LEMMA OnRecordKept ==
    ASSUME NEW e, Emitted(e), EventsOnRecord,
           Ids \subseteq Ids', PolicyIds \subseteq PolicyIds',
           IF e.name = "ClaimPaid" THEN e.id \in PolicyIds' ELSE e.id \in Ids'
    PROVE  EventsOnRecord'
<1>1. /\ Len(log) \in Nat /\ Len(log') = Len(log) + 1
      /\ \A i \in 1 .. Len(log) : log'[i] = log[i]
      /\ log'[Len(log) + 1] = e
  BY Appended DEF Emitted
<1>2. 1 .. Len(log') = (1 .. Len(log)) \cup {Len(log) + 1}
  BY <1>1
<1>3. QED
  BY <1>1, <1>2 DEF EventsOnRecord

(* payouts are told as before by an event that is not one,                 *)
LEMMA PayoutsKept ==
    ASSUME NEW e, Emitted(e), PayoutsTold, policies' = policies,
           e.name # "ClaimPaid"
    PROVE  PayoutsTold'
<1>1. PolicyIds' = PolicyIds
  BY DEF PolicyIds
<1>2. \A p : PaidAt(p)' = PaidAt(p)
  BY PaidSame
<1>3. QED
  BY <1>1, <1>2 DEF PayoutsTold, Payouts

(* and stories by an event that is about no attestation.                   *)
LEMMA StoriesKept ==
    ASSUME NEW e, Emitted(e), StoriesTold, attestations' = attestations,
           e.name = "ClaimPaid"
    PROVE  StoriesTold'
<1>1. Ids' = Ids
  BY DEF Ids, Count
<1>2. ASSUME NEW id \in Ids
      PROVE  Told(id, StoryOf(attestations[id].status))'
  <2>1. PICK story : story = StoryOf(attestations[id].status)
    OBVIOUS
  <2>2. Told(id, story)
    BY <2>1 DEF StoriesTold
  <2>3. Told(id, story)'
    BY <2>2, ToldSame
  <2>4. story = StoryOf(attestations'[id].status)
    BY <2>1
  <2>5. QED
    BY <2>3, <2>4 DEF Told
<1>3. QED
  BY <1>1, <1>2 DEF StoriesTold

(* A story before anything was told.                                       *)
LEMMA NothingTold ==
    ASSUME NEW id, EventsAbout(id) = {}
    PROVE  Told(id, <<>>)
<1>1. 1 .. Len(<<>>) = {} /\ 2 .. Len(<<>>) = {}
  OBVIOUS
<1>2. [k \in {} |-> 0] \in [1 .. Len(<<>>) -> EventsAbout(id)]
  BY <1>1
<1>3. QED
  BY <1>1, <1>2 DEF Told

(* A submission tells of an attestation nothing was told about.            *)
LEMMA SubmitTells ==
    ASSUME IInv, StreamInv, NEW a \in Accounts, NEW m \in ModelIds,
           NEW u \in Uris, NEW s \in Offers, SubmitAttestation(a, m, u, s)
    PROVE  StreamInv'
<1>1. PICK new \in Nat : new = Count + 1
  BY SubmitInv
<1> DEFINE e == [name |-> "AttestationSubmitted", id |-> new]
<1>2. /\ IInv' /\ Count \in Nat /\ Count' = new /\ policies' = policies
      /\ \A i \in Ids : attestations'[i] = attestations[i]
      /\ attestations'[new] = NewAttestation(a, m, u)
      /\ log' = Append(log, e)
  BY <1>1, SubmitInv
<1>3. Ids' = Ids \cup {new} /\ new \notin Ids /\ PolicyIds' = PolicyIds
  BY <1>1, <1>2 DEF Ids, PolicyIds
<1>4. new \in 1 .. MaxAttestations
  BY <1>1, <1>2, MockAssumption DEF IInv, StoreOK
<1>5. e \in Event /\ e.name = "AttestationSubmitted" /\ e.id = new
  BY <1>4 DEF Event
<1> HIDE DEF e
<1>6. Emitted(e)
  BY <1>2, <1>5 DEF IInv, FeedsOK, Emitted
<1>7. EventsOnRecord'
  BY <1>3, <1>5, <1>6, OnRecordKept DEF StreamInv
<1>8. PayoutsTold'
  BY <1>2, <1>5, <1>6, PayoutsKept DEF StreamInv
<1>9. ASSUME NEW id \in Ids
      PROVE  Told(id, StoryOf(attestations[id].status))'
  <2>1. PICK story : story = StoryOf(attestations[id].status)
    OBVIOUS
  <2>2. Told(id, story)
    BY <2>1 DEF StreamInv, StoriesTold
  <2>3. Told(id, story)'
    BY <1>3, <1>5, <1>6, <2>2, ToldSame
  <2>4. story = StoryOf(attestations'[id].status)
    BY <1>2, <2>1
  <2>5. QED
    BY <2>3, <2>4 DEF Told
<1>10. Told(new, StoryOf(attestations[new].status))'
  <2>1. EventsAbout(new) = {}
    BY <1>3 DEF StreamInv, EventsOnRecord, EventsAbout
  <2>2. Told(new, <<>>)
    BY <2>1, NothingTold
  <2>3. Told(new, Append(<<>>, "AttestationSubmitted"))'
    <3>1. <<>> \in Seq(Names)
      OBVIOUS
    <3>2. e.name \in Names /\ e.id = new
      BY <1>5 DEF Names
    <3>3. Told(new, Append(<<>>, e.name))'
      BY <1>6, <2>2, <3>1, <3>2, ToldMore
    <3>4. QED
      BY <1>5, <3>3
  <2>4. Append(<<>>, "AttestationSubmitted") = StoryOf(attestations'[new].status)
    BY <1>2 DEF NewAttestation, StoryOf
  <2>5. QED
    BY <2>3, <2>4 DEF Told
<1>11. StoriesTold'
  BY <1>3, <1>9, <1>10 DEF StoriesTold
<1>12. QED
  BY <1>7, <1>8, <1>11 DEF StreamInv

(* A challenge, and a verdict, continue the story of one attestation.      *)
LEMMA StoryContinues ==
    ASSUME IInv, StreamInv, NEW id \in Ids, NEW e, Emitted(e),
           e.name \in Names, e.id = id, policies' = policies,
           Count' = Count,
           \A i \in Ids : i # id => attestations'[i] = attestations[i],
           StoryOf(attestations[id].status) \in Seq(Names),
           StoryOf(attestations'[id].status) =
              Append(StoryOf(attestations[id].status), e.name)
    PROVE  StreamInv'
<1>1. Ids' = Ids /\ PolicyIds' = PolicyIds
  BY DEF Ids, PolicyIds
<1>2. EventsOnRecord'
  BY <1>1, OnRecordKept DEF StreamInv, Names
<1>3. PayoutsTold'
  BY PayoutsKept DEF StreamInv, Names
<1>4. ASSUME NEW i \in Ids
      PROVE  Told(i, StoryOf(attestations[i].status))'
  <2>1. PICK story : story = StoryOf(attestations[i].status)
    OBVIOUS
  <2>2. Told(i, story)
    BY <2>1 DEF StreamInv, StoriesTold
  <2>3. CASE i # id
    <3>1. Told(i, story)'
      BY <2>2, <2>3, ToldSame
    <3>2. story = StoryOf(attestations'[i].status)
      BY <2>1, <2>3
    <3>3. QED
      BY <3>1, <3>2 DEF Told
  <2>4. CASE i = id
    <3>1. story \in Seq(Names)
      BY <2>1, <2>4
    <3>2. Told(i, Append(story, e.name))'
      BY <2>2, <2>4, <3>1, ToldMore
    <3>3. Append(story, e.name) = StoryOf(attestations'[i].status)
      BY <2>1, <2>4
    <3>4. QED
      BY <3>2, <3>3 DEF Told
  <2>5. QED
    BY <2>3, <2>4
<1>5. QED
  BY <1>1, <1>2, <1>3, <1>4 DEF StreamInv, StoriesTold

(* The three chapters of it.                                               *)
LEMMA Chapters ==
    /\ StoryOf("Active") = <<"AttestationSubmitted">>
    /\ StoryOf("Active") \in Seq(Names) /\ StoryOf("Challenged") \in Seq(Names)
    /\ StoryOf("Challenged") = Append(StoryOf("Active"), "Challenged")
    /\ StoryOf("Slashed") = Append(StoryOf("Challenged"), "Resolved")
    /\ StoryOf("Finalized") = Append(StoryOf("Challenged"), "Resolved")
<1> DEFINE one == <<"AttestationSubmitted">>
           two == <<"AttestationSubmitted", "Challenged">>
           three == <<"AttestationSubmitted", "Challenged", "Resolved">>
<1>1. StoryOf("Active") = one /\ StoryOf("Challenged") = two
  BY DEF StoryOf
<1>2. StoryOf("Slashed") = three /\ StoryOf("Finalized") = three
  BY DEF StoryOf
<1>3. one \in Seq(Names) /\ two \in Seq(Names)
  BY DEF Names
<1>4. two = Append(one, "Challenged") /\ three = Append(two, "Resolved")
  OBVIOUS
<1> HIDE DEF one, two, three
<1>5. QED
  BY <1>1, <1>2, <1>3, <1>4 DEF one

(* A challenge is the second chapter of a story,                           *)
LEMMA ChallengeTells ==
    ASSUME IInv, StreamInv, NEW id \in Ids, Challenge(id)
    PROVE  StreamInv'
<1> DEFINE e == [name |-> "Challenged", id |-> id]
           new == [attestations[id] EXCEPT !.status = "Challenged",
                                           !.challenger = MockAccount]
<1>1. /\ Count' = Count /\ attestations[id].status = "Active"
      /\ \A i \in Ids : i # id => attestations'[i] = attestations[i]
      /\ attestations'[id] = new /\ policies' = policies
      /\ log' = Append(log, e)
  BY ChallengeInv
<1>2. e \in Event /\ e.name = "Challenged" /\ e.id = id
  BY AboutEvent
<1>3. attestations[id] \in StoredAttestation
  BY DEF IInv, StoreOK, Ids, Count
<1>4. new.status = "Challenged"
  BY <1>3 DEF StoredAttestation
<1> HIDE DEF e, new
<1>5. Emitted(e)
  BY <1>1, <1>2 DEF IInv, FeedsOK, Emitted
<1>6. /\ StoryOf(attestations[id].status) \in Seq(Names)
      /\ StoryOf(attestations'[id].status) =
            Append(StoryOf(attestations[id].status), e.name)
  BY <1>1, <1>2, <1>4, Chapters
<1>7. e.name \in Names
  BY <1>2 DEF Names
<1>8. QED
  BY <1>1, <1>2, <1>5, <1>6, <1>7, StoryContinues

(* and a verdict, either way, the last.                                    *)
LEMMA ResolveTells ==
    ASSUME IInv, StreamInv, NEW id \in Ids, NEW fraudulent \in BOOLEAN,
           Resolve(id, fraudulent)
    PROVE  StreamInv'
<1> DEFINE e == [name |-> "Resolved", id |-> id]
           v == RulingOf(fraudulent)
           new == [attestations[id] EXCEPT !.status = v]
<1>1. /\ Count' = Count /\ attestations[id].status = "Challenged"
      /\ \A i \in Ids : i # id => attestations'[i] = attestations[i]
      /\ attestations'[id] = new /\ policies' = policies
      /\ log' = Append(log, e)
  BY ResolveInv
<1>2. e \in Event /\ e.name = "Resolved" /\ e.id = id
  BY AboutEvent
<1>3. attestations[id] \in StoredAttestation
  BY DEF IInv, StoreOK, Ids, Count
<1>4. v \in {"Slashed", "Finalized"}
  BY DEF RulingOf
<1> HIDE DEF v
<1>5. new.status = v
  BY <1>3 DEF StoredAttestation
<1> HIDE DEF e, new
<1>6. Emitted(e)
  BY <1>1, <1>2 DEF IInv, FeedsOK, Emitted
<1>7. /\ StoryOf(attestations[id].status) \in Seq(Names)
      /\ StoryOf(attestations'[id].status) =
            Append(StoryOf(attestations[id].status), e.name)
  BY <1>1, <1>2, <1>4, <1>5, Chapters
<1>8. e.name \in Names
  BY <1>2 DEF Names
<1>9. QED
  BY <1>1, <1>2, <1>6, <1>7, <1>8, StoryContinues

(* A new policy has no payouts yet.                                        *)
LEMMA CreatePolicyTells ==
    ASSUME IInv, StreamInv, NEW ts \in TriggerChoices, NEW x \in Expiries,
           CreatePolicy(ts, x)
    PROVE  StreamInv'
<1>1. PICK new \in Nat : new = Len(policies) + 1
  BY CreatePolicyInv
<1>2. /\ Len(policies) \in Nat /\ Len(policies') = new
      /\ \A p \in PolicyIds : policies'[p] = policies[p]
      /\ policies'[new].status = "Active"
      /\ attestations' = attestations /\ log' = log
  BY <1>1, CreatePolicyInv
<1>3. /\ PolicyIds' = PolicyIds \cup {new} /\ new \notin PolicyIds
      /\ Ids' = Ids
  BY <1>1, <1>2 DEF PolicyIds, Ids, Count
<1>4. EventsOnRecord'
  BY <1>2, <1>3 DEF StreamInv, EventsOnRecord
<1>5. StoriesTold'
  BY <1>2, <1>3 DEF StreamInv, StoriesTold, Told, EventsAbout
<1>6. \A p : PaidAt(p)' = PaidAt(p)
  BY <1>2 DEF PaidAt
<1>7. Payouts(new)' = 0
  <2>1. PaidAt(new)' = {}
    BY <1>3, <1>6, SMTT(60) DEF StreamInv, EventsOnRecord, PaidAt
  <2>2. QED
    BY <2>1, FS_EmptySet DEF Payouts
<1>8. PayoutsTold'
  BY <1>2, <1>3, <1>6, <1>7 DEF StreamInv, PayoutsTold, Payouts
<1>9. QED
  BY <1>4, <1>5, <1>8 DEF StreamInv

(* A refused claim tells nothing, and marks a policy nothing is told of.   *)
LEMMA RefuseTells ==
    ASSUME IInv, StreamInv, NEW p \in PolicyIds, NEW now \in Times,
           RefuseLapsed(p, now)
    PROVE  StreamInv'
<1>1. /\ PolicyIds' = PolicyIds
      /\ \A q \in PolicyIds : q # p => policies'[q] = policies[q]
      /\ policies'[p].status = "Expired"
      /\ attestations' = attestations /\ log' = log
  BY RefuseInv
<1>2. Ids' = Ids
  BY <1>1 DEF Ids, Count
<1>3. EventsOnRecord'
  BY <1>1, <1>2 DEF StreamInv, EventsOnRecord
<1>4. StoriesTold'
  BY <1>1, <1>2 DEF StreamInv, StoriesTold, Told, EventsAbout
<1>5. \A q : PaidAt(q)' = PaidAt(q)
  BY <1>1 DEF PaidAt
<1>6. PayoutsTold'
  BY <1>1, <1>5 DEF StreamInv, PayoutsTold, Payouts
<1>7. QED
  BY <1>3, <1>4, <1>6 DEF StreamInv

(* A paid claim tells of its payout.                                       *)
LEMMA PayTells ==
    ASSUME IInv, StreamInv, NEW p \in PolicyIds, NEW id \in Ids,
           NEW now \in Times, PayClaim(p, id, now)
    PROVE  StreamInv'
<1> DEFINE e == [name |-> "ClaimPaid", id |-> p]
<1>1. /\ IInv' /\ PolicyIds' = PolicyIds
      /\ \A q \in PolicyIds : q # p => policies'[q] = policies[q]
      /\ policies'[p].status = "Claimed"
      /\ attestations' = attestations
      /\ log' = Append(log, e)
  BY PayInv
<1>2. e \in Event /\ e.name = "ClaimPaid" /\ e.id = p
  <2>1. MaxPolicies \in Nat /\ Len(policies) \in Nat /\ Len(policies) <= MaxPolicies
    BY MockAssumption DEF IInv, StoreOK
  <2>2. p \in 1 .. MaxPolicies
    BY <2>1 DEF PolicyIds
  <2>3. QED
    BY <2>2 DEF Event
<1> HIDE DEF e
<1>3. Emitted(e)
  BY <1>1, <1>2 DEF IInv, FeedsOK, Emitted
<1>4. Ids' = Ids
  BY <1>1 DEF Ids, Count
<1>5. EventsOnRecord'
  BY <1>1, <1>2, <1>3, <1>4, OnRecordKept DEF StreamInv
<1>6. StoriesTold'
  BY <1>1, <1>2, <1>3, StoriesKept DEF StreamInv
<1>7. \A q : q # p => PaidAt(q)' = PaidAt(q)
  BY <1>2, <1>3, PaidSame
<1>8. Payouts(p)' > 0
  <2>1. Payouts(p) \in Nat /\ Payouts(p)' = Payouts(p) + 1
    BY <1>2, <1>3, PaidMore
  <2>2. QED
    BY <2>1
<1>9. PayoutsTold'
  BY <1>1, <1>7, <1>8 DEF StreamInv, PayoutsTold, Payouts
<1>10. QED
  BY <1>5, <1>6, <1>9 DEF StreamInv

(* So every call keeps the stream telling the state.                       *)
LEMMA NextStream == IInv /\ StreamInv /\ [Next]_vars => StreamInv'
<1> SUFFICES ASSUME IInv, StreamInv, [Next]_vars
             PROVE  StreamInv'
  OBVIOUS
<1>1. ASSUME attestations' = attestations, policies' = policies, log' = log
      PROVE  StreamInv'
  <2>1. Ids' = Ids /\ PolicyIds' = PolicyIds
    BY <1>1 DEF Ids, Count, PolicyIds
  <2>2. EventsOnRecord'
    BY <1>1, <2>1 DEF StreamInv, EventsOnRecord
  <2>3. StoriesTold'
    BY <1>1, <2>1 DEF StreamInv, StoriesTold, Told, EventsAbout
  <2>4. PayoutsTold'
    BY <1>1, <2>1 DEF StreamInv, PayoutsTold, Payouts, PaidAt
  <2>5. QED
    BY <2>2, <2>3, <2>4 DEF StreamInv
<1>2. CASE UNCHANGED vars
  BY <1>1, <1>2 DEF vars
<1>3. CASE Next
  BY <1>1, <1>3, SubmitTells, ChallengeTells, ResolveTells, CreatePolicyTells,
     RefuseTells, PayTells, StakingInv, FeedInv, MockAssumption DEF Next
<1>4. QED
  BY <1>2, <1>3

(* An empty stream tells of an empty store.                                *)
LEMMA InitStream == Init => StreamInv
BY DEF Init, StreamInv, EventsOnRecord, StoriesTold, PayoutsTold, Ids, Count,
       PolicyIds

(* An observer of the event stream alone knows the status of every         *)
(* attestation, and that a policy is claimed only if a payout was told of. *)
THEOREM StreamTellsState == Spec => []EventsTellState
BY InitStream, NextStream, InvEventsTellState, IInvInductive, PTL DEF Spec
(* A policy a claim was once refused for stays expired, and no payout of   *)
(* it follows.                                                             *)
ExpiredStays ==
    \A p \in PolicyIds :
        policies[p].status = "Expired" =>
            policies'[p].status = "Expired" /\ Payouts(p)' = Payouts(p)

(* Events that are not payouts leave every payout as it was.               *)
LEMMA ExpiredUndisturbed ==
    ASSUME NEW e, Emitted(e), e.name # "ClaimPaid", policies' = policies
    PROVE  ExpiredStays
<1>1. \A p : PaidAt(p)' = PaidAt(p)
  BY PaidSame
<1>2. QED
  BY <1>1 DEF ExpiredStays, Payouts

(* A payout is of a policy that is not expired.                            *)
LEMMA PayKeepsExpired ==
    ASSUME IInv, NEW p \in PolicyIds, NEW id \in Ids, NEW now \in Times,
           PayClaim(p, id, now)
    PROVE  ExpiredStays
<1> DEFINE e == [name |-> "ClaimPaid", id |-> p]
<1>1. /\ IInv' /\ policies[p].status # "Expired"
      /\ \A q \in PolicyIds : q # p => policies'[q] = policies[q]
      /\ log' = Append(log, e)
  BY PayInv
<1>2. e \in Event /\ e.id = p
  <2>1. MaxPolicies \in Nat /\ Len(policies) \in Nat /\ Len(policies) <= MaxPolicies
    BY MockAssumption DEF IInv, StoreOK
  <2>2. p \in 1 .. MaxPolicies
    BY <2>1 DEF PolicyIds
  <2>3. QED
    BY <2>2 DEF Event
<1> HIDE DEF e
<1>3. Emitted(e)
  BY <1>1, <1>2 DEF IInv, FeedsOK, Emitted
<1>4. \A q : q # p => PaidAt(q)' = PaidAt(q)
  BY <1>2, <1>3, PaidSame
<1>5. QED
  BY <1>1, <1>4 DEF ExpiredStays, Payouts

(* So no call undoes an expiry.                                            *)
LEMMA NextExpired == IInv /\ [Next]_vars => ExpiredStays
<1> SUFFICES ASSUME IInv, [Next]_vars
             PROVE  ExpiredStays
  OBVIOUS
<1>1. ASSUME policies' = policies, log' = log
      PROVE  ExpiredStays
  BY <1>1 DEF ExpiredStays, Payouts, PaidAt
<1>2. ASSUME NEW a \in Accounts, NEW m \in ModelIds, NEW u \in Uris,
             NEW s \in Offers, SubmitAttestation(a, m, u, s)
      PROVE  ExpiredStays
  <2> DEFINE e == [name |-> "AttestationSubmitted", id |-> Count + 1]
  <2>1. /\ IInv' /\ Count \in Nat /\ Count' = Count + 1
        /\ log' = Append(log, e) /\ policies' = policies
    BY <1>2, SubmitInv
  <2>2. Count + 1 \in 1 .. MaxAttestations
    BY <2>1, MockAssumption DEF IInv, StoreOK
  <2>3. e \in Event /\ e.name # "ClaimPaid"
    BY <2>2 DEF Event
  <2> HIDE DEF e
  <2>4. QED
    BY <2>1, <2>3, ExpiredUndisturbed DEF Emitted, IInv, FeedsOK
<1>3. ASSUME NEW id \in Ids, NEW name \in {"Challenged", "Resolved"},
             policies' = policies,
             log' = Append(log, [name |-> name, id |-> id])
      PROVE  ExpiredStays
  <2> DEFINE e == [name |-> name, id |-> id]
  <2>1. e \in Event /\ e.name # "ClaimPaid"
    BY AboutEvent
  <2> HIDE DEF e
  <2>2. QED
    BY <1>3, <2>1, ExpiredUndisturbed DEF Emitted, IInv, FeedsOK, e
<1>4. ASSUME NEW ts \in TriggerChoices, NEW x \in Expiries, CreatePolicy(ts, x)
      PROVE  ExpiredStays
  BY <1>4, CreatePolicyInv DEF ExpiredStays, Payouts, PaidAt
<1>5. ASSUME NEW p \in PolicyIds, NEW now \in Times, RefuseLapsed(p, now)
      PROVE  ExpiredStays
  BY <1>5, RefuseInv DEF ExpiredStays, Payouts, PaidAt
<1>6. ASSUME NEW id \in Ids, Challenge(id)
      PROVE  ExpiredStays
  BY <1>3, <1>6, ChallengeInv
<1>7. ASSUME NEW id \in Ids, NEW fraudulent \in BOOLEAN, Resolve(id, fraudulent)
      PROVE  ExpiredStays
  BY <1>3, <1>7, ResolveInv
<1>8. CASE UNCHANGED vars
  BY <1>1, <1>8 DEF vars
<1>9. CASE Next
  BY <1>1, <1>2, <1>4, <1>5, <1>6, <1>7, <1>9, PayKeepsExpired, StakingInv,
     FeedInv, MockAssumption DEF Next
<1>10. QED
  BY <1>8, <1>9

(* Once a claim was refused because the policy expired, the policy never   *)
(* pays again, whatever the clock reads later.                             *)
THEOREM ExpiredNeverPays == Spec => ExpiredIsFinal
<1>1. IInv /\ [Next]_vars => [ExpiredStays]_vars
  BY NextExpired
<1>2. QED
  BY <1>1, IInvInductive, PTL DEF Spec, ExpiredIsFinal, ExpiredStays
=============================================================================
