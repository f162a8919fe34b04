--------------------------- MODULE DashboardProofs --------------------------
(***************************************************************************)
(* The list of attestations never goes back, whatever the number of        *)
(* refreshes under way and however they interleave with writes: refreshes  *)
(* are loaded in the order they were started and shown in that order, so   *)
(* what they bring is ordered in time.                                     *)
(***************************************************************************)
EXTENDS Dashboard, MockBackendProofs

(* One list of attestations is of an earlier time than another.            *)
Precedes(v, w) ==
    /\ Len(v) <= Len(w)
    /\ \A id \in 1 .. Len(v) : Rank(v[id].status) <= Rank(w[id].status)

Lists == Seq(StoredAttestation)

(* Statuses are ranked by naturals.                                        *)
LEMMA RankType == \A status : Rank(status) \in Nat
BY DEF Rank

(* A list is of no earlier time than itself,                               *)
LEMMA PrecedesSelf ==
    ASSUME NEW v \in Lists
    PROVE  Precedes(v, v)
BY RankType DEF Precedes, Lists

(* and of an earlier time than whatever one of a later time precedes.      *)
LEMMA PrecedesTransitive ==
    ASSUME NEW v \in Lists, NEW w \in Lists, NEW x \in Lists,
           Precedes(v, w), Precedes(w, x)
    PROVE  Precedes(v, x)
<1>1. Len(v) \in Nat /\ Len(w) \in Nat /\ Len(x) \in Nat
  BY DEF Lists
<1>2. SUFFICES ASSUME NEW id \in 1 .. Len(v)
               PROVE  Rank(v[id].status) <= Rank(x[id].status)
  BY <1>1 DEF Precedes
<1>3. Rank(v[id].status) <= Rank(w[id].status)
      /\ Rank(w[id].status) <= Rank(x[id].status)
  BY <1>1 DEF Precedes
<1>4. QED
  BY <1>3, RankType

(* The records of a later time, cut off at the count of an earlier one.    *)
LEMMA PrecedesCut ==
    ASSUME NEW v \in Lists, NEW w \in Lists, NEW n \in 0 .. Len(w),
           Precedes(v, w), Len(v) <= n
    PROVE  /\ SubSeq(w, 1, n) \in Lists /\ Len(SubSeq(w, 1, n)) = n
           /\ Precedes(v, SubSeq(w, 1, n)) /\ Precedes(SubSeq(w, 1, n), w)
<1>1. Len(v) \in Nat /\ Len(w) \in Nat /\ n \in Nat /\ n <= Len(w)
  BY DEF Lists
<1>2. /\ SubSeq(w, 1, n) \in Lists /\ Len(SubSeq(w, 1, n)) = n
      /\ \A id \in 1 .. n : SubSeq(w, 1, n)[id] = w[id]
  BY <1>1, SubSeqProperties DEF Lists
<1> DEFINE cut == SubSeq(w, 1, n)
<1> HIDE DEF cut
<1>3. Len(cut) = n /\ \A id \in 1 .. n : cut[id] = w[id]
  BY <1>2 DEF cut
<1>4. Precedes(v, cut)
  BY <1>1, <1>3 DEF Precedes
<1>5. Precedes(cut, w)
  BY <1>1, <1>3, RankType DEF Precedes
<1>6. QED
  BY <1>2, <1>4, <1>5 DEF cut

(* The records on file only move on, whatever call is made.                *)
LEMMA NextMovesOn ==
    ASSUME IInv, [Next]_vars
    PROVE  IInv' /\ Precedes(attestations, attestations')
<1>1. IInv' /\ attestations \in Lists /\ attestations' \in Lists
  <2>1. IInv'
    BY NextIInv
  <2>2. QED
    BY <2>1 DEF IInv, StoreOK, Lists
<1>2. CASE attestations' = attestations
  BY <1>1, <1>2, PrecedesSelf
<1>3. ASSUME NEW a \in Accounts, NEW m \in ModelIds, NEW u \in Uris,
             NEW s \in Offers, SubmitAttestation(a, m, u, s)
      PROVE  Precedes(attestations, attestations')
  <2>1. /\ Count \in Nat /\ Count' = Count + 1
        /\ \A i \in Ids : attestations'[i] = attestations[i]
    BY <1>3, SubmitInv
  <2>2. QED
    BY <2>1, RankType DEF Precedes, Count, Ids
<1>4. ASSUME NEW id \in Ids, Challenge(id)
      PROVE  Precedes(attestations, attestations')
  <2>1. /\ Count' = Count /\ attestations[id].status = "Active"
        /\ \A i \in Ids : i # id => attestations'[i] = attestations[i]
    BY <1>4, ChallengeInv
  <2>2. Rank("Active") = 0 /\ Count \in Nat
    BY <1>1 DEF Rank, Count, Lists
  <2>3. \A i \in Ids : Rank(attestations[i].status) <= Rank(attestations'[i].status)
    BY <2>1, <2>2, RankType
  <2>4. QED
    BY <2>1, <2>2, <2>3 DEF Precedes, Count, Ids
<1>5. ASSUME NEW id \in Ids, NEW fraudulent \in BOOLEAN, Resolve(id, fraudulent)
      PROVE  Precedes(attestations, attestations')
  <2>1. /\ Count' = Count /\ attestations[id].status = "Challenged"
        /\ \A i \in Ids : i # id => attestations'[i] = attestations[i]
        /\ attestations'[id] =
              [attestations[id] EXCEPT !.status = RulingOf(fraudulent)]
    BY <1>5, ResolveInv
  <2>2. attestations[id] \in StoredAttestation /\ Count \in Nat
    BY <1>1 DEF Lists, Count, Ids
  <2>3. attestations'[id].status \in {"Slashed", "Finalized"}
    BY <2>1, <2>2 DEF RulingOf, StoredAttestation
  <2>4. Rank(attestations[id].status) <= Rank(attestations'[id].status)
    BY <2>1, <2>3 DEF Rank
  <2>5. ASSUME NEW i \in Ids
        PROVE  Rank(attestations[i].status) <= Rank(attestations'[i].status)
    <3>1. CASE i = id
      BY <2>4, <3>1
    <3>2. CASE i # id
      BY <2>1, <3>2, RankType
    <3>3. QED
      BY <3>1, <3>2
  <2>6. QED
    BY <2>1, <2>2, <2>5 DEF Precedes, Count, Ids
<1>6. CASE UNCHANGED vars
  BY <1>2, <1>6 DEF vars
<1>7. CASE Next
  <2>1. ASSUME \/ \E ts \in TriggerChoices, e \in Expiries : CreatePolicy(ts, e)
               \/ \E p \in PolicyIds, now \in Times : RefuseLapsed(p, now)
               \/ \E p \in PolicyIds, id \in Ids, now \in Times :
                     PayClaim(p, id, now)
               \/ \E amount \in Amounts : Stake(amount) \/ Unstake(amount)
               \/ \E f \in Feeds : MountFeed(f) \/ UnmountFeed(f)
        PROVE  attestations' = attestations
    BY <2>1 DEF CreatePolicy, RefuseLapsed, PayClaim, Stake, Unstake, MountFeed,
                UnmountFeed
  <2>2. CASE \E a \in Accounts, m \in ModelIds, u \in Uris, s \in Offers :
                SubmitAttestation(a, m, u, s)
    BY <1>1, <1>3, <2>2
  <2>3. CASE \E id \in Ids : Challenge(id)
    BY <1>1, <1>4, <2>3
  <2>4. CASE \E id \in Ids, fraudulent \in BOOLEAN : Resolve(id, fraudulent)
    BY <1>1, <1>5, <2>4
  <2>5. QED
    BY <1>2, <1>7, <2>1, <2>2, <2>3, <2>4 DEF Next
<1>8. QED
  BY <1>1, <1>6, <1>7
-----------------------------------------------------------------------------
(* The refreshes under way.                                                *)

Refresh == [stage: {"counted", "loaded"}, count: Nat, loaded: Lists]

(* A refresh brings no less than is shown, and nothing of the future.      *)
InTime(r, shown, file) ==
    /\ Len(shown) <= r.count /\ r.count <= Len(file)
    /\ r.stage = "loaded" =>
          /\ Len(r.loaded) = r.count
          /\ Precedes(shown, r.loaded) /\ Precedes(r.loaded, file)

(* A refresh brings no less than one that was started before it.           *)
InOrder(r, q) ==
    /\ r.count <= q.count
    /\ q.stage = "loaded" => r.stage = "loaded" /\ Precedes(r.loaded, q.loaded)

ViewInv ==
    /\ IInv
    /\ view \in Lists /\ Precedes(view, attestations)
    /\ refreshes \in Seq(Refresh)
    /\ \A i \in 1 .. Len(refreshes) : InTime(refreshes[i], view, attestations)
    /\ \A i, j \in 1 .. Len(refreshes) :
          i < j => InOrder(refreshes[i], refreshes[j])

(* What the invariant says of types alone.                                 *)
LEMMA ListTypes ==
    ASSUME ViewInv
    PROVE  /\ attestations \in Lists /\ Count \in Nat
           /\ Len(view) \in Nat /\ Len(refreshes) \in Nat
           /\ Count = Len(attestations)
           /\ \A i \in 1 .. Len(refreshes) : refreshes[i] \in Refresh
BY DEF ViewInv, IInv, StoreOK, Lists, Count

(* A call of the backend leaves what was loaded in the past.               *)
LEMMA NextViewInv ==
    ASSUME ViewInv, [Next]_vars, UNCHANGED viewVars
    PROVE  ViewInv'
<1>1. IInv' /\ Precedes(attestations, attestations')
  BY NextMovesOn DEF ViewInv
<1>2. attestations \in Lists /\ attestations' \in Lists
  BY <1>1 DEF ViewInv, IInv, StoreOK, Lists
<1>3. view' = view /\ refreshes' = refreshes
  BY DEF viewVars
<1>4. Precedes(view, attestations')
  BY <1>1, <1>2, PrecedesTransitive DEF ViewInv
<1>5. ASSUME NEW i \in 1 .. Len(refreshes)
      PROVE  InTime(refreshes'[i], view', attestations')
  <2>1. PICK r \in Refresh : r = refreshes[i] /\ InTime(r, view, attestations)
    BY ListTypes DEF ViewInv
  <2>2. r.loaded \in Lists /\ r.count \in Nat
    BY DEF Refresh
  <2>3. r.count <= Len(attestations')
    <3>1. /\ Len(attestations) <= Len(attestations')
          /\ Len(attestations) \in Nat /\ Len(attestations') \in Nat
      BY <1>1, <1>2 DEF Precedes, Lists
    <3>2. QED
      BY <2>1, <2>2, <3>1 DEF InTime
  <2>4. r.stage = "loaded" => Precedes(r.loaded, attestations')
    BY <1>1, <1>2, <2>1, <2>2, PrecedesTransitive DEF InTime
  <2>5. InTime(r, view', attestations')
    BY <1>3, <2>1, <2>3, <2>4 DEF InTime
  <2>6. QED
    BY <1>3, <2>1, <2>5
<1>6. QED
  BY <1>1, <1>3, <1>4, <1>5 DEF ViewInv

(* Opening the page starts from nothing.                                   *)
LEMMA OpenPageInv ==
    ASSUME ViewInv, OpenPage
    PROVE  ViewInv'
<1>1. Count \in Nat /\ attestations \in Lists /\ Count = Len(attestations)
  BY ListTypes
<1>2. PICK r : r = Counted(Count)
  OBVIOUS
<1>3. r \in Refresh /\ r.count = Count /\ r.stage = "counted"
  BY <1>1, <1>2 DEF Counted, Refresh, Lists
<1>4. /\ view' = <<>> /\ refreshes' = <<r>>
      /\ UNCHANGED vars
  BY <1>2 DEF OpenPage
<1>5. IInv' /\ attestations' = attestations /\ Count' = Count
  BY <1>4 DEF vars, ViewInv, IInv, StoreOK, FeedsOK, Count
<1>6. view' \in Lists /\ Precedes(view', attestations')
  BY <1>1, <1>4, <1>5 DEF Lists, Precedes
<1>7. InTime(r, view', attestations')
  BY <1>1, <1>3, <1>4, <1>5 DEF InTime
<1>8. /\ refreshes' \in Seq(Refresh) /\ Len(refreshes') = 1
      /\ refreshes'[1] = r
  BY <1>3, <1>4
<1>9. QED
  BY <1>5, <1>6, <1>7, <1>8 DEF ViewInv

(* A refresh started now counts no less than those before it.              *)
LEMMA StartRefreshInv ==
    ASSUME ViewInv, StartRefresh
    PROVE  ViewInv'
<1>1. /\ Count \in Nat /\ attestations \in Lists /\ Count = Len(attestations)
      /\ Len(view) \in Nat /\ Len(refreshes) \in Nat
      /\ \A i \in 1 .. Len(refreshes) : refreshes[i] \in Refresh
  BY ListTypes
<1>2. PICK r : r = Counted(Count)
  OBVIOUS
<1>3. r \in Refresh /\ r.count = Count /\ r.stage = "counted"
  BY <1>1, <1>2 DEF Counted, Refresh, Lists
<1>4. refreshes' = Append(refreshes, r) /\ view' = view /\ UNCHANGED vars
  BY <1>2 DEF StartRefresh
<1>5. IInv' /\ attestations' = attestations /\ Count' = Count
  BY <1>4 DEF vars, ViewInv, IInv, StoreOK, FeedsOK, Count
<1>6. /\ refreshes' \in Seq(Refresh) /\ Len(refreshes') = Len(refreshes) + 1
      /\ \A i \in 1 .. Len(refreshes) : refreshes'[i] = refreshes[i]
      /\ refreshes'[Len(refreshes) + 1] = r
  BY <1>3, <1>4, Appended DEF ViewInv
<1>7. InTime(r, view', attestations')
  BY <1>1, <1>3, <1>4, <1>5 DEF InTime, ViewInv, Precedes, Count
<1>8. \A i \in 1 .. Len(refreshes') : InTime(refreshes'[i], view', attestations')
  <2>1. SUFFICES ASSUME NEW i \in 1 .. Len(refreshes')
                 PROVE  InTime(refreshes'[i], view', attestations')
    OBVIOUS
  <2>2. CASE i = Len(refreshes) + 1
    BY <1>6, <1>7, <2>2
  <2>3. CASE i # Len(refreshes) + 1
    <3>1. i \in 1 .. Len(refreshes) /\ refreshes'[i] = refreshes[i]
      BY <1>1, <1>6, <2>3
    <3>2. QED
      BY <1>4, <1>5, <3>1 DEF ViewInv, InTime
  <2>4. QED
    BY <2>2, <2>3
<1>9. ASSUME NEW i \in 1 .. Len(refreshes'), NEW j \in 1 .. Len(refreshes'), i < j
      PROVE  InOrder(refreshes'[i], refreshes'[j])
  <2>1. i \in 1 .. Len(refreshes) /\ refreshes'[i] = refreshes[i]
    BY <1>1, <1>6, <1>9
  <2>2. CASE j = Len(refreshes) + 1
    <3>1. refreshes[i].count <= Count
      BY <1>1, <2>1 DEF ViewInv, InTime
    <3>2. QED
      BY <1>3, <1>6, <2>1, <2>2, <3>1 DEF InOrder
  <2>3. CASE j # Len(refreshes) + 1
    <3>1. j \in 1 .. Len(refreshes) /\ refreshes'[j] = refreshes[j]
      BY <1>1, <1>6, <2>3
    <3>2. QED
      BY <1>9, <2>1, <3>1 DEF ViewInv
  <2>4. QED
    BY <2>2, <2>3
<1>10. QED
  BY <1>4, <1>5, <1>6, <1>8, <1>9 DEF ViewInv

(* The records are loaded when those of every earlier refresh are, and     *)
(* those of no later one.                                                  *)
LEMMA LoadRecordsInv ==
    ASSUME ViewInv, LoadRecords
    PROVE  ViewInv'
<1>1. /\ Count \in Nat /\ attestations \in Lists /\ Count = Len(attestations)
      /\ Len(view) \in Nat /\ Len(refreshes) \in Nat
      /\ \A i \in 1 .. Len(refreshes) : refreshes[i] \in Refresh
  BY ListTypes DEF Count
<1>2. PICK i \in 1 .. Len(refreshes) :
         /\ refreshes[i].stage = "counted"
         /\ \A j \in 1 .. i - 1 : refreshes[j].stage = "loaded"
         /\ refreshes' = [refreshes EXCEPT ![i] = Loaded(refreshes[i].count)]
         /\ UNCHANGED <<vars, view, loading>>
  <2>1. DOMAIN refreshes = 1 .. Len(refreshes)
    BY DEF ViewInv
  <2>2. QED
    BY <2>1 DEF LoadRecords
<1>3. PICK n \in 0 .. Count : n = refreshes[i].count /\ Len(view) <= n
  BY <1>1 DEF ViewInv, InTime, Refresh
<1>4. PICK r : r = Loaded(n)
  OBVIOUS
<1>5. /\ r.stage = "loaded" /\ r.count = n /\ r.loaded = SubSeq(attestations, 1, n)
  BY <1>4 DEF Loaded
<1>6. /\ r.loaded \in Lists /\ Len(r.loaded) = n
      /\ Precedes(view, r.loaded) /\ Precedes(r.loaded, attestations)
  BY <1>1, <1>3, <1>5, PrecedesCut DEF ViewInv
<1>7. r \in Refresh
  BY <1>1, <1>3, <1>4, <1>5, <1>6 DEF Loaded, Refresh
<1>8. /\ refreshes' \in Seq(Refresh) /\ Len(refreshes') = Len(refreshes)
      /\ refreshes'[i] = r
      /\ \A j \in 1 .. Len(refreshes) : j # i => refreshes'[j] = refreshes[j]
  <2>1. refreshes' = [refreshes EXCEPT ![i] = r]
    BY <1>2, <1>3, <1>4
  <2>2. QED
    BY <1>7, <2>1 DEF ViewInv
<1>9. /\ IInv' /\ view' = view /\ attestations' = attestations /\ Count' = Count
  BY <1>2 DEF vars, ViewInv, IInv, StoreOK, FeedsOK, Count
<1>10. \A j \in 1 .. Len(refreshes) : InTime(refreshes'[j], view', attestations')
  <2>1. InTime(r, view', attestations')
    BY <1>1, <1>3, <1>5, <1>6, <1>9 DEF InTime
  <2>2. \A j \in 1 .. Len(refreshes) : j # i => InTime(refreshes'[j], view', attestations')
    BY <1>8, <1>9 DEF ViewInv, InTime
  <2>3. QED
    BY <1>8, <2>1, <2>2
<1>11. ASSUME NEW j \in 1 .. Len(refreshes), NEW k \in 1 .. Len(refreshes), j < k
       PROVE  InOrder(refreshes'[j], refreshes'[k])
  <2>1. InOrder(refreshes[j], refreshes[k])
    BY <1>11 DEF ViewInv
  <2>2. CASE k = i
    <3>1. refreshes[j].stage = "loaded" /\ refreshes'[j] = refreshes[j]
      BY <1>1, <1>2, <1>8, <1>11, <2>2
    <3>2. PICK q \in Refresh : q = refreshes[j] /\ InTime(q, view, attestations)
      BY <1>1 DEF ViewInv
    <3>3. /\ q.loaded \in Lists /\ Len(q.loaded) = q.count
          /\ Precedes(q.loaded, attestations) /\ q.count <= n
      BY <1>3, <2>1, <2>2, <3>1, <3>2 DEF InTime, InOrder, Refresh
    <3>4. Precedes(q.loaded, r.loaded)
      BY <1>1, <1>3, <1>5, <3>3, PrecedesCut
    <3>5. QED
      BY <1>5, <1>8, <2>2, <3>1, <3>2, <3>3, <3>4 DEF InOrder
  <2>3. CASE j = i
    <3>1. refreshes[k].stage # "loaded" /\ refreshes'[k] = refreshes[k]
      BY <1>1, <1>2, <1>8, <1>11, <2>1, <2>3 DEF InOrder
    <3>2. QED
      BY <1>3, <1>5, <1>8, <2>1, <2>3, <3>1 DEF InOrder
  <2>4. CASE j # i /\ k # i
    BY <1>8, <2>1, <2>4
  <2>5. QED
    BY <2>2, <2>3, <2>4
<1>12. QED
  BY <1>8, <1>9, <1>10, <1>11 DEF ViewInv

(* Removing the first of a sequence.                                       *)
LEMMA RemovedFirst ==
    ASSUME NEW S, NEW s \in Seq(S), Len(s) >= 1
    PROVE  /\ RemoveAt(s, 1) \in Seq(S)
           /\ Len(RemoveAt(s, 1)) = Len(s) - 1
           /\ \A i \in 1 .. Len(s) - 1 : RemoveAt(s, 1)[i] = s[i + 1]
<1> DEFINE rest == SubSeq(s, 2, Len(s))
<1>1. Len(s) \in Nat
  OBVIOUS
<1>2. SubSeq(s, 1, 0) = <<>>
  BY SubSeqEmpty
<1>3. /\ rest \in Seq(S) /\ Len(rest) = Len(s) - 1
      /\ \A i \in 1 .. Len(s) - 1 : rest[i] = s[i + 1]
  <2>1. \A i \in 2 .. Len(s) : s[i] \in S
    BY <1>1
  <2>2. /\ rest \in Seq(S)
        /\ Len(rest) = IF 2 <= Len(s) THEN Len(s) - 2 + 1 ELSE 0
        /\ \A i \in 1 .. Len(s) - 2 + 1 : rest[i] = s[2 + i - 1]
    BY <1>1, <2>1, SubSeqProperties
  <2> HIDE DEF rest
  <2>3. \A i \in 1 .. Len(s) - 1 :
           i \in 1 .. Len(s) - 2 + 1 /\ 2 + i - 1 = i + 1
    BY <1>1
  <2>4. Len(rest) = Len(s) - 1
    <3>1. PICK n \in Nat : n = Len(s) /\ n >= 1
      BY <1>1
    <3>2. (IF 2 <= n THEN n - 2 + 1 ELSE 0) = n - 1
      BY <3>1
    <3>3. QED
      BY <2>2, <3>1, <3>2
  <2>5. ASSUME NEW i \in 1 .. Len(s) - 1
        PROVE  rest[i] = s[i + 1]
    BY <2>2, <2>3
  <2>6. QED
    BY <2>2, <2>4, <2>5
<1>4. RemoveAt(s, 1) = <<>> \o rest
  <2>1. 1 - 1 = 0 /\ 1 + 1 = 2
    OBVIOUS
  <2>2. QED
    BY <1>2, <2>1 DEF RemoveAt
<1> HIDE DEF rest
<1>5. <<>> \o rest = rest
  BY <1>3
<1>6. QED
  BY <1>3, <1>4, <1>5

(* The oldest refresh is shown, and is of a later time than what it        *)
(* replaces.                                                               *)
LEMMA ShowRecordsInv ==
    ASSUME ViewInv, ShowRecords
    PROVE  ViewInv' /\ Precedes(view, view')
<1>1. /\ Count \in Nat /\ attestations \in Lists /\ Count = Len(attestations)
      /\ Len(view) \in Nat /\ Len(refreshes) \in Nat
      /\ \A i \in 1 .. Len(refreshes) : refreshes[i] \in Refresh
  BY ListTypes
<1>2. /\ 1 \in 1 .. Len(refreshes) /\ Len(refreshes) >= 1
      /\ refreshes[1].stage = "loaded"
      /\ view' = refreshes[1].loaded
      /\ refreshes' = RemoveAt(refreshes, 1)
      /\ UNCHANGED vars
  <2>1. PICK i \in DOMAIN refreshes :
           /\ MayShow(i) /\ view' = refreshes[i].loaded
           /\ refreshes' = RemoveAt(refreshes, i) /\ UNCHANGED vars
    BY DEF ShowRecords
  <2>2. i = 1 /\ refreshes[i].stage = "loaded"
    BY <2>1 DEF MayShow
  <2>3. QED
    BY <1>1, <2>1, <2>2 DEF ViewInv
<1>3. PICK first \in Refresh : first = refreshes[1] /\ InTime(first, view, attestations)
  BY <1>1, <1>2 DEF ViewInv
<1>4. /\ view' = first.loaded /\ view' \in Lists /\ Len(view') = first.count
      /\ Precedes(view, view') /\ Precedes(view', attestations)
  BY <1>2, <1>3 DEF InTime, Refresh
<1>5. /\ refreshes' \in Seq(Refresh) /\ Len(refreshes') = Len(refreshes) - 1
      /\ \A i \in 1 .. Len(refreshes) - 1 : refreshes'[i] = refreshes[i + 1]
  BY <1>2, RemovedFirst DEF ViewInv
<1>6. IInv' /\ attestations' = attestations /\ Count' = Count
  BY <1>2 DEF vars, ViewInv, IInv, StoreOK, FeedsOK, Count
<1>7. ASSUME NEW i \in 1 .. Len(refreshes')
      PROVE  InTime(refreshes'[i], view', attestations')
  <2>1. i + 1 \in 1 .. Len(refreshes) /\ 1 < i + 1
        /\ refreshes'[i] = refreshes[i + 1]
    BY <1>1, <1>5
  <2>2. PICK q \in Refresh :
           q = refreshes'[i] /\ InTime(q, view, attestations) /\ InOrder(first, q)
    BY <1>1, <1>2, <1>3, <2>1 DEF ViewInv
  <2>3. InTime(q, view', attestations')
    BY <1>2, <1>3, <1>4, <1>6, <2>2 DEF InTime, InOrder
  <2>4. QED
    BY <2>2, <2>3
<1>8. ASSUME NEW i \in 1 .. Len(refreshes'), NEW j \in 1 .. Len(refreshes'), i < j
      PROVE  InOrder(refreshes'[i], refreshes'[j])
  <2>1. /\ i + 1 \in 1 .. Len(refreshes) /\ j + 1 \in 1 .. Len(refreshes)
        /\ i + 1 < j + 1
        /\ refreshes'[i] = refreshes[i + 1] /\ refreshes'[j] = refreshes[j + 1]
    BY <1>1, <1>5, <1>8
  <2>2. QED
    BY <2>1 DEF ViewInv
<1>9. QED
  BY <1>4, <1>5, <1>6, <1>7, <1>8 DEF ViewInv

(* Every step keeps the invariant, and one after which something is shown  *)
(* has not gone back.                                                      *)
LEMMA NextView ==
    ASSUME ViewInv, [DashboardNext]_allVars
    PROVE  ViewInv' /\ (~loading' => Precedes(view, view'))
<1>1. CASE [Next]_vars /\ UNCHANGED viewVars
  <2>1. ViewInv' /\ view' = view
    BY <1>1, NextViewInv DEF viewVars
  <2>2. QED
    BY <2>1, PrecedesSelf DEF ViewInv
<1>2. CASE OpenPage
  BY <1>2, OpenPageInv DEF OpenPage
<1>3. CASE StartRefresh
  <2>1. ViewInv' /\ view' = view
    BY <1>3, StartRefreshInv DEF StartRefresh
  <2>2. QED
    BY <2>1, PrecedesSelf DEF ViewInv
<1>4. CASE LoadRecords
  <2>1. ViewInv' /\ view' = view
    BY <1>4, LoadRecordsInv DEF LoadRecords
  <2>2. QED
    BY <2>1, PrecedesSelf DEF ViewInv
<1>5. CASE ShowRecords
  BY <1>5, ShowRecordsInv
<1>6. CASE UNCHANGED allVars
  BY <1>1, <1>6 DEF allVars
<1>7. QED
  BY <1>1, <1>2, <1>3, <1>4, <1>5, <1>6 DEF DashboardNext

(* The page is opened before anything has been attested.                   *)
LEMMA InitView == DashboardInit => ViewInv
<1> SUFFICES ASSUME DashboardInit
             PROVE  ViewInv
  OBVIOUS
<1>1. IInv /\ attestations = <<>> /\ view = <<>> /\ refreshes = <<Counted(0)>>
  BY InitIInv DEF DashboardInit, Init
<1>2. PICK r : r = Counted(0)
  OBVIOUS
<1>3. r \in Refresh /\ r.count = 0 /\ r.stage = "counted"
  BY <1>2 DEF Counted, Refresh, Lists
<1>4. InTime(r, view, attestations)
  BY <1>1, <1>3 DEF InTime, Count
<1>5. refreshes \in Seq(Refresh) /\ Len(refreshes) = 1 /\ refreshes[1] = r
  BY <1>1, <1>2, <1>3
<1>6. view \in Lists /\ Precedes(view, attestations)
  BY <1>1 DEF Lists, Precedes
<1>7. QED
  BY <1>1, <1>4, <1>5, <1>6 DEF ViewInv

(* It holds in every state of the dashboard.                               *)
LEMMA ViewInvInductive == DashboardSpec => []ViewInv
BY InitView, NextView, PTL DEF DashboardSpec

(* However many refreshes overlap, and whatever is written between their   *)
(* awaits, an attestation that is listed stays listed and never shows a    *)
(* status earlier than the one it has shown.                               *)
THEOREM ListNeverGoesBack == DashboardSpec => ViewNeverRegresses
<1>1. ASSUME ViewInv, [DashboardNext]_allVars
      PROVE  [ ~loading' =>
                  /\ Len(view) <= Len(view')
                  /\ \A id \in DOMAIN view :
                        Rank(view[id].status) <= Rank(view'[id].status) ]_allVars
  <2>1. DOMAIN view = 1 .. Len(view)
    BY <1>1 DEF ViewInv, Lists
  <2>2. ~loading' => Precedes(view, view')
    BY <1>1, NextView
  <2>3. QED
    BY <2>1, <2>2 DEF Precedes
<1>2. QED
  BY <1>1, ViewInvInductive, PTL DEF DashboardSpec, ViewNeverRegresses
=============================================================================
