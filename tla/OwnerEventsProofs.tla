-------------------------- MODULE OwnerEventsProofs --------------------------
(***************************************************************************)
(* Proofs about OwnerEvents for any events, consumers, couriers and batch   *)
(* size: the queues keep every row that is still owed, and the tables with  *)
(* the delivery loop implement the safety half of EventDelivery.            *)
(***************************************************************************)
EXTENDS OwnerEvents, SequenceTheorems, TLAPS

-----------------------------------------------------------------------------
(* Queues without repetition, as sets: what is in one after each of the     *)
(* operations on it.                                                        *)

Distinct(s) == \A i, j \in 1..Len(s) : s[i] = s[j] => i = j
Has(s, e) == \E i \in 1..Len(s) : s[i] = e

\* A row that is appended is there, besides what was there.
LEMMA AppendDistinct ==
    ASSUME NEW S, NEW s \in Seq(S), NEW e \in S
    PROVE  /\ Append(s, e) \in Seq(S)
           /\ \A x : Has(Append(s, e), x) <=> Has(s, x) \/ x = e
           /\ Distinct(s) /\ ~Has(s, e) => Distinct(Append(s, e))
  BY AppendProperties DEF Distinct, Has

\* The row at the head leaves the queue, and only it.
LEMMA TailDistinct ==
    ASSUME NEW S, NEW s \in Seq(S), s # <<>>
    PROVE  /\ Head(s) \in S /\ Tail(s) \in Seq(S)
           /\ Has(s, Head(s))
           /\ Distinct(s) => /\ Distinct(Tail(s))
                             /\ \A x : Has(Tail(s), x) <=> Has(s, x) /\ x # Head(s)
  BY HeadTailProperties, LenProperties DEF Distinct, Has

\* What is left of a sequence behind one of its elements.
LEMMA Suffix ==
    ASSUME NEW S, NEW s \in Seq(S), NEW k \in 1..Len(s)
    PROVE  /\ SubSeq(s, k+1, Len(s)) \in Seq(S) /\ Len(SubSeq(s, k+1, Len(s))) = Len(s) - k
           /\ \A i \in 1..(Len(s) - k) : SubSeq(s, k+1, Len(s))[i] = s[k+i]
  <1>1. PICK n \in Nat : n = Len(s)
        BY LenProperties
  <1>2. PICK m \in Int : m = k+1
        BY <1>1
  <1>3. \A i \in m..n : s[i] \in S
        BY <1>1, <1>2, ElementOfSeq
  <1>4. /\ SubSeq(s, m, n) \in Seq(S) /\ Len(SubSeq(s, m, n)) = IF m <= n THEN n - m + 1 ELSE 0
        /\ \A i \in 1..(n - m + 1) : SubSeq(s, m, n)[i] = s[m + i - 1]
        BY <1>3, n \in Int, SubSeqProperties
  <1>5. (IF m <= n THEN n - m + 1 ELSE 0) = n - k /\ n - m + 1 = n - k /\ \A i \in Int : m + i - 1 = k + i
        BY <1>1, <1>2
  <1> QED BY <1>1, <1>2, <1>4, <1>5

\* Removing one row removes that row, and only it.
LEMMA WithoutDistinct ==
    ASSUME NEW S, NEW s \in Seq(S), NEW e
    PROVE  /\ Without(s, e) \in Seq(S)
           /\ Distinct(s) => /\ Distinct(Without(s, e))
                             /\ \A x : Has(Without(s, e), x) <=> Has(s, x) /\ x # e
  <1>1. DOMAIN s = 1..Len(s) /\ Len(s) \in Nat /\ \A i \in 1..Len(s) : s[i] \in S
        BY LenProperties, ElementOfSeq
  <1>2. CASE ~\E i \in DOMAIN s : s[i] = e
        BY <1>1, <1>2 DEF Without, Has, Distinct
  <1>3. CASE \E i \in DOMAIN s : s[i] = e
    <2> DEFINE k == CHOOSE i \in DOMAIN s : s[i] = e
               a == SubSeq(s, 1, k-1)
               b == SubSeq(s, k+1, Len(s))
               t == a \o b
    <2>1. k \in 1..Len(s) /\ s[k] = e
          BY <1>1, <1>3
    <2>2. Without(s, e) = t
          BY <1>3 DEF Without, RemoveAt
    <2> HIDE DEF k
    <2>3. /\ a \in Seq(S) /\ Len(a) = k-1
          /\ \A i \in 1..(k-1) : a[i] = s[i]
          BY <1>1, <2>1, SubSeqProperties, LenProperties
    <2>4. /\ b \in Seq(S) /\ Len(b) = Len(s) - k
          /\ \A i \in 1..(Len(s) - k) : b[i] = s[k+i]
          BY <2>1, Suffix
    <2> HIDE DEF a, b
    <2>5. /\ t \in Seq(S) /\ Len(t) = Len(s) - 1
          /\ \A i \in 1..(k-1) : t[i] = s[i]
          /\ \A i \in k..(Len(s) - 1) : t[i] = s[i+1]
      <3>1. /\ t \in Seq(S) /\ Len(t) = Len(a) + Len(b)
            /\ \A i \in 1..(Len(a) + Len(b)) : t[i] = IF i <= Len(a) THEN a[i] ELSE b[i - Len(a)]
            BY <2>3, <2>4, ConcatProperties
      <3>2. Len(t) = Len(s) - 1
            BY <1>1, <2>1, <2>3, <2>4, <3>1
      <3>3. ASSUME NEW i \in 1..(k-1) PROVE t[i] = s[i]
            BY <1>1, <2>1, <2>3, <2>4, <3>1
      <3>4. ASSUME NEW i \in k..(Len(s) - 1) PROVE t[i] = s[i+1]
        <4>1. i \in 1..(Len(a) + Len(b)) /\ ~(i <= Len(a)) /\ i - Len(a) = i - k + 1
              BY <1>1, <2>1, <2>3, <2>4
        <4>2. t[i] = b[i - k + 1]
              BY <3>1, <4>1
        <4>3. i - k + 1 \in 1..(Len(s) - k) /\ k + (i - k + 1) = i + 1
              BY <1>1, <2>1
        <4> QED BY <2>4, <4>2, <4>3
      <3> QED BY <3>1, <3>2, <3>3, <3>4
    <2> HIDE DEF t
    <2> DEFINE from(i) == IF i < k THEN i ELSE i + 1
    <2>f. \A i \in 1..Len(t) : from(i) \in 1..Len(s) /\ from(i) # k /\ t[i] = s[from(i)]
          BY <1>1, <2>1, <2>5
    <2>6. ASSUME Distinct(s) PROVE Distinct(t)
      <3>1. SUFFICES ASSUME NEW i \in 1..Len(t), NEW j \in 1..Len(t), t[i] = t[j]
                     PROVE  i = j
            BY DEF Distinct
      <3>2. from(i) = from(j)
            BY <2>6, <2>f, <3>1 DEF Distinct
      <3> QED BY <1>1, <2>1, <2>5, <3>2
    <2>7. ASSUME Distinct(s), NEW x PROVE Has(t, x) => Has(s, x) /\ x # e
          BY <2>1, <2>7, <2>f DEF Distinct, Has
    <2>8. ASSUME NEW x, Has(s, x), x # e PROVE Has(t, x)
      <3>1. PICK i \in 1..Len(s) : s[i] = x
            BY <2>8 DEF Has
      <3>2. CASE i < k
            BY <1>1, <2>1, <2>5, <3>1, <3>2 DEF Has
      <3>3. CASE i > k
            BY <1>1, <2>1, <2>5, <3>1, <3>3, i - 1 \in 1..Len(t), t[i-1] = s[i] DEF Has
      <3> QED BY <1>1, <2>1, <2>8, <3>1, <3>2, <3>3
    <2> QED BY <2>2, <2>5, <2>6, <2>7, <2>8
  <1> QED BY <1>2, <1>3

-----------------------------------------------------------------------------
(* The inductive invariant.                                                 *)

\* An effect is counted once, with its inbox row; an acknowledged delivery has
\* one; and what is applied was appended and is acceptable.
AppliedOnce ==
    /\ \A d \in Delivery : effects[d] = IF d \in inbox THEN 1 ELSE 0
    /\ acked \subseteq inbox
    /\ \A d \in inbox : d[1] \in appended /\ d \notin Refused

\* What a courier holds, and what a handler without a caller works on, is a
\* delivery of an appended event; a call said to be committed is in the inbox.
CallsAreTrue ==
    /\ \A k \in Courier :
         /\ \A i \in 1..Len(batch[k]) : batch[k][i][1] \in appended
         /\ call[k] # "none" => batch[k] # <<>>
         /\ call[k] = "committed" => Head(batch[k]) \in inbox
    /\ \A d \in Delivery : late[d] > 0 => d[1] \in appended

\* The two queues of a consumer share no row, repeat none, and have together
\* the deliveries that are not acknowledged.
QueuesKeepRows ==
    \A c \in Consumer :
        /\ Distinct(due[c]) /\ Distinct(deferred[c])
        /\ \A e \in Event : ~(Has(due[c], e) /\ Has(deferred[c], e))
        /\ \A e \in Event : Has(due[c], e) \/ Has(deferred[c], e)
                              <=> e \in appended /\ <<e, c>> \in Delivery \ acked

IInv == OwnerEventsTypeOK /\ AppliedOnce /\ CallsAreTrue /\ QueuesKeepRows

\* A delivery is an event and a consumer.
LEMMA DeliveryIsPair ==
    ASSUME NEW d \in Delivery
    PROVE  d[1] \in Event /\ d[2] \in Consumer /\ d = <<d[1], d[2]>>
  BY DeliveryAssumption

\* The empty tables satisfy the invariant.
LEMMA InitIInv == Init => IInv
  <1> SUFFICES ASSUME Init PROVE IInv
      OBVIOUS
  <1>1. OwnerEventsTypeOK
        BY DeliveryAssumption DEF Init, OwnerEventsTypeOK
  <1>2. AppliedOnce /\ CallsAreTrue
        BY DEF Init, AppliedOnce, CallsAreTrue
  <1>3. QueuesKeepRows
        BY DEF Init, QueuesKeepRows, Distinct, Has
  <1> QED BY <1>1, <1>2, <1>3 DEF IInv

\* The head of what a courier read is the delivery it is at.
LEMMA NowFacts ==
    ASSUME IInv, NEW k \in Courier, NEW d \in Delivery, Now(k, d)
    PROVE  /\ batch[k] \in Seq(Delivery) /\ batch[k] # <<>> /\ Head(batch[k]) = d
           /\ d[1] \in appended
           /\ Tail(batch[k]) \in Seq(Delivery)
           /\ \A i \in 1..Len(Tail(batch[k])) : Tail(batch[k])[i][1] \in appended
  <1>1. batch[k] \in Seq(Delivery) /\ batch[k] # <<>> /\ Head(batch[k]) = d
        BY DEF IInv, OwnerEventsTypeOK, Now
  <1>2. \A i \in 1..Len(batch[k]) : batch[k][i][1] \in appended
        BY DEF IInv, CallsAreTrue
  <1> QED BY <1>1, <1>2, HeadTailProperties, LenProperties

\* A handler's transaction leaves the tables of the consumers right, whether it
\* is the first to commit the delivery or finds it committed.
LEMMA DeliverInboxKeeps ==
    ASSUME IInv, NEW d \in Delivery, d[1] \in appended, d \notin Refused,
           DeliverInbox(d), UNCHANGED rows
    PROVE  /\ inbox' \subseteq Delivery /\ effects' \in [Delivery -> Nat]
           /\ inbox \subseteq inbox' /\ d \in inbox'
           /\ AppliedOnce'
  BY DEF IInv, OwnerEventsTypeOK, AppliedOnce, DeliverInbox, rows

\* A row that is settled or deferred: what is in the queues of its consumer.
LEMMA RowMoves ==
    ASSUME IInv, NEW d \in Delivery
    PROVE  LET c == d[2]  e == d[1] IN
           /\ c \in Consumer /\ e \in Event
           /\ Without(due[c], e) \in Seq(Event) /\ Without(deferred[c], e) \in Seq(Event)
           /\ Distinct(Without(due[c], e)) /\ Distinct(Without(deferred[c], e))
           /\ \A x : Has(Without(due[c], e), x) <=> Has(due[c], x) /\ x # e
           /\ \A x : Has(Without(deferred[c], e), x) <=> Has(deferred[c], x) /\ x # e
           /\ Append(Without(deferred[c], e), e) \in Seq(Event)
           /\ Distinct(Append(Without(deferred[c], e), e))
           /\ \A x : Has(Append(Without(deferred[c], e), e), x) <=> Has(deferred[c], x) \/ x = e
  <1> DEFINE c == d[2]  e == d[1]
  <1>1. c \in Consumer /\ e \in Event
        BY DeliveryIsPair
  <1>2. due[c] \in Seq(Event) /\ deferred[c] \in Seq(Event)
        BY <1>1 DEF IInv, OwnerEventsTypeOK
  <1>3. Distinct(due[c]) /\ Distinct(deferred[c])
        BY <1>1 DEF IInv, QueuesKeepRows
  <1> HIDE DEF c, e
  <1>4. /\ Without(due[c], e) \in Seq(Event) /\ Without(deferred[c], e) \in Seq(Event)
        /\ Distinct(Without(due[c], e)) /\ Distinct(Without(deferred[c], e))
        /\ \A x : Has(Without(due[c], e), x) <=> Has(due[c], x) /\ x # e
        /\ \A x : Has(Without(deferred[c], e), x) <=> Has(deferred[c], x) /\ x # e
        BY <1>2, <1>3, WithoutDistinct
  <1> DEFINE w == Without(deferred[c], e)
  <1> HIDE DEF w
  <1>5. w \in Seq(Event) /\ Distinct(w) /\ ~Has(w, e)
        BY <1>4 DEF w
  <1>6. /\ Append(w, e) \in Seq(Event) /\ Distinct(Append(w, e))
        /\ \A x : Has(Append(w, e), x) <=> Has(w, x) \/ x = e
        BY <1>1, <1>5, AppendDistinct
  <1>7. \A x : Has(Append(w, e), x) <=> Has(deferred[c], x) \/ x = e
        BY <1>4, <1>6 DEF w
  <1> QED BY <1>1, <1>4, <1>6, <1>7 DEF c, e, w

\* A step of a courier or a handler leaves the queues alone.
LEMMA QueuesUnchanged ==
    ASSUME IInv, UNCHANGED rows
    PROVE  QueuesKeepRows'
  BY DEF IInv, QueuesKeepRows, rows

\* Every step keeps the invariant.
LEMMA NextIInv == IInv /\ [Next]_vars => IInv'
  <1> SUFFICES ASSUME IInv, [Next]_vars PROVE IInv'
      OBVIOUS
  <1> USE DeliveryAssumption
  <1>1. CASE UNCHANGED vars
    <2>1. OwnerEventsTypeOK'
          BY <1>1 DEF IInv, OwnerEventsTypeOK, vars, rows, consumed, loops
    <2>2. AppliedOnce'
          BY <1>1 DEF IInv, AppliedOnce, vars, rows, consumed, loops
    <2>3. CallsAreTrue'
          BY <1>1 DEF IInv, CallsAreTrue, vars, rows, consumed, loops
    <2>4. QueuesKeepRows'
          BY <1>1 DEF IInv, QueuesKeepRows, vars, rows, consumed, loops
    <2> QED BY <2>1, <2>2, <2>3, <2>4 DEF IInv
  <1>2. ASSUME NEW e \in Event, AppendEvent(e) PROVE IInv'
    <2> USE <1>2 DEF AppendEvent, consumed, loops
    <2>1. \A c \in Consumer : due[c] \in Seq(Event) /\ Append(due[c], e) \in Seq(Event)
          BY AppendProperties DEF IInv, OwnerEventsTypeOK
    <2>2. OwnerEventsTypeOK'
          BY <2>1 DEF IInv, OwnerEventsTypeOK
    <2>3. AppliedOnce'
          BY DEF IInv, AppliedOnce
    <2>4. CallsAreTrue'
          BY DEF IInv, CallsAreTrue
    <2>5. ASSUME NEW c \in Consumer
          PROVE  /\ Distinct(due[c])' /\ Distinct(deferred[c])'
                 /\ \A x \in Event : ~(Has(due[c], x) /\ Has(deferred[c], x))'
                 /\ \A x \in Event : (Has(due[c], x) \/ Has(deferred[c], x)
                                      <=> x \in appended /\ <<x, c>> \in Delivery \ acked)'
      <3>1. /\ due[c] \in Seq(Event) /\ Distinct(due[c]) /\ Distinct(deferred[c])
            /\ \A x \in Event : ~(Has(due[c], x) /\ Has(deferred[c], x))
            /\ \A x \in Event : Has(due[c], x) \/ Has(deferred[c], x)
                                <=> x \in appended /\ <<x, c>> \in Delivery \ acked
            BY <2>1 DEF IInv, QueuesKeepRows
      <3>2. <<e, c>> \notin acked
            BY DEF IInv, AppliedOnce
      <3>3. ~Has(due[c], e) /\ ~Has(deferred[c], e)
            BY <3>1
      <3>4. /\ Distinct(Append(due[c], e))
            /\ \A x : Has(Append(due[c], e), x) <=> Has(due[c], x) \/ x = e
            BY <3>1, <3>3, AppendDistinct
      <3>5. deferred'[c] = deferred[c] /\ acked' = acked /\ appended' = appended \cup {e}
            OBVIOUS
      <3>6. CASE <<e, c>> \in Delivery
        <4>1. due'[c] = Append(due[c], e)
              BY <3>6
        <4> HIDE <1>2 DEF AppendEvent
        <4> QED BY <3>1, <3>2, <3>3, <3>4, <3>5, <3>6, <4>1
      <3>7. CASE <<e, c>> \notin Delivery
        <4>1. due'[c] = due[c]
              BY <3>7
        <4> HIDE <1>2 DEF AppendEvent
        <4> QED BY <3>1, <3>2, <3>3, <3>4, <3>5, <3>7, <4>1
      <3> QED BY <3>6, <3>7
    <2>6. QueuesKeepRows'
          BY <2>5 DEF QueuesKeepRows
    <2> QED BY <2>2, <2>3, <2>4, <2>6 DEF IInv
  <1>3. ASSUME NEW b \in Consumer, FallDue(b) PROVE IInv'
    <2> USE <1>3 DEF FallDue, consumed, loops
    <2> DEFINE e == Head(deferred[b])
    <2>1. /\ due[b] \in Seq(Event) /\ deferred[b] \in Seq(Event) /\ deferred[b] # <<>>
          /\ Distinct(due[b]) /\ Distinct(deferred[b])
          /\ \A x \in Event : ~(Has(due[b], x) /\ Has(deferred[b], x))
          /\ \A x \in Event : Has(due[b], x) \/ Has(deferred[b], x)
                              <=> x \in appended /\ <<x, b>> \in Delivery \ acked
          BY DEF IInv, OwnerEventsTypeOK, QueuesKeepRows
    <2>2. /\ e \in Event /\ Tail(deferred[b]) \in Seq(Event)
          /\ Has(deferred[b], e) /\ Distinct(Tail(deferred[b]))
          /\ \A x : Has(Tail(deferred[b]), x) <=> Has(deferred[b], x) /\ x # e
          BY <2>1, TailDistinct
    <2> HIDE DEF e
    <2>3. ~Has(due[b], e)
          BY <2>1, <2>2
    <2>4. /\ Append(due[b], e) \in Seq(Event) /\ Distinct(Append(due[b], e))
          /\ \A x : Has(Append(due[b], e), x) <=> Has(due[b], x) \/ x = e
          BY <2>1, <2>2, <2>3, AppendDistinct
    <2>5. /\ due' = [due EXCEPT ![b] = Append(due[b], e)]
          /\ deferred' = [deferred EXCEPT ![b] = Tail(deferred[b])]
          BY DEF e
    <2>6. OwnerEventsTypeOK'
          BY <2>2, <2>4, <2>5 DEF IInv, OwnerEventsTypeOK
    <2>7. AppliedOnce' /\ CallsAreTrue'
          BY DEF IInv, AppliedOnce, CallsAreTrue
    <2>8. due \in [Consumer -> Seq(Event)] /\ deferred \in [Consumer -> Seq(Event)]
          BY DEF IInv, OwnerEventsTypeOK
    <2>9. ASSUME NEW c \in Consumer
          PROVE  /\ Distinct(due[c])' /\ Distinct(deferred[c])'
                 /\ \A x \in Event : ~(Has(due[c], x) /\ Has(deferred[c], x))'
                 /\ \A x \in Event : (Has(due[c], x) \/ Has(deferred[c], x)
                                      <=> x \in appended /\ <<x, c>> \in Delivery \ acked)'
      <3>1. CASE c = b
        <4>1. /\ due'[c] = Append(due[b], e) /\ deferred'[c] = Tail(deferred[b])
              /\ appended' = appended /\ acked' = acked
              BY <2>5, <2>8, <3>1
        <4> HIDE <1>3 DEF FallDue
        <4> QED BY <2>1, <2>2, <2>3, <2>4, <3>1, <4>1
      <3>2. CASE c # b
        <4>1. /\ due'[c] = due[c] /\ deferred'[c] = deferred[c]
              /\ appended' = appended /\ acked' = acked
              BY <2>5, <2>8, <3>2
        <4> QED BY <4>1 DEF IInv, QueuesKeepRows
      <3> QED BY <3>1, <3>2
    <2>10. QueuesKeepRows'
          BY <2>9 DEF QueuesKeepRows
    <2> QED BY <2>6, <2>7, <2>10 DEF IInv
  <1>4. ASSUME NEW k \in Courier, Crash(k) PROVE IInv'
    <2> USE <1>4 DEF Crash, rows, consumed
    <2>1. OwnerEventsTypeOK'
          BY EmptySeq DEF IInv, OwnerEventsTypeOK
    <2>2. AppliedOnce'
          BY DEF IInv, AppliedOnce
    <2>3. CallsAreTrue'
          BY DEF IInv, CallsAreTrue, OwnerEventsTypeOK
    <2> QED BY <2>1, <2>2, <2>3, QueuesUnchanged DEF IInv
  <1>5. ASSUME NEW k \in Courier, NEW c \in Consumer, PendingDeliveries(k, c) PROVE IInv'
    <2> DEFINE n == IF Len(due[c]) < Batch THEN Len(due[c]) ELSE Batch
               read == SubSeq(due[c], 1, n)
               pairs == [i \in 1..Len(read) |-> <<read[i], c>>]
    <2>1. /\ batch[k] = <<>> /\ read # <<>> /\ batch' = [batch EXCEPT ![k] = pairs]
          /\ UNCHANGED <<rows, consumed, call, late>>
          BY <1>5 DEF PendingDeliveries
    <2>2. due[c] \in Seq(Event) /\ Len(due[c]) \in Nat /\ n \in Nat /\ n <= Len(due[c])
          BY LenProperties DEF IInv, OwnerEventsTypeOK
    <2> HIDE DEF n
    <2>3. \A i \in 1..n : due[c][i] \in Event
          BY <2>2, ElementOfSeq
    <2>4. read \in Seq(Event) /\ Len(read) = n /\ \A i \in 1..n : read[i] = due[c][i]
          BY <2>2, <2>3, SubSeqProperties
    <2> HIDE DEF read
    <2>5. ASSUME NEW i \in 1..n
          PROVE  read[i] \in appended /\ <<read[i], c>> \in Delivery
      <3>1. Has(due[c], read[i]) /\ read[i] \in Event
            BY <2>2, <2>3, <2>4 DEF Has
      <3> QED BY <3>1 DEF IInv, QueuesKeepRows
    <2>6. /\ pairs \in Seq(Delivery) /\ Len(pairs) = n /\ pairs # <<>>
          /\ \A i \in 1..n : pairs[i][1] \in appended
      <3>1. n # 0
            BY <2>1, <2>4, EmptySeq, LenProperties
      <3> QED BY <2>2, <2>4, <2>5, <3>1
    <2> HIDE DEF pairs
    <2>7. OwnerEventsTypeOK'
          BY <2>1, <2>6 DEF IInv, OwnerEventsTypeOK, rows, consumed
    <2>8. AppliedOnce'
          BY <2>1 DEF IInv, AppliedOnce, rows, consumed
    <2>9. CallsAreTrue'
          BY <2>1, <2>6 DEF IInv, CallsAreTrue, OwnerEventsTypeOK, rows, consumed
    <2> QED BY <2>1, <2>7, <2>8, <2>9, QueuesUnchanged DEF IInv
  <1>6. ASSUME NEW k \in Courier, NEW d \in Delivery,
               Call(k, d) \/ Fail(k, d) \/ TimeOut(k, d)
        PROVE  IInv'
    <2>1. Now(k, d) /\ UNCHANGED <<rows, consumed, batch>>
          BY <1>6 DEF Call, Fail, TimeOut
    <2>2. /\ batch[k] # <<>> /\ Head(batch[k]) = d /\ d[1] \in appended
          BY <2>1, NowFacts
    <2>3. \E a \in {"handling", "committed", "failed"} :
             call' = [call EXCEPT ![k] = a] /\ (a = "committed" => d \in inbox)
          BY <1>6 DEF Call, Fail, TimeOut, ReadCommittedInbox
    <2>4. late' = late \/ (late[d] < MaxLate /\ late' = [late EXCEPT ![d] = @ + 1])
          BY <1>6 DEF Call, Fail, TimeOut
    <2>5. OwnerEventsTypeOK'
      <3>1. call' \in [Courier -> {"none", "handling", "committed", "failed"}]
            BY <2>3 DEF IInv, OwnerEventsTypeOK
      <3>2. late' \in [Delivery -> 0..MaxLate]
        <4>1. late \in [Delivery -> 0..MaxLate] /\ (late[d] < MaxLate => late[d] + 1 \in 0..MaxLate)
              BY DEF IInv, OwnerEventsTypeOK
        <4>2. CASE late' = late
              BY <4>1, <4>2
        <4>3. CASE late[d] < MaxLate /\ late' = [late EXCEPT ![d] = @ + 1]
              BY <4>1, <4>3
        <4> QED BY <2>4, <4>2, <4>3
      <3> QED BY <2>1, <3>1, <3>2 DEF IInv, OwnerEventsTypeOK, rows, consumed
    <2>6. AppliedOnce'
          BY <2>1 DEF IInv, AppliedOnce, rows, consumed
    <2>7. CallsAreTrue'
      <3>1. ASSUME NEW x \in Delivery, late'[x] > 0 PROVE x[1] \in appended
            BY <2>2, <2>4, <3>1 DEF IInv, CallsAreTrue, OwnerEventsTypeOK
      <3>2. ASSUME NEW j \in Courier
            PROVE  /\ call'[j] # "none" => batch[j] # <<>>
                   /\ call'[j] = "committed" => Head(batch[j]) \in inbox
            BY <2>2, <2>3 DEF IInv, CallsAreTrue, OwnerEventsTypeOK
      <3> QED BY <2>1, <3>1, <3>2 DEF IInv, CallsAreTrue, rows, consumed
    <2> QED BY <2>1, <2>5, <2>6, <2>7, QueuesUnchanged DEF IInv
  <1>7. ASSUME NEW k \in Courier, NEW d \in Delivery, Commit(k, d) PROVE IInv'
    <2>1. /\ Now(k, d) /\ d \notin Refused /\ DeliverInbox(d)
          /\ call' = [call EXCEPT ![k] = "committed"] /\ UNCHANGED <<rows, batch, late>>
          BY <1>7 DEF Commit
    <2>2. batch[k] # <<>> /\ Head(batch[k]) = d /\ d[1] \in appended
          BY <2>1, NowFacts
    <2>3. /\ inbox' \subseteq Delivery /\ effects' \in [Delivery -> Nat]
          /\ inbox \subseteq inbox' /\ d \in inbox' /\ AppliedOnce'
          BY <2>1, <2>2, DeliverInboxKeeps
    <2>4. OwnerEventsTypeOK'
          BY <2>1, <2>3 DEF IInv, OwnerEventsTypeOK, rows
    <2>5. CallsAreTrue'
          BY <2>1, <2>2, <2>3 DEF IInv, CallsAreTrue, OwnerEventsTypeOK, rows
    <2> QED BY <2>1, <2>3, <2>4, <2>5, QueuesUnchanged DEF IInv
  <1>8. ASSUME NEW d \in Delivery, LateCommit(d) \/ LateEnd(d) PROVE IInv'
    <2>1. /\ late[d] > 0 /\ late' = [late EXCEPT ![d] = @ - 1]
          /\ UNCHANGED <<rows, batch, call>>
          BY <1>8 DEF LateCommit, LateEnd
    <2>2. d[1] \in appended
          BY <2>1 DEF IInv, CallsAreTrue
    <2>3. /\ inbox' \subseteq Delivery /\ effects' \in [Delivery -> Nat]
          /\ inbox \subseteq inbox' /\ AppliedOnce'
      <3>1. CASE LateCommit(d)
            BY <2>1, <2>2, <3>1, DeliverInboxKeeps DEF LateCommit
      <3>2. CASE LateEnd(d)
            BY <3>2 DEF LateEnd, IInv, OwnerEventsTypeOK, AppliedOnce, rows, consumed
      <3> QED BY <1>8, <3>1, <3>2
    <2>4. late' \in [Delivery -> 0..MaxLate]
          BY <2>1 DEF IInv, OwnerEventsTypeOK
    <2>5. OwnerEventsTypeOK'
          BY <2>1, <2>3, <2>4 DEF IInv, OwnerEventsTypeOK, rows
    <2>6. \A x \in Delivery : late'[x] > 0 => late[x] > 0
          BY <2>1 DEF IInv, OwnerEventsTypeOK
    <2>7. CallsAreTrue'
          BY <2>1, <2>3, <2>6 DEF IInv, CallsAreTrue, rows
    <2> QED BY <2>1, <2>3, <2>5, <2>7, QueuesUnchanged DEF IInv
  <1>9. ASSUME NEW k \in Courier, NEW d \in Delivery,
               Acknowledge(k, d) \/ RecordFailure(k, d)
        PROVE  IInv'
    <2> DEFINE c == d[2]  e == d[1]
    <2>1. Now(k, d) /\ GoOn(k) /\ UNCHANGED <<appended, consumed, late>>
          BY <1>9 DEF Acknowledge, RecordFailure
    <2>2. CASE RecordFailure(k, d) /\ d \in acked
      <3>1. UNCHANGED rows
            BY <2>2 DEF RecordFailure, RecordDeliveryFailure, rows
      <3>2. OwnerEventsTypeOK'
            BY <2>1, <3>1, NowFacts DEF IInv, OwnerEventsTypeOK, GoOn, rows, consumed
      <3>3. AppliedOnce'
            BY <2>1, <3>1 DEF IInv, AppliedOnce, rows, consumed
      <3>4. CallsAreTrue'
            BY <2>1, <3>1, NowFacts DEF IInv, OwnerEventsTypeOK, CallsAreTrue, GoOn, rows, consumed
      <3> QED BY <3>1, <3>2, <3>3, <3>4, QueuesUnchanged DEF IInv
    <2>3. ASSUME Acknowledge(k, d) \/ (RecordFailure(k, d) /\ d \notin acked) PROVE IInv'
      <3> DEFINE q == Without(due[c], e)
                 w == Without(deferred[c], e)
      <3>1. /\ due' = [due EXCEPT ![c] = q]
            /\ \/ /\ acked' = acked \cup {d} /\ call[k] = "committed"
                  /\ deferred' = [deferred EXCEPT ![c] = w]
               \/ /\ acked' = acked /\ d \notin acked
                  /\ deferred' = [deferred EXCEPT ![c] = Append(w, e)]
            BY <2>3 DEF Acknowledge, RecordFailure, AcknowledgeDelivery, RecordDeliveryFailure
      <3>2. /\ c \in Consumer /\ e \in Event /\ d = <<e, c>> /\ e \in appended
            /\ q \in Seq(Event) /\ w \in Seq(Event) /\ Distinct(q) /\ Distinct(w)
            /\ \A x : Has(q, x) <=> Has(due[c], x) /\ x # e
            /\ \A x : Has(w, x) <=> Has(deferred[c], x) /\ x # e
            /\ Append(w, e) \in Seq(Event) /\ Distinct(Append(w, e))
            /\ \A x : Has(Append(w, e), x) <=> Has(deferred[c], x) \/ x = e
            BY <2>1, RowMoves, DeliveryIsPair, NowFacts
      <3> DEFINE v == Append(w, e)
      <3> HIDE DEF c, e, q, w, v
      <3>3. OwnerEventsTypeOK'
            BY <2>1, <3>1, <3>2, NowFacts DEF IInv, OwnerEventsTypeOK, GoOn, consumed, v
      <3>4. call[k] = "committed" => d \in inbox
            BY <2>1, NowFacts DEF IInv, CallsAreTrue
      <3>5. AppliedOnce'
            BY <2>1, <3>1, <3>4 DEF IInv, AppliedOnce, consumed
      <3>6. CallsAreTrue'
            BY <2>1, NowFacts DEF IInv, OwnerEventsTypeOK, CallsAreTrue, GoOn, consumed
      <3>7. due \in [Consumer -> Seq(Event)] /\ deferred \in [Consumer -> Seq(Event)]
            BY DEF IInv, OwnerEventsTypeOK
      <3>8. ASSUME NEW b \in Consumer
            PROVE  /\ Distinct(due[b])' /\ Distinct(deferred[b])'
                   /\ \A x \in Event : ~(Has(due[b], x) /\ Has(deferred[b], x))'
                   /\ \A x \in Event : (Has(due[b], x) \/ Has(deferred[b], x)
                                        <=> x \in appended /\ <<x, b>> \in Delivery \ acked)'
        <4>1. /\ Distinct(due[b]) /\ Distinct(deferred[b])
              /\ \A x \in Event : ~(Has(due[b], x) /\ Has(deferred[b], x))
              /\ \A x \in Event : Has(due[b], x) \/ Has(deferred[b], x)
                                  <=> x \in appended /\ <<x, b>> \in Delivery \ acked
              BY DEF IInv, QueuesKeepRows
        <4>2. CASE b # c
          <5>1. due'[b] = due[b] /\ deferred'[b] = deferred[b] /\ appended' = appended
                BY <2>1, <3>1, <3>2, <3>7, <4>2
          <5>2. \A x \in Event : <<x, b>> \in acked' <=> <<x, b>> \in acked
                BY <3>1, <3>2, <4>2
          <5> QED BY <4>1, <5>1, <5>2
        <4>3. CASE b = c /\ acked' = acked \cup {d} /\ deferred' = [deferred EXCEPT ![c] = w]
          <5>1. due'[b] = q /\ deferred'[b] = w /\ appended' = appended
                BY <2>1, <3>1, <3>2, <3>7, <4>3
          <5>2. \A x \in Event : <<x, b>> \in acked' <=> <<x, b>> \in acked \/ x = e
                BY <3>2, <4>3
          <5> QED BY <3>2, <4>1, <4>3, <5>1, <5>2
        <4>4. CASE b = c /\ acked' = acked /\ d \notin acked
                   /\ deferred' = [deferred EXCEPT ![c] = v]
          <5>1. due'[b] = q /\ deferred'[b] = v /\ appended' = appended
                BY <2>1, <3>1, <3>2, <3>7, <4>4
          <5>2. Distinct(v) /\ \A x : Has(v, x) <=> Has(deferred[c], x) \/ x = e
                BY <3>2 DEF v
          <5> QED BY <3>2, <4>1, <4>4, <5>1, <5>2
        <4> QED BY <3>1, <4>2, <4>3, <4>4 DEF v
      <3>9. QueuesKeepRows'
            BY <3>8 DEF QueuesKeepRows
      <3> QED BY <3>3, <3>5, <3>6, <3>9 DEF IInv
    <2> QED BY <1>9, <2>2, <2>3
  <1> QED BY <1>1, <1>2, <1>3, <1>4, <1>5, <1>6, <1>7, <1>8, <1>9 DEF Next

-----------------------------------------------------------------------------
(* What the runs check, for every instance.                                 *)

\* The invariant holds in every state of the specification.
LEMMA Invariance == Spec => []IInv
  BY InitIInv, NextIInv, PTL DEF Spec

\* The variables keep their types: a row holds events, a courier's batch holds
\* deliveries, and no more handlers are late than the bound allows.
THEOREM TypeCorrect == Spec => []OwnerEventsTypeOK
  <1>1. IInv => OwnerEventsTypeOK
        BY DEF IInv
  <1> QED BY <1>1, Invariance, PTL

\* The outbox keeps, once, the row of every delivery that is appended and not
\* acknowledged, and no other: whatever order acknowledgements and failures of
\* several replicas come in.
THEOREM OutboxKeepsRows == Spec => []RowsAreKept
  <1>1. ASSUME IInv PROVE RowsAreKept
    <2> SUFFICES ASSUME NEW c \in Consumer
                 PROVE  /\ IsInjective(due[c] \o deferred[c])
                        /\ Range(due[c] \o deferred[c])
                             = {e \in appended : <<e, c>> \in Delivery \ acked}
        BY DEF RowsAreKept
    <2> DEFINE q == due[c]  w == deferred[c]  s == q \o w
    <2>1. /\ q \in Seq(Event) /\ w \in Seq(Event) /\ Len(q) \in Nat /\ Len(w) \in Nat
          BY <1>1, LenProperties DEF IInv, OwnerEventsTypeOK
    <2>2. /\ Distinct(q) /\ Distinct(w)
          /\ \A e \in Event : ~(Has(q, e) /\ Has(w, e))
          /\ \A e \in Event : Has(q, e) \/ Has(w, e)
                              <=> e \in appended /\ <<e, c>> \in Delivery \ acked
          BY <1>1 DEF IInv, QueuesKeepRows
    <2> HIDE DEF q, w
    <2>3. /\ s \in Seq(Event) /\ Len(s) = Len(q) + Len(w)
          /\ \A i \in 1..(Len(q) + Len(w)) : s[i] = IF i <= Len(q) THEN q[i] ELSE w[i - Len(q)]
          BY <2>1, ConcatProperties
    <2> HIDE DEF s
    <2>4. DOMAIN s = 1..Len(s) /\ \A i \in 1..Len(s) : s[i] \in Event
          BY <2>3, LenProperties, ElementOfSeq
    <2>5. \A i \in 1..Len(s) : \/ i <= Len(q) /\ i \in 1..Len(q) /\ s[i] = q[i]
                               \/ /\ i > Len(q) /\ i - Len(q) \in 1..Len(w)
                                  /\ s[i] = w[i - Len(q)]
          BY <2>1, <2>3
    <2>6. IsInjective(s)
      <3> SUFFICES ASSUME NEW i \in 1..Len(s), NEW j \in 1..Len(s), s[i] = s[j] PROVE i = j
          BY <2>4 DEF IsInjective
      <3>1. s[i] \in Event
            BY <2>4
      <3>2. CASE i <= Len(q) /\ j <= Len(q)
            BY <2>1, <2>2, <2>5, <3>2 DEF Distinct
      <3>3. CASE i > Len(q) /\ j > Len(q)
        <4>1. i - Len(q) = j - Len(q)
          <5>1. /\ i - Len(q) \in 1..Len(w) /\ s[i] = w[i - Len(q)]
                /\ j - Len(q) \in 1..Len(w) /\ s[j] = w[j - Len(q)]
                BY <2>1, <2>5, <3>3
          <5> QED BY <2>2, <5>1 DEF Distinct
        <4> QED BY <2>1, <4>1
      <3>4. CASE ~(i <= Len(q) <=> j <= Len(q))
        <4>1. \A n \in 1..Len(s) : n <= Len(q) => Has(q, s[n])
              BY <2>5, <2>1 DEF Has
        <4>2. \A n \in 1..Len(s) : ~(n <= Len(q)) => Has(w, s[n])
              BY <2>5, <2>1 DEF Has
        <4>3. \/ Has(q, s[i]) /\ Has(w, s[j])
              \/ Has(w, s[i]) /\ Has(q, s[j])
              BY <3>4, <4>1, <4>2
        <4> QED BY <2>2, <3>1, <4>3
      <3> QED BY <2>1, <3>2, <3>3, <3>4
    <2>7. \A e : Has(s, e) <=> Has(q, e) \/ Has(w, e)
      <3>1. ASSUME NEW e, Has(s, e) PROVE Has(q, e) \/ Has(w, e)
            BY <2>5, <3>1 DEF Has
      <3>2. ASSUME NEW e, Has(q, e) PROVE Has(s, e)
            BY <2>1, <2>3, <3>2 DEF Has
      <3>3. ASSUME NEW e, Has(w, e) PROVE Has(s, e)
        <4>1. PICK i \in 1..Len(w) : w[i] = e
              BY <3>3 DEF Has
        <4>2. i + Len(q) \in 1..Len(s) /\ ~(i + Len(q) <= Len(q)) /\ i + Len(q) - Len(q) = i
              BY <2>1, <2>3
        <4> QED BY <2>3, <4>1, <4>2 DEF Has
      <3> QED BY <3>1, <3>2, <3>3
    <2>8. Range(s) = {e \in Event : Has(s, e)}
          BY <2>4 DEF Range, Has
    <2>9. appended \subseteq Event
          BY <1>1 DEF IInv, OwnerEventsTypeOK
    <2>10. Range(s) = {e \in appended : <<e, c>> \in Delivery \ acked}
          BY <2>2, <2>7, <2>8, <2>9
    <2> QED BY <2>6, <2>10 DEF s, q, w
  <1> QED BY <1>1, Invariance, PTL

\* The tables and the delivery loop implement the safety half of EventDelivery:
\* an appended event is owed, a commit applies a delivery that is owed and was
\* not applied, and an acknowledgement settles one that was.
THEOREM ImplementsAtMostOnce == Spec => AtMostOnce
  <1> DEFINE owedNow == {d \in Delivery : d[1] \in appended}
  <1>1. Init => Promise!Init
        BY DEF Init, Promise!Init
  <1>2. ASSUME IInv, [Next]_vars PROVE [Promise!Next]_(Promise!events)
    <2> USE <1>2
    <2>1. ASSUME UNCHANGED <<appended, effects, acked>> PROVE UNCHANGED Promise!events
          BY <2>1 DEF Promise!events
    <2>2. ASSUME NEW e \in Event, AppendEvent(e)
          PROVE  [Promise!Next]_(Promise!events)
      <3> DEFINE D == {d \in Delivery : d[1] = e}
      <3>1. D \in SUBSET Delivery /\ D \cap owedNow = {} /\ owedNow' = owedNow \cup D
            /\ UNCHANGED <<effects, acked>>
            BY <2>2 DEF AppendEvent, consumed
      <3>2. CASE D = {}
            BY <3>1, <3>2 DEF Promise!events
      <3>3. CASE D # {}
        <4>1. Promise!Owe(D)
              BY <3>1, <3>3 DEF Promise!Owe
        <4> QED BY <3>1, <4>1 DEF Promise!Next
      <3> QED BY <3>2, <3>3
    <2>3. ASSUME NEW d \in Delivery, DeliverInbox(d), d \notin Refused, d[1] \in appended,
                 UNCHANGED rows
          PROVE  [Promise!Next]_(Promise!events)
      <3>1. CASE d \in inbox
            BY <2>1, <2>3, <3>1 DEF DeliverInbox, rows
      <3>2. CASE d \notin inbox
        <4>1. effects[d] = 0 /\ effects' = [effects EXCEPT ![d] = 1]
          <5>1. effects[d] = 0
                BY <3>2 DEF IInv, AppliedOnce
          <5>2. effects' = [effects EXCEPT ![d] = @ + 1]
                BY <2>3, <3>2 DEF DeliverInbox
          <5> QED BY <5>1, <5>2
        <4>2. Promise!Apply(d)
              BY <2>3, <4>1 DEF Promise!Apply, rows
        <4> QED BY <4>2 DEF Promise!Next
      <3> QED BY <3>1, <3>2
    <2>4. ASSUME NEW k \in Courier, NEW d \in Delivery, Commit(k, d)
          PROVE  [Promise!Next]_(Promise!events)
          BY <2>3, <2>4, NowFacts DEF Commit
    <2>5. ASSUME NEW d \in Delivery, LateCommit(d)
          PROVE  [Promise!Next]_(Promise!events)
          BY <2>3, <2>5 DEF LateCommit, IInv, CallsAreTrue
    <2>6. ASSUME NEW k \in Courier, NEW d \in Delivery, Acknowledge(k, d)
          PROVE  [Promise!Next]_(Promise!events)
      <3>1. acked' = acked \cup {d} /\ UNCHANGED <<appended, effects>>
            BY <2>6 DEF Acknowledge, AcknowledgeDelivery, consumed
      <3>2. effects[d] = 1
            BY <2>6, NowFacts DEF Acknowledge, IInv, CallsAreTrue, AppliedOnce
      <3>3. CASE d \in acked
            BY <2>1, <3>1, <3>3
      <3>4. CASE d \notin acked
        <4>1. Promise!Settle(d)
              BY <3>1, <3>2, <3>4 DEF Promise!Settle
        <4> QED BY <4>1 DEF Promise!Next
      <3> QED BY <3>3, <3>4
    <2>7. ASSUME NEW k \in Courier, NEW d \in Delivery,
                 Call(k, d) \/ Fail(k, d) \/ TimeOut(k, d) \/ RecordFailure(k, d)
          PROVE  UNCHANGED <<appended, effects, acked>>
          BY <2>7 DEF Call, Fail, TimeOut, RecordFailure, RecordDeliveryFailure, rows, consumed
    <2>8. ASSUME \/ \E c \in Consumer : FallDue(c)
                 \/ \E k \in Courier : Crash(k) \/ \E c \in Consumer : PendingDeliveries(k, c)
                 \/ \E d \in Delivery : LateEnd(d)
                 \/ UNCHANGED vars
          PROVE  UNCHANGED <<appended, effects, acked>>
          BY <2>8 DEF FallDue, Crash, PendingDeliveries, LateEnd, vars, rows, consumed
    <2> QED BY <2>1, <2>2, <2>4, <2>5, <2>6, <2>7, <2>8 DEF Next
  <1> QED BY <1>1, <1>2, Invariance, PTL DEF Spec, AtMostOnce, Promise!Safe
=============================================================================
