------------------------- MODULE GatewayWalletProofs -------------------------
(***************************************************************************)
(* Proofs about GatewayWallet for any set of concurrent requests, business  *)
(* keys, bindings and amounts. The inductive invariant says who may still   *)
(* send a POST (the one request that inserted the row), what a row or an    *)
(* answer entails about the external wallet, and that a closed Workspace    *)
(* has no charge past the fence. Covered adds that the refunds reserved     *)
(* against a charge stay within it; the sums it is about are taken apart by *)
(* the lemmas of the first section, each shown for a smallest set that      *)
(* would refute it.                                                         *)
(***************************************************************************)
EXTENDS GatewayWallet, FiniteSetTheorems, TLAPS

-----------------------------------------------------------------------------
(* Sums over finite sets.                                                   *)

\* Every nonempty collection of subsets of a finite set has a smallest one:
\* what is shown of a set from its smaller ones holds for all.
LEMMA SmallestSubset ==
    ASSUME NEW S, IsFiniteSet(S), NEW T, T \subseteq SUBSET S, T # {}
    PROVE  \E m \in T : \A u \in T : ~(u \subseteq m /\ u # m)
  <1>1. FiniteSubsetsOf(S) = SUBSET S
        BY FS_FiniteSubsetsOfFinite
  <1>2. IsWellFoundedOn(StrictSubsetOrdering(S), SUBSET S)
        BY <1>1, FS_StrictSubsetOrderingWellFounded
  <1>3. PICK m \in T : \A u \in T : ~(<<u, m>> \in StrictSubsetOrdering(S))
        BY <1>2, WFMin
  <1> QED BY <1>3 DEF StrictSubsetOrdering

\* The values of v added up over S, one chosen element at a time, as the
\* operator of the model does it.
Pick(s) == CHOOSE x \in s : TRUE
Rest(s) == s \ {Pick(s)}
Adds(g, v, S) == g = [s \in SUBSET S |-> IF s = {} THEN 0 ELSE v[Pick(s)] + g[Rest(s)]]
Total(v, S) == (CHOOSE g : Adds(g, v, S))[S]

\* The chosen element is one of the set, and the rest is smaller.
LEMMA PickIn == ASSUME NEW s, s # {} PROVE Pick(s) \in s /\ Rest(s) \subseteq s /\ Rest(s) # s
  BY DEF Pick, Rest

\* Two functions that add up the same values agree where both are defined.
LEMMA AddsAgree ==
    ASSUME NEW A, NEW B, IsFiniteSet(A), NEW v, NEW g, NEW h, Adds(g, v, A), Adds(h, v, B)
    PROVE  \A s \in SUBSET A : s \subseteq B => g[s] = h[s]
  <1> DEFINE Bad == {s \in SUBSET A : s \subseteq B /\ g[s] # h[s]}
  <1>1. SUFFICES ASSUME Bad # {} PROVE FALSE
        OBVIOUS
  <1>2. PICK s \in Bad : \A u \in Bad : ~(u \subseteq s /\ u # s)
    <2>1. Bad \subseteq SUBSET A
          OBVIOUS
    <2> HIDE DEF Bad
    <2> QED BY <1>1, <2>1, SmallestSubset
  <1>3. s \in SUBSET A /\ s \in SUBSET B /\ g[s] # h[s]
        BY <1>2
  <1>4. CASE s = {}
        BY <1>3, <1>4 DEF Adds
  <1>5. CASE s # {}
    <2>1. Rest(s) \subseteq s /\ Rest(s) # s
          BY <1>5, PickIn
    <2>2. g[Rest(s)] = h[Rest(s)]
          BY <1>2, <1>3, <2>1
    <2>3. g[s] = v[Pick(s)] + g[Rest(s)] /\ h[s] = v[Pick(s)] + h[Rest(s)]
          BY <1>3, <1>5 DEF Adds
    <2> QED BY <1>3, <2>2, <2>3
  <1> QED BY <1>4, <1>5

\* Natural numbers can be added up over any finite set.
LEMMA AddsExists ==
    ASSUME NEW S, IsFiniteSet(S), NEW v, \A x \in S : v[x] \in Nat
    PROVE  \E g \in [SUBSET S -> Nat] : Adds(g, v, S)
  <1> DEFINE Has(T) == \E g \in [SUBSET T -> Nat] : Adds(g, v, T)
             Bad == {T \in SUBSET S : ~Has(T)}
  <1>1. SUFFICES ASSUME Bad # {} PROVE FALSE
        OBVIOUS
  <1>2. PICK T \in Bad : \A u \in Bad : ~(u \subseteq T /\ u # T)
    <2>1. Bad \subseteq SUBSET S
          OBVIOUS
    <2> HIDE DEF Bad
    <2> QED BY <1>1, <2>1, SmallestSubset
  <1>3. T \in SUBSET S /\ ~Has(T) /\ IsFiniteSet(T) /\ \A u \in SUBSET T : u # T => Has(u)
        BY <1>2, FS_Subset
  <1> DEFINE H(u) == CHOOSE g : g \in [SUBSET u -> Nat] /\ Adds(g, v, u)
  <1>4. \A u \in SUBSET T : u # T => H(u) \in [SUBSET u -> Nat] /\ Adds(H(u), v, u)
        BY <1>3
  <1> HIDE DEF H, Has, Bad
  <1>5. PICK G : G = [s \in SUBSET T |-> IF s = {} THEN 0 ELSE v[Pick(s)] + H(Rest(s))[Rest(s)]]
        OBVIOUS
  <1>d. DOMAIN G = SUBSET T /\ G = [s \in SUBSET T |-> G[s]] /\ G[{}] = 0
        BY <1>5
  <1>e. \A s \in SUBSET T : s # {} => G[s] = v[Pick(s)] + H(Rest(s))[Rest(s)]
        BY <1>5
  <1>r. ASSUME NEW s \in SUBSET T, s # {}
        PROVE  Rest(s) \subseteq s /\ Rest(s) # s /\ Rest(s) \in SUBSET T /\ Rest(s) # T /\ v[Pick(s)] \in Nat
    <2>1. Pick(s) \in s /\ Rest(s) \subseteq s /\ Rest(s) # s
          BY <1>r, PickIn
    <2> QED BY <1>3, <2>1
  <1>6. ASSUME NEW u \in SUBSET T, u # T PROVE G[u] = H(u)[u] /\ G[u] \in Nat
    <2>1. H(u) \in [SUBSET u -> Nat] /\ Adds(H(u), v, u)
          BY <1>4, <1>6
    <2>2. CASE u = {}
          BY <1>d, <2>1, <2>2 DEF Adds
    <2>3. CASE u # {}
      <3>1. PICK w : w = Rest(u)
            OBVIOUS
      <3>2. w \in SUBSET u /\ w # u /\ w \in SUBSET T /\ w # T
            BY <1>r, <2>3, <3>1
      <3>3. H(w) \in [SUBSET w -> Nat] /\ Adds(H(w), v, w) /\ IsFiniteSet(w)
            BY <1>3, <1>4, <3>2, FS_Subset
      <3>4. H(w)[w] = H(u)[w]
            BY <2>1, <3>2, <3>3, AddsAgree
      <3>5. H(u)[u] = v[Pick(u)] + H(u)[w]
            BY <2>1, <2>3, <3>1 DEF Adds
      <3>6. G[u] = v[Pick(u)] + H(w)[w]
            BY <1>e, <2>3, <3>1
      <3>7. H(u)[u] \in Nat
            BY <2>1
      <3> QED BY <3>4, <3>5, <3>6, <3>7
    <2> QED BY <2>2, <2>3
  <1>7. ASSUME NEW s \in SUBSET T, s # {} PROVE G[s] = v[Pick(s)] + G[Rest(s)] /\ G[s] \in Nat
    <2>1. Rest(s) \in SUBSET T /\ Rest(s) # T /\ v[Pick(s)] \in Nat
          BY <1>7, <1>r
    <2>2. G[Rest(s)] = H(Rest(s))[Rest(s)] /\ G[Rest(s)] \in Nat
          BY <1>6, <2>1
    <2>3. G[s] = v[Pick(s)] + H(Rest(s))[Rest(s)]
          BY <1>e, <1>7
    <2> QED BY <2>1, <2>2, <2>3
  <1>8. G \in [SUBSET T -> Nat]
    <2>1. ASSUME NEW s \in SUBSET T PROVE G[s] \in Nat
      <3>1. CASE s = {}
            BY <1>d, <3>1
      <3>2. CASE s # {}
            BY <1>7, <3>2
      <3> QED BY <3>1, <3>2
    <2> QED BY <2>1, <1>d
  <1>9. Adds(G, v, T)
    <2>1. G = [s \in SUBSET T |-> IF s = {} THEN 0 ELSE v[Pick(s)] + G[Rest(s)]]
          BY <1>7, <1>d
    <2> QED BY <2>1 DEF Adds
  <1> QED BY <1>3, <1>8, <1>9 DEF Has

\* A sum is given by any function that adds up.
LEMMA TotalIs ==
    ASSUME NEW S, IsFiniteSet(S), NEW v, NEW g, Adds(g, v, S)
    PROVE  Total(v, S) = g[S]
  <1>1. Adds(CHOOSE f : Adds(f, v, S), v, S)
        OBVIOUS
  <1>2. PICK h : h = CHOOSE f : Adds(f, v, S)
        OBVIOUS
  <1>3. h[S] = g[S]
        BY <1>1, <1>2, AddsAgree
  <1> QED BY <1>2, <1>3 DEF Total

\* The sum of nothing, the type of a sum, and how it is taken apart.
LEMMA TotalUnfolds ==
    ASSUME NEW S, IsFiniteSet(S), NEW v, \A x \in S : v[x] \in Nat
    PROVE  /\ Total(v, S) \in Nat
           /\ S = {} => Total(v, S) = 0
           /\ S # {} => Total(v, S) = v[Pick(S)] + Total(v, Rest(S))
  <1>1. PICK g \in [SUBSET S -> Nat] : Adds(g, v, S)
        BY AddsExists
  <1>2. Total(v, S) = g[S] /\ g[S] \in Nat
        BY <1>1, TotalIs
  <1>3. CASE S = {}
        BY <1>1, <1>2, <1>3 DEF Adds
  <1>4. CASE S # {}
    <2>1. PICK w : w = Rest(S) /\ w \subseteq S
          BY <1>4, PickIn
    <2>2. IsFiniteSet(w) /\ \A x \in w : v[x] \in Nat
          BY <2>1, FS_Subset
    <2>3. PICK h \in [SUBSET w -> Nat] : Adds(h, v, w)
          BY <2>2, AddsExists
    <2>4. Total(v, w) = h[w] /\ h[w] = g[w]
          BY <1>1, <2>1, <2>2, <2>3, TotalIs, AddsAgree
    <2>5. g[S] = v[Pick(S)] + g[w]
          BY <1>1, <1>4, <2>1 DEF Adds
    <2> QED BY <1>2, <1>4, <2>1, <2>4, <2>5
  <1> QED BY <1>2, <1>3, <1>4

\* A sum may be taken apart at any element.
LEMMA TotalAt ==
    ASSUME NEW S, IsFiniteSet(S), NEW v, \A x \in S : v[x] \in Nat, NEW x \in S
    PROVE  Total(v, S) = v[x] + Total(v, S \ {x})
  <1> DEFINE Splits(T) == \A y \in T : Total(v, T) = v[y] + Total(v, T \ {y})
             Bad == {T \in SUBSET S : ~Splits(T)}
  <1>1. SUFFICES ASSUME Bad # {} PROVE FALSE
        OBVIOUS
  <1>2. PICK T \in Bad : \A u \in Bad : ~(u \subseteq T /\ u # T)
    <2>1. Bad \subseteq SUBSET S
          OBVIOUS
    <2> HIDE DEF Bad
    <2> QED BY <1>1, <2>1, SmallestSubset
  <1>3. T \in SUBSET S /\ ~Splits(T) /\ \A u \in SUBSET T : u # T => Splits(u)
        BY <1>2
  <1>4. \A u \in SUBSET S : IsFiniteSet(u) /\ (\A z \in u : v[z] \in Nat)
        BY FS_Subset
  <1> HIDE DEF Bad
  <1>5. PICK y \in T : Total(v, T) # v[y] + Total(v, T \ {y})
        BY <1>3
  <1>6. PICK p : p = Pick(T) /\ p \in T /\ Total(v, T) = v[p] + Total(v, T \ {p})
    <2>1. T # {} /\ IsFiniteSet(T) /\ \A z \in T : v[z] \in Nat
          BY <1>3, <1>4, <1>5
    <2>2. Total(v, T) = v[Pick(T)] + Total(v, Rest(T))
          BY <2>1, TotalUnfolds
    <2>3. Pick(T) \in T
          BY <2>1, PickIn
    <2> QED BY <2>2, <2>3 DEF Rest
  <1>7. p # y
        BY <1>5, <1>6
  <1>8. Total(v, T \ {p}) = v[y] + Total(v, (T \ {p}) \ {y})
    <2>1. T \ {p} \in SUBSET T /\ T \ {p} # T /\ y \in T \ {p}
          BY <1>6, <1>7
    <2> QED BY <1>3, <2>1
  <1>9. Total(v, T \ {y}) = v[p] + Total(v, (T \ {y}) \ {p})
    <2>1. T \ {y} \in SUBSET T /\ T \ {y} # T /\ p \in T \ {y}
          BY <1>6, <1>7
    <2> QED BY <1>3, <2>1
  <1>10. (T \ {p}) \ {y} = (T \ {y}) \ {p} /\ (T \ {p}) \ {y} \in SUBSET S
         BY <1>3
  <1>11. PICK w \in SUBSET S : w = (T \ {p}) \ {y}
         BY <1>10
  <1>12. Total(v, w) \in Nat
         BY <1>4, TotalUnfolds
  <1>13. v[p] \in Nat /\ v[y] \in Nat
         BY <1>3, <1>5, <1>6
  <1>14. Total(v, T \ {p}) = v[y] + Total(v, w) /\ Total(v, T \ {y}) = v[p] + Total(v, w)
         BY <1>8, <1>9, <1>10, <1>11
  <1> QED BY <1>5, <1>6, <1>12, <1>13, <1>14

\* A part adds up to no more than the whole.
LEMMA TotalOfPart ==
    ASSUME NEW S, IsFiniteSet(S), NEW v, \A x \in S : v[x] \in Nat, NEW U \in SUBSET S
    PROVE  Total(v, U) <= Total(v, S)
  <1> DEFINE Bad == {T \in SUBSET S : U \subseteq T /\ ~(Total(v, U) <= Total(v, T))}
  <1>1. SUFFICES ASSUME Bad # {} PROVE FALSE
        OBVIOUS
  <1>2. PICK T \in Bad : \A u \in Bad : ~(u \subseteq T /\ u # T)
    <2>1. Bad \subseteq SUBSET S
          OBVIOUS
    <2> HIDE DEF Bad
    <2> QED BY <1>1, <2>1, SmallestSubset
  <1>3. T \in SUBSET S /\ U \subseteq T /\ ~(Total(v, U) <= Total(v, T))
        BY <1>2
  <1>4. \A u \in SUBSET S : IsFiniteSet(u) /\ (\A z \in u : v[z] \in Nat) /\ Total(v, u) \in Nat
        BY FS_Subset, TotalUnfolds
  <1>5. PICK x \in T : x \notin U
        BY <1>3, <1>4
  <1>6. Total(v, T) = v[x] + Total(v, T \ {x})
        BY <1>3, <1>4, TotalAt
  <1>7. T \ {x} \in SUBSET S /\ U \subseteq T \ {x} /\ T \ {x} \subseteq T /\ T \ {x} # T
        BY <1>3, <1>5
  <1>8. Total(v, U) <= Total(v, T \ {x})
        BY <1>2, <1>7
  <1> QED BY <1>3, <1>4, <1>6, <1>7, <1>8

\* Only the values at the elements count.
LEMMA TotalOfEqual ==
    ASSUME NEW S, IsFiniteSet(S), NEW v, NEW w, \A x \in S : v[x] \in Nat /\ w[x] = v[x]
    PROVE  Total(w, S) = Total(v, S)
  <1>1. PICK g \in [SUBSET S -> Nat] : Adds(g, v, S)
        BY AddsExists
  <1>2. \A s \in SUBSET S : s # {} => w[Pick(s)] = v[Pick(s)]
        BY PickIn
  <1>3. Adds(g, w, S)
        BY <1>1, <1>2 DEF Adds
  <1> QED BY <1>1, <1>3, TotalIs

\* The sum of the model is this sum.
LEMMA MapTotal ==
    ASSUME NEW S, IsFiniteSet(S), NEW f, \A x \in S : f[x].amount \in Nat
    PROVE  MapThenSumSet(LAMBDA r : f[r].amount, S) = Total([r \in S |-> f[r].amount], S)
  <1> DEFINE Q(g) == g = [s \in SUBSET S |->
                            IF s = {} THEN 0
                            ELSE f[CHOOSE x \in s : TRUE].amount + g[s \ {CHOOSE x \in s : TRUE}]]
  <1>1. MapThenSumSet(LAMBDA r : f[r].amount, S) = (CHOOSE g : Q(g))[S]
        BY DEF MapThenSumSet, MapThenFoldSet
  <1>2. PICK v : v = [r \in S |-> f[r].amount]
        OBVIOUS
  <1>3. PICK g \in [SUBSET S -> Nat] : Adds(g, v, S)
        BY <1>2, AddsExists
  <1>4. \A s \in SUBSET S : s # {} => v[Pick(s)] = f[Pick(s)].amount
        BY <1>2, PickIn
  <1>5. \A h : Q(h) <=> Adds(h, v, S)
        BY <1>4 DEF Adds, Pick, Rest
  <1> HIDE DEF Q
  <1>6. Adds(CHOOSE h : Q(h), v, S)
    <2>1. \E h : Q(h)
          BY <1>3, <1>5
    <2>2. Q(CHOOSE h : Q(h))
          BY <2>1, Zenon
    <2> QED BY <1>5, <2>2, Zenon
  <1> QED BY <1>1, <1>2, <1>6, TotalIs

-----------------------------------------------------------------------------
(* The inductive invariant.                                                 *)

PastFence == {"bind", "reserve", "dispatch", "await", "confirm", "settle", "readback", "reconcile"}
Settling == {"dispatch", "await", "confirm", "settle", "readback", "reconcile"}

\* What a request carries at each of its steps.
CallShape(h) ==
    /\ req[h].call = "none" <=> pc[h] = "idle"
    /\ req[h].call = "charge" =>
         /\ req[h].key \in ChargeKey /\ req[h].amount \in Amount /\ req[h].original = None
         /\ pc[h] \in {"lock", "fence"} \cup PastFence
    /\ req[h].call = "refund" =>
         /\ req[h].key \in RefundKey /\ req[h].amount \in Amount
         /\ req[h].original \in ChargeKey
         /\ pc[h] \in PastFence
    /\ req[h].call = "read" =>
         req[h].key \in Key /\ pc[h] \in {"lookup", "reconcile", "settle", "readback"}
    /\ req[h].call = "closedRead" =>
         /\ req[h].key \in ChargeKey
         /\ pc[h] \in {"readfence", "lookup", "others", "reconcile", "settle", "readback"}
    /\ req[h].call = "close" => pc[h] \in {"lock", "fence", "finish"}
    /\ pc[h] \in Settling \cup {"reserve"} => bnd[h] \in Binding

Shape == \A h \in Handler : CallShape(h)

\* A charge past the lock and a closeout past the lock hold the guard.
Guarded ==
    \A h \in Handler :
        req[h].call \in {"charge", "close"} /\ pc[h] # "lock" => guard = h

\* No charge is past the fence of a closed Workspace.
Fenced ==
    /\ closing => \A h \in Handler : ~(req[h].call = "charge" /\ pc[h] \in PastFence)
    /\ \A h \in Handler : req[h].call = "closedRead" /\ pc[h] # "readfence" => closing

\* The request that inserted a row and has not returned since.
Sender(h) ==
    \/ pc[h] \in {"dispatch", "await", "confirm"}
    \/ pc[h] = "settle" /\ verdict[h] # "confirmed"

OneSender ==
    \A h1, h2 \in Handler :
        Sender(h1) /\ Sender(h2) /\ req[h1].key = req[h2].key => h1 = h2

Counters ==
    \A k \in Key :
        /\ native[k].sent <= 1
        /\ native[k].applied + native[k].refused <= native[k].sent
        /\ native[k].audited <= native[k].applied

\* The money moved, by the amount of the row; no request can move it (again).
Done(k) == row[k] # None /\ native[k].applied = 1 /\ native[k].amount = row[k].amount
Dead(k) ==
    /\ row[k] # None
    /\ native[k].applied = 0
    /\ ~Pending(k)
    /\ \A h \in Handler : Sender(h) => req[h].key # k

\* What the wallet and the requests at work imply for a row.
RowFacts ==
    \A k \in Key :
        /\ row[k] = None =>
             /\ native[k].sent = 0
             /\ \A h \in Handler : pc[h] \in Settling => req[h].key # k
        /\ native[k].sent > 0 =>
             native[k].amount = row[k].amount /\ native[k].wallet = row[k].binding
        /\ row[k] # None /\ row[k].status = "confirmed" => Done(k)
        /\ row[k] # None /\ row[k].status = "rejected" => Dead(k)

\* What a request knows about the row and the wallet while it settles.
RequestFacts ==
    \A h \in Handler :
        LET k == req[h].key IN
        /\ pc[h] = "dispatch" =>
             /\ native[k].sent = 0
             /\ row[k].amount = req[h].amount /\ row[k].binding = bnd[h]
        /\ pc[h] \in {"await", "confirm"} => native[k].sent = 1
        /\ pc[h] = "settle" /\ verdict[h] = "confirmed" => Done(k)
        /\ pc[h] = "settle" /\ verdict[h] = "rejected" =>
             native[k].applied = 0 /\ ~Pending(k)

\* What the callers were told.
ToldFacts ==
    \A k \in Key :
        /\ told[k] = "confirmed" => Done(k)
        /\ told[k] = "rejected" => Dead(k)
        /\ told[k] = "absent" => closing /\ \A c \in ChargeKey : row[c] = None

\* A refund row names a charge that moved, and the binding that paid it.
RefundFacts ==
    \A r \in RefundKey :
        row[r] # None =>
            /\ row[r].original \in ChargeKey
            /\ Done(row[r].original)
            /\ row[r].binding = row[row[r].original].binding

WalletInv ==
    /\ TypeOK /\ Shape /\ Guarded /\ Fenced /\ OneSender /\ Counters
    /\ RowFacts /\ RequestFacts /\ ToldFacts /\ RefundFacts

-----------------------------------------------------------------------------
(* Type correctness and the shape of the requests.                          *)

\* The part of TypeOK that a request's own steps write.
LocalTypes ==
    /\ guard \in Handler \cup {None}
    /\ pc \in [Handler -> Step]
    /\ req \in [Handler -> Requests]
    /\ bnd \in [Handler -> Binding \cup {None}]
    /\ verdict \in [Handler -> {"unknown"} \cup Terminal]

\* The ways a request moves on keep the types of what it holds.
LEMMA MoveTypes ==
    ASSUME LocalTypes, NEW h \in Handler
    PROVE  /\ Return(h) => LocalTypes'
           /\ \A s \in Step : Proceed(h, s) => LocalTypes'
           /\ \A s \in Step, b \in Binding : ProceedWith(h, s, b) => LocalTypes'
           /\ \A v \in {"unknown"} \cup Terminal : SettleAs(h, v) => LocalTypes'
  <1>1. NoRequest \in Requests
        BY DEF NoRequest, Requests, Call
  <1>2. Return(h) => LocalTypes'
        BY <1>1 DEF LocalTypes, Return, Goto, Step
  <1>3. ASSUME NEW s \in Step, Proceed(h, s) PROVE LocalTypes'
        BY <1>3 DEF LocalTypes, Proceed, Goto, local
  <1>4. ASSUME NEW s \in Step, NEW b \in Binding, ProceedWith(h, s, b) PROVE LocalTypes'
        BY <1>4 DEF LocalTypes, ProceedWith, Goto
  <1>5. ASSUME NEW v \in {"unknown"} \cup Terminal, SettleAs(h, v) PROVE LocalTypes'
        BY <1>5 DEF LocalTypes, SettleAs, Goto, Step
  <1> QED BY <1>2, <1>3, <1>4, <1>5

\* A step leaves the tables and the wallet alone, or writes values of their types.
LEMMA TableTypes ==
    ASSUME TypeOK, NEW k \in Key
    PROVE  /\ \A s \in Status : row[k] # None
                 => [row EXCEPT ![k].status = s] \in [Key -> WalletRecord \cup {None}]
           /\ row[k] # None => row[k].binding \in Binding /\ row[k].status \in Status
           /\ \A s : Tell(k, s) => told' \in [Key -> Answer]
  <1>1. ASSUME row[k] # None PROVE row[k] \in WalletRecord
        BY <1>1 DEF TypeOK
  <1>2. ASSUME NEW w \in WalletRecord, NEW s \in Status
        PROVE [w EXCEPT !.status = s] \in WalletRecord /\ w.binding \in Binding /\ w.status \in Status
        BY DEF WalletRecord
  <1>3. ASSUME NEW s \in Status, row[k] # None
        PROVE [row EXCEPT ![k].status = s] \in [Key -> WalletRecord \cup {None}]
        BY <1>1, <1>2, <1>3 DEF TypeOK
  <1>4. ASSUME NEW s, Tell(k, s) PROVE told' \in [Key -> Answer]
        BY <1>4 DEF TypeOK, Tell, Answer, Terminal
  <1> QED BY <1>1, <1>2, <1>3, <1>4 DEF Status

\* Settling a row changes its status and nothing else.
LEMMA SettleFacts ==
    ASSUME TypeOK, NEW k \in Key, NEW s \in Status, row[k] # None,
           row' = [row EXCEPT ![k].status = s]
    PROVE  /\ row'[k].status = s /\ row'[k].amount = row[k].amount
           /\ row'[k].binding = row[k].binding /\ row'[k].original = row[k].original
           /\ row'[k] # None
           /\ \A j \in Key : j # k => row'[j] = row[j]
  <1>1. row[k] \in WalletRecord
        BY DEF TypeOK
  <1>2. row'[k] = [row[k] EXCEPT !.status = s] /\ \A j \in Key : j # k => row'[j] = row[j]
        BY DEF TypeOK
  <1>3. [row[k] EXCEPT !.status = s] \in WalletRecord
        BY <1>1 DEF WalletRecord
  <1> QED BY <1>1, <1>2, <1>3, WalletRowPresent DEF WalletRecord

\* The binding a new row is inserted under exists.
LEMMA ReserveBinding ==
    ASSUME TypeOK, Shape, NEW h \in Handler, ReserveNew(h),
           ~(req[h].call = "refund" /\ ~RefundAllowed(req[h].original, req[h].amount))
    PROVE  (IF req[h].call = "refund" THEN PayerBinding(req[h].original) ELSE bnd[h]) \in Binding
  <1>1. pc[h] = "reserve" => bnd[h] \in Binding
        BY DEF Shape, CallShape
  <1>2. CASE req[h].call = "refund"
    <2>1. req[h].original \in ChargeKey /\ row[req[h].original] # None
          BY <1>2 DEF Shape, CallShape, RefundAllowed
    <2> QED BY <1>2, <2>1, TableTypes DEF PayerBinding, Key
  <1> QED BY <1>1, <1>2 DEF ReserveNew, At

\* Every step of a request, of its caller and of the wallet keeps the types.
LEMMA TypeStep == WalletInv /\ [Next]_vars => TypeOK'
<1> SUFFICES ASSUME TypeOK, Shape, RowFacts, [Next]_vars PROVE TypeOK'
    BY DEF WalletInv
<1>t. LocalTypes
      BY DEF TypeOK, LocalTypes
<1>l. ASSUME LocalTypes', UNCHANGED <<row, binding, closing, native, told, faults>>
      PROVE  TypeOK'
      BY <1>l DEF TypeOK, LocalTypes
<1>1. ASSUME NEW b \in Binding, NEW v \in 0 .. Cardinality(Binding), BindWallet(b, v)
      PROVE  TypeOK'
      BY <1>1 DEF TypeOK, BindWallet, local
<1>2. ASSUME NEW h \in Handler, Request(h) PROVE TypeOK'
  <2>1. ASSUME NEW s \in Step, NEW r \in Requests, Start(h, s, r) PROVE TypeOK'
        BY <2>1 DEF TypeOK, Start, Goto
  <2>2. ASSUME NEW k \in ChargeKey, NEW a \in Amount, Debit(h, k, a) PROVE TypeOK'
        BY <2>1, <2>2 DEF Debit, Requests, Call, Key, Step
  <2>3. ASSUME NEW k \in RefundKey, NEW o \in ChargeKey, NEW a \in Amount, Refund(h, k, o, a)
        PROVE  TypeOK'
        BY <2>1, <2>3 DEF Refund, Requests, Call, Key, Step
  <2>4. ASSUME NEW k \in Key, NEW c \in BOOLEAN, ReadWalletAction(h, k, c) PROVE TypeOK'
        BY <2>1, <2>4 DEF ReadWalletAction, Requests, Call, Key, Step
  <2>5. ASSUME CloseWorkspace(h) PROVE TypeOK'
        BY <2>1, <2>5 DEF CloseWorkspace, Requests, Call, Step
  <2> QED BY <1>2, <2>2, <2>3, <2>4, <2>5 DEF Request
<1>3. ASSUME NEW h \in Handler, HandlerStep(h) PROVE TypeOK'
  <2>k. /\ pc[h] \in {"reserve", "dispatch", "await", "settle", "readback", "lookup", "others"}
              => req[h].key \in Key
        /\ pc[h] \in {"reserve", "dispatch"} => req[h].amount \in Amount /\ bnd[h] \in Binding
        /\ pc[h] = "reserve" => req[h].original \in ChargeKey \cup {None}
        BY DEF TypeOK, Shape, CallShape, PastFence, Settling, Requests, Call, Key
  <2>m. /\ Return(h) => LocalTypes'
        /\ \A s \in Step : Proceed(h, s) => LocalTypes'
        /\ \A s \in Step, b \in Binding : ProceedWith(h, s, b) => LocalTypes'
        /\ \A v \in {"unknown"} \cup Terminal : SettleAs(h, v) => LocalTypes'
        BY <1>t, MoveTypes
  <2>1. CASE GuardWorkspaceKey(h)
        BY <2>1, <2>m, <1>l DEF GuardWorkspaceKey, TypeOK, LocalTypes, Goto, Step, local
  <2>2. CASE CheckClosing(h)
        BY <2>2, <2>m, <1>l DEF CheckClosing, Step, Terminal
  <2>3. CASE ReadBinding(h)
        BY <2>3, <2>m, <1>l DEF ReadBinding, UsableBindings, Step
  <2>4. CASE ReserveNew(h)
    <3> DEFINE b == IF req[h].call = "refund" THEN PayerBinding(req[h].original) ELSE bnd[h]
               w == [status |-> "requested", amount |-> req[h].amount,
                     original |-> req[h].original, binding |-> b]
    <3>1. CASE req[h].call = "refund" /\ ~RefundAllowed(req[h].original, req[h].amount)
          BY <2>4, <3>1, <2>m, <1>l DEF ReserveNew
    <3>2. CASE ~(req[h].call = "refund" /\ ~RefundAllowed(req[h].original, req[h].amount))
      <4>2. b \in Binding
            BY <2>4, <3>2, ReserveBinding
      <4>3. w \in WalletRecord
            BY <2>4, <2>k, <4>2 DEF ReserveNew, At, WalletRecord, Status
      <4> HIDE DEF b
      <4>4. row' \in [Key -> WalletRecord \cup {None}]
            BY <2>4, <3>2, <4>3 DEF ReserveNew, TypeOK, b
      <4>5. LocalTypes'
            BY <2>4, <3>2, <4>2, <2>m DEF ReserveNew, b, Step
      <4> QED BY <2>4, <4>4, <4>5 DEF ReserveNew, TypeOK, LocalTypes
    <3> QED BY <3>1, <3>2
  <2>5. CASE ReserveExisting(h)
    <3>1. req[h].key \in Key /\ row[req[h].key] # None
          BY <2>5, <2>k DEF ReserveExisting, At
    <3>2. row[req[h].key].binding \in Binding
          BY <3>1, TableTypes
    <3>3. LocalTypes'
          BY <2>5, <3>2, <2>m DEF ReserveExisting, Step
    <3>4. told' \in [Key -> Answer]
          BY <2>5, <3>1, TableTypes DEF ReserveExisting, TypeOK
    <3> QED BY <2>5, <3>3, <3>4 DEF ReserveExisting, TypeOK, LocalTypes
  <2>6. CASE AdjustRefusedLocally(h)
        BY <2>6, <2>m, <1>l DEF AdjustRefusedLocally, Step, Terminal
  <2>7. CASE AdjustBalance(h)
    <3>1. req[h].key \in Key /\ req[h].amount \in Amount /\ bnd[h] \in Binding
          BY <2>7, <2>k DEF AdjustBalance, At
    <3>2. ASSUME NEW n \in NativeRecord, NEW b \in Binding, NEW a \in Amount
          PROVE  [sent |-> n.sent + 1, applied |-> n.applied, refused |-> n.refused,
                  audited |-> n.audited, wallet |-> b, amount |-> a] \in NativeRecord
          BY DEF NativeRecord
    <3>3. native' \in [Key -> NativeRecord]
          BY <2>7, <3>1, <3>2 DEF AdjustBalance, TypeOK
    <3>4. LocalTypes'
          BY <2>7, <2>m DEF AdjustBalance, Step
    <3> QED BY <2>7, <3>3, <3>4 DEF AdjustBalance, TypeOK, LocalTypes
  <2>8. CASE AdjustAnswered(h)
        BY <2>8, <2>m, <1>l DEF AdjustAnswered, Step, Terminal
  <2>9. CASE ConfirmWalletOperation(h)
        BY <2>9, <2>m, <1>l DEF ConfirmWalletOperation, Step, Terminal
  <2>10. CASE ReconcileWalletOperation(h)
        BY <2>10, <2>m, <1>l DEF ReconcileWalletOperation, Step, Terminal
  <2>11. CASE SettleWalletOperation(h)
    <3>1. req[h].key \in Key /\ row[req[h].key] # None
          BY <2>11, <2>k DEF SettleWalletOperation, At, RowFacts, Settling
    <3>2. verdict[h] \in Status
          BY DEF TypeOK, Status
    <3>3. row' \in [Key -> WalletRecord \cup {None}]
          BY <2>11, <3>1, <3>2, TableTypes DEF SettleWalletOperation
    <3>4. LocalTypes'
          BY <2>11, <2>m DEF SettleWalletOperation, Step
    <3> QED BY <2>11, <3>3, <3>4 DEF SettleWalletOperation, TypeOK, LocalTypes
  <2>17. CASE GatewayStoreRead(h)
    <3>1. told' \in [Key -> Answer]
          BY <2>17, <2>k, TableTypes DEF GatewayStoreRead, At
    <3> QED BY <2>17, <3>1, <2>m DEF GatewayStoreRead, TypeOK, LocalTypes
  <2>12. CASE ReadFence(h)
        BY <2>12, <2>m, <1>l DEF ReadFence, Step, Terminal
  <2>13. CASE LookupWalletOperation(h)
    <3>1. req[h].key \in Key
          BY <2>13, <2>k DEF LookupWalletOperation, At
    <3>2. row[req[h].key] # None => row[req[h].key].binding \in Binding
          BY <3>1, TableTypes
    <3>3. LocalTypes'
          BY <2>13, <3>2, <2>m DEF LookupWalletOperation, Step
    <3>4. told' \in [Key -> Answer]
          BY <2>13, <3>1, TableTypes DEF LookupWalletOperation, TypeOK
    <3> QED BY <2>13, <3>3, <3>4 DEF LookupWalletOperation, TypeOK, LocalTypes
  <2>14. CASE ConfirmAbsence(h)
        BY <2>14, <2>m, <2>k DEF ConfirmAbsence, TypeOK, LocalTypes, Answer
  <2>15. CASE FenceWorkspaceKey(h)
        BY <2>15, <2>m DEF FenceWorkspaceKey, TypeOK, LocalTypes, Step
  <2>16. CASE FinishClose(h)
        BY <2>16, <2>m, <1>l DEF FinishClose, Step, Terminal
  <2> QED BY <1>3, <2>1, <2>2, <2>3, <2>4, <2>5, <2>6, <2>7, <2>8, <2>9, <2>10, <2>11, <2>12, <2>13, <2>14, <2>15, <2>16, <2>17
         DEF HandlerStep
<1>4. ASSUME NEW h \in Handler, Abandon(h) PROVE TypeOK'
  <2>1. faults' \in 0 .. MaxFault
        BY <1>4, WalletFaults DEF Abandon, TypeOK
  <2> QED BY <1>4, <1>t, <2>1, MoveTypes DEF Abandon, TypeOK, LocalTypes
<1>5. ASSUME NEW k \in Key, Upstream(k) PROVE TypeOK'
  <2>1. ASSUME NEW n \in NativeRecord
        PROVE /\ [n EXCEPT !.applied = @ + 1] \in NativeRecord
              /\ [n EXCEPT !.refused = @ + 1] \in NativeRecord
              /\ [n EXCEPT !.audited = @ + 1] \in NativeRecord
        BY DEF NativeRecord
  <2>2. native[k] \in NativeRecord
        BY DEF TypeOK
  <2>3. native' \in [Key -> NativeRecord]
        BY <1>5, <2>1, <2>2 DEF Upstream, UpstreamApply, UpstreamRefuse, UpstreamAudit, TypeOK
  <2> QED BY <1>5, <2>3 DEF Upstream, UpstreamApply, UpstreamRefuse, UpstreamAudit, TypeOK, local
<1>6. CASE UNCHANGED vars
      BY <1>6 DEF vars, TypeOK
<1> QED BY <1>1, <1>2, <1>3, <1>4, <1>5, <1>6 DEF Next

-----------------------------------------------------------------------------
(* How a request moves.                                                     *)

\* Request h goes to step p holding r, b and v; no other request moves.
Moves(h, p, r, b, v) ==
    /\ pc'[h] = p /\ req'[h] = r /\ bnd'[h] = b /\ verdict'[h] = v
    /\ \A g \in Handler \ {h} :
          pc'[g] = pc[g] /\ req'[g] = req[g] /\ bnd'[g] = bnd[g] /\ verdict'[g] = verdict[g]

\* Each way of going on moves one request, and only a return frees the guard.
LEMMA MoveFacts ==
    ASSUME TypeOK, NEW h \in Handler
    PROVE  /\ Return(h) => /\ Moves(h, "idle", NoRequest, None, "unknown")
                           /\ guard' = IF guard = h THEN None ELSE guard
           /\ \A s : Proceed(h, s) => /\ Moves(h, s, req[h], bnd[h], verdict[h])
                                      /\ guard' = guard
           /\ \A s, b : ProceedWith(h, s, b) => /\ Moves(h, s, req[h], b, verdict[h])
                                                /\ guard' = guard
           /\ \A v : SettleAs(h, v) => /\ Moves(h, "settle", req[h], bnd[h], v)
                                       /\ guard' = guard
           /\ \A s, r : Start(h, s, r) => /\ Moves(h, s, r, bnd[h], verdict[h])
                                          /\ guard' = guard
  BY DEF TypeOK, Return, Proceed, ProceedWith, SettleAs, Start, Goto, Moves, local

-----------------------------------------------------------------------------
(* The control part of the invariant: what a request carries, who holds the *)
(* guard, who is past the fence.                                            *)

\* Every step keeps the shape of a request, the guard and the fence.
LEMMA ControlStep == WalletInv /\ [Next]_vars => (Shape /\ Guarded /\ Fenced)'
<1> SUFFICES ASSUME TypeOK, TypeOK', Shape, Guarded, Fenced, [Next]_vars
             PROVE  (Shape /\ Guarded /\ Fenced)'
    BY TypeStep DEF WalletInv
<1> DEFINE Goal == (Shape /\ Guarded /\ Fenced)'
<1>1. ASSUME NEW b \in Binding, NEW v \in 0 .. Cardinality(Binding), BindWallet(b, v)
      PROVE  Goal
      BY <1>1 DEF BindWallet, local, Shape, CallShape, Guarded, Fenced
<1>2. ASSUME NEW h \in Handler, Request(h) PROVE Goal
  <2>s. ASSUME NEW s, NEW r, Start(h, s, r)
        PROVE  /\ pc[h] = "idle" /\ Moves(h, s, r, bnd[h], verdict[h])
               /\ guard' = guard /\ closing' = closing
        BY <2>s, MoveFacts DEF Start, At
  <2> USE DEF Moves, Shape, CallShape, Guarded, Fenced, PastFence, Settling
  <2>1. ASSUME NEW k \in ChargeKey, NEW a \in Amount, Debit(h, k, a) PROVE Goal
        BY <2>1, <2>s DEF Debit
  <2>2. ASSUME NEW k \in RefundKey, NEW o \in ChargeKey, NEW a \in Amount, Refund(h, k, o, a)
        PROVE  Goal
        BY <2>2, <2>s DEF Refund
  <2>3. ASSUME NEW k \in Key, NEW c \in BOOLEAN, ReadWalletAction(h, k, c) PROVE Goal
        BY <2>3, <2>s DEF ReadWalletAction
  <2>4. CASE CloseWorkspace(h)
        BY <2>4, <2>s DEF CloseWorkspace
  <2> QED BY <1>2, <2>1, <2>2, <2>3, <2>4 DEF Request
<1>3. ASSUME NEW h \in Handler, HandlerStep(h) PROVE Goal
  <2>m. /\ Return(h) => /\ Moves(h, "idle", NoRequest, None, "unknown")
                        /\ guard' = IF guard = h THEN None ELSE guard
        /\ \A s : Proceed(h, s) => /\ Moves(h, s, req[h], bnd[h], verdict[h])
                                   /\ guard' = guard
        /\ \A s, b : ProceedWith(h, s, b) => /\ Moves(h, s, req[h], b, verdict[h])
                                             /\ guard' = guard
        /\ \A v : SettleAs(h, v) => /\ Moves(h, "settle", req[h], bnd[h], v)
                                    /\ guard' = guard
        BY MoveFacts
  <2>r. Return(h) /\ UNCHANGED closing => Goal
        BY <2>m DEF Moves, NoRequest, Shape, CallShape, Guarded, Fenced, PastFence, Settling
  <2> USE DEF Shape, CallShape, Guarded, Fenced, PastFence, Settling, Moves, At
  <2>w. ASSUME NEW s \in {"reserve", "dispatch", "reconcile"}, NEW b \in Binding,
               ProceedWith(h, s, b), UNCHANGED closing,
               \/ pc[h] \in {"bind", "reserve"}
               \/ pc[h] = "lookup" /\ s = "reconcile"
        PROVE  Goal
        BY <2>w, <2>m
  <2>1. CASE GuardWorkspaceKey(h)
    <3>1. CASE guard = None
      <4>1. /\ pc'[h] = "fence" /\ guard' = h
            /\ \A g \in Handler \ {h} : pc'[g] = pc[g]
            /\ req' = req /\ bnd' = bnd /\ closing' = closing
            BY <2>1, <3>1, <2>m, WalletNone DEF GuardWorkspaceKey, TypeOK, Goto, local
      <4>2. \A g \in Handler : ~(req[g].call \in {"charge", "close"} /\ pc[g] # "lock")
            BY <3>1, WalletNone
      <4> QED BY <2>1, <4>1, <4>2 DEF GuardWorkspaceKey
    <3> QED BY <2>1, <3>1, <2>r DEF GuardWorkspaceKey
  <2>2. CASE CheckClosing(h)
        BY <2>2, <2>m, <2>r DEF CheckClosing
  <2>3. CASE ReadBinding(h)
        BY <2>3, <2>w, <2>r DEF ReadBinding, UsableBindings
  <2>4. CASE ReserveNew(h)
        BY <2>4, <2>w, <2>r, ReserveBinding DEF ReserveNew
  <2>5. CASE ReserveExisting(h)
    <3>1. row[req[h].key].binding \in Binding
          BY <2>5, TableTypes DEF ReserveExisting, Key, TypeOK, Requests, Call
    <3> QED BY <2>5, <3>1, <2>w, <2>r DEF ReserveExisting
  <2>6. CASE AdjustRefusedLocally(h)
        BY <2>6, <2>m, <2>r DEF AdjustRefusedLocally
  <2>7. CASE AdjustBalance(h)
        BY <2>7, <2>m, <2>r DEF AdjustBalance
  <2>8. CASE AdjustAnswered(h)
        BY <2>8, <2>m, <2>r DEF AdjustAnswered
  <2>9. CASE ConfirmWalletOperation(h)
        BY <2>9, <2>m, <2>r DEF ConfirmWalletOperation
  <2>10. CASE ReconcileWalletOperation(h)
        BY <2>10, <2>m, <2>r DEF ReconcileWalletOperation
  <2>11. CASE SettleWalletOperation(h)
        BY <2>11, <2>m, <2>r DEF SettleWalletOperation
  <2>17. CASE GatewayStoreRead(h)
        BY <2>17, <2>r DEF GatewayStoreRead
  <2>12. CASE ReadFence(h)
        BY <2>12, <2>m, <2>r DEF ReadFence
  <2>13. CASE LookupWalletOperation(h)
    <3>1. row[req[h].key] # None => row[req[h].key].binding \in Binding
          BY <2>13, TableTypes DEF LookupWalletOperation, Key, TypeOK, Requests, Call
    <3> QED BY <2>13, <3>1, <2>m, <2>w, <2>r DEF LookupWalletOperation
  <2>14. CASE ConfirmAbsence(h)
        BY <2>14, <2>m, <2>r DEF ConfirmAbsence
  <2>15. CASE FenceWorkspaceKey(h)
        BY <2>15, <2>m, <2>r DEF FenceWorkspaceKey
  <2>16. CASE FinishClose(h)
        BY <2>16, <2>m, <2>r DEF FinishClose
  <2> QED BY <1>3, <2>1, <2>2, <2>3, <2>4, <2>5, <2>6, <2>7, <2>8, <2>9, <2>10, <2>11, <2>12, <2>13, <2>14, <2>15, <2>16, <2>17
         DEF HandlerStep
<1>4. ASSUME NEW h \in Handler, Abandon(h) PROVE Goal
      BY <1>4, MoveFacts DEF Abandon, Moves, NoRequest, Shape, CallShape, Guarded, Fenced, PastFence, Settling
<1>5. ASSUME NEW k \in Key, Upstream(k) PROVE Goal
      BY <1>5 DEF Upstream, UpstreamApply, UpstreamRefuse, UpstreamAudit, local,
         Shape, CallShape, Guarded, Fenced
<1>6. CASE UNCHANGED vars
      BY <1>6 DEF vars, Shape, CallShape, Guarded, Fenced
<1> QED BY <1>1, <1>2, <1>3, <1>4, <1>5, <1>6 DEF Next

-----------------------------------------------------------------------------
(* The money part: who may still send, what the wallet holds, what a row    *)
(* and a request at work imply.                                             *)

Money == OneSender /\ Counters /\ RowFacts /\ RequestFacts

\* Every step keeps one sender per key and what rows and requests say of money.
LEMMA MoneyStep == WalletInv /\ [Next]_vars => Money'
<1> SUFFICES ASSUME TypeOK, TypeOK', Shape, Money, [Next]_vars PROVE Money'
    BY TypeStep DEF WalletInv, Money
<1>n. \A k \in Key : /\ native[k].sent \in Nat /\ native[k].applied \in Nat
                     /\ native[k].refused \in Nat /\ native[k].audited \in Nat
      BY DEF TypeOK, NativeRecord
<1>g. \A g \in Handler : pc[g] \in Settling => req[g].key \in Key
      BY DEF TypeOK, Shape, CallShape, PastFence, Settling, Requests, Call, Key
<1> USE DEF Money, OneSender, Counters, RowFacts, RequestFacts, Sender, Settling, Done, Dead, Pending
<1>1. ASSUME NEW b \in Binding, NEW v \in 0 .. Cardinality(Binding), BindWallet(b, v)
      PROVE  Money'
      BY <1>1 DEF BindWallet, local
\* A request that is not, and does not become, a sender or a settler.
<1>q. ASSUME NEW h \in Handler, NEW p, NEW r, NEW b, NEW v, Moves(h, p, r, b, v),
             p \notin Settling, UNCHANGED <<row, native>>
      PROVE  Money'
      BY <1>q DEF Moves
<1>2. ASSUME NEW h \in Handler, Request(h) PROVE Money'
  <2>1. \E s \in {"lock", "bind", "readfence", "lookup"} : \E r : Start(h, s, r)
        BY <1>2 DEF Request, Debit, Refund, ReadWalletAction, CloseWorkspace
  <2>2. PICK s \in {"lock", "bind", "readfence", "lookup"} : \E r : Start(h, s, r)
        BY <2>1
  <2>r. PICK r : Start(h, s, r)
        BY <2>2
  <2>3. Moves(h, s, r, bnd[h], verdict[h])
        BY <2>r, MoveFacts
  <2> QED BY <2>2, <2>r, <2>3, <1>q DEF Start
<1>3. ASSUME NEW h \in Handler, HandlerStep(h) PROVE Money'
  <2>m. /\ Return(h) => Moves(h, "idle", NoRequest, None, "unknown")
        /\ \A s : Proceed(h, s) => Moves(h, s, req[h], bnd[h], verdict[h])
        /\ \A s, b : ProceedWith(h, s, b) => Moves(h, s, req[h], b, verdict[h])
        /\ \A v : SettleAs(h, v) => Moves(h, "settle", req[h], bnd[h], v)
        BY MoveFacts
  <2>k. pc[h] \in {"reserve", "dispatch", "await", "confirm", "settle", "reconcile", "lookup"}
              => req[h].key \in Key
        BY DEF TypeOK, Shape, CallShape, PastFence, Requests, Call, Key
  <2>c. ASSUME NEW b, ProceedWith(h, "reconcile", b), row[req[h].key] # None, req[h].key \in Key,
               pc[h] \in {"reserve", "lookup"}, UNCHANGED <<row, native>>
        PROVE  Money'
        BY <2>c, <2>m DEF Moves
  <2>1. CASE GuardWorkspaceKey(h)
    <3>1. CASE guard = None
      <4>1. Moves(h, "fence", req[h], bnd[h], verdict[h])
            BY <2>1, <3>1, <2>m, WalletNone DEF GuardWorkspaceKey, TypeOK, Goto, local, Moves
      <4> QED BY <2>1, <4>1, <1>q DEF GuardWorkspaceKey
    <3> QED BY <2>1, <3>1, <2>m, <1>q DEF GuardWorkspaceKey
  <2>2. CASE CheckClosing(h)
        BY <2>2, <2>m, <2>k, <2>c, <1>q, <1>n DEF CheckClosing, At, Moves
  <2>3. CASE ReadBinding(h)
        BY <2>3, <2>m, <2>k, <2>c, <1>q, <1>n DEF ReadBinding, At, Moves
  <2>4. CASE ReserveNew(h)
    <3> DEFINE k == req[h].key
    <3>1. CASE req[h].call = "refund" /\ ~RefundAllowed(req[h].original, req[h].amount)
          BY <2>4, <3>1, <2>m, <1>q DEF ReserveNew
    <3>2. CASE ~(req[h].call = "refund" /\ ~RefundAllowed(req[h].original, req[h].amount))
      <4>1. PICK b \in Binding :
              /\ Moves(h, "dispatch", req[h], b, verdict[h])
              /\ row' = [row EXCEPT ![k] =
                          [status |-> "requested", amount |-> req[h].amount,
                           original |-> req[h].original, binding |-> b]]
            BY <2>4, <3>2, <2>m, ReserveBinding DEF ReserveNew
      <4>2. k \in Key /\ row[k] = None /\ native' = native
            BY <2>4, <2>k DEF ReserveNew, At
      <4>3. /\ row'[k].status = "requested" /\ row'[k].amount = req[h].amount
            /\ row'[k].binding = b
            /\ \A j \in Key : j # k => row'[j] = row[j]
            BY <4>1, <4>2 DEF TypeOK
      <4>4. row'[k] # None
        <5>1. [status |-> "requested", amount |-> req[h].amount,
               original |-> req[h].original, binding |-> b] \in WalletRecord
          <6>1. pc[h] = "reserve" /\ CallShape(h) /\ req[h] \in Requests
                BY <2>4 DEF ReserveNew, At, Shape, TypeOK
          <6>2. req[h].amount \in Amount /\ req[h].original \in ChargeKey \cup {None}
                BY <6>1 DEF CallShape, Requests, Call
          <6> QED BY <6>2 DEF WalletRecord, Status
        <5> QED BY <4>1, <4>2, <5>1, WalletRowPresent DEF TypeOK
      <4>5. OneSender' /\ Counters'
            BY <4>1, <4>2 DEF Moves
      <4>6. RowFacts'
            BY <4>1, <4>2, <4>3, <4>4, <1>n DEF Moves
      <4>7. RequestFacts'
            BY <4>1, <4>2, <4>3, <4>4 DEF Moves
      <4> QED BY <4>5, <4>6, <4>7
    <3> QED BY <3>1, <3>2
  <2>5. CASE ReserveExisting(h)
        BY <2>5, <2>m, <2>k, <2>c, <1>q, <1>n DEF ReserveExisting, At, Moves
  <2>6. CASE AdjustRefusedLocally(h)
    <3>1. req[h].key \in Key /\ row' = row /\ native' = native /\ pc[h] = "dispatch"
          BY <2>6, <2>k DEF AdjustRefusedLocally, At
    <3>2. CASE SettleAs(h, "rejected")
      <4>1. Moves(h, "settle", req[h], bnd[h], "rejected")
            BY <3>2, <2>m
      <4>2. native[req[h].key].applied = 0 /\ ~Pending(req[h].key)
            BY <3>1, <1>n
      <4>3. OneSender'
            BY <3>1, <4>1 DEF Moves
      <4>4. Counters' /\ RowFacts'
            BY <3>1, <4>1 DEF Moves
      <4>5. RequestFacts'
            BY <3>1, <4>1, <4>2 DEF Moves
      <4> QED BY <4>3, <4>4, <4>5
    <3>3. CASE Return(h)
          BY <3>1, <3>3, <2>m, <1>q
    <3> QED BY <2>6, <3>2, <3>3 DEF AdjustRefusedLocally
  <2>7. CASE AdjustBalance(h)
    <3> DEFINE k == req[h].key
    <3>1. k \in Key /\ row' = row /\ pc[h] = "dispatch"
          BY <2>7, <2>k DEF AdjustBalance, At
    <3>2. Moves(h, "await", req[h], bnd[h], verdict[h])
          BY <2>7, <2>m DEF AdjustBalance
    <3>3. /\ native'[k].sent = native[k].sent + 1 /\ native'[k].applied = native[k].applied
          /\ native'[k].refused = native[k].refused /\ native'[k].audited = native[k].audited
          /\ native'[k].wallet = bnd[h] /\ native'[k].amount = req[h].amount
          /\ \A j \in Key : j # k => native'[j] = native[j]
          BY <2>7, <3>1 DEF AdjustBalance, TypeOK
    <3>4. OneSender' /\ Counters'
          BY <3>1, <3>2, <3>3, <1>n DEF Moves
    <3>5. RowFacts'
          BY <3>1, <3>2, <3>3, <1>n DEF Moves
    <3>6. RequestFacts'
      <4> SUFFICES ASSUME NEW g \in Handler PROVE RequestFacts!(g)'
          OBVIOUS
      <4>1. CASE g = h
            BY <3>1, <3>2, <3>3, <1>n, <4>1 DEF Moves
      <4>2. CASE g # h /\ req[g].key = k
            BY <3>1, <3>2, <3>3, <1>n, <4>2 DEF Moves
      <4>3. CASE g # h /\ req[g].key # k
            BY <3>1, <3>2, <3>3, <1>g, <4>3 DEF Moves
      <4> QED BY <4>1, <4>2, <4>3
    <3> QED BY <3>4, <3>5, <3>6
  <2>8. CASE AdjustAnswered(h)
    <3> DEFINE k == req[h].key
    <3>1. k \in Key /\ row' = row /\ native' = native /\ pc[h] = "await"
          BY <2>8, <2>k DEF AdjustAnswered, At
    <3>2. CASE Proceed(h, "confirm")
          BY <3>1, <3>2, <2>m, <1>n DEF Moves
    <3>3. CASE native[k].refused > 0 /\ SettleAs(h, "rejected")
      <4>1. native[k].applied = 0 /\ ~Pending(k)
            BY <3>1, <3>3, <1>n
      <4> QED BY <3>1, <3>3, <4>1, <2>m DEF Moves
    <3>4. CASE SettleAs(h, "unknown")
          BY <3>1, <3>4, <2>m DEF Moves
    <3> QED BY <2>8, <3>2, <3>3, <3>4 DEF AdjustAnswered
  <2>9. CASE ConfirmWalletOperation(h)
    <3>1. req[h].key \in Key /\ row' = row /\ native' = native /\ pc[h] = "confirm"
          BY <2>9, <2>k DEF ConfirmWalletOperation, At
    <3>2. CASE HistoryConfirms(req[h].key) /\ SettleAs(h, "confirmed")
      <4>1. Done(req[h].key)
            BY <3>1, <3>2, <1>n DEF HistoryConfirms
      <4> QED BY <3>1, <3>2, <4>1, <2>m DEF Moves
    <3>3. CASE SettleAs(h, "unknown")
          BY <3>1, <3>3, <2>m DEF Moves
    <3> QED BY <2>9, <3>2, <3>3 DEF ConfirmWalletOperation
  <2>10. CASE ReconcileWalletOperation(h)
    <3>1. req[h].key \in Key /\ row' = row /\ native' = native /\ pc[h] = "reconcile"
          BY <2>10, <2>k DEF ReconcileWalletOperation, At
    <3>2. CASE HistoryConfirms(req[h].key) /\ SettleAs(h, "confirmed")
      <4>1. Done(req[h].key)
            BY <3>1, <3>2, <1>n DEF HistoryConfirms
      <4> QED BY <3>1, <3>2, <4>1, <2>m DEF Moves
    <3> QED BY <2>10, <3>2, <2>m, <1>q DEF ReconcileWalletOperation
  <2>11. CASE SettleWalletOperation(h)
    <3> DEFINE k == req[h].key
    <3>1. k \in Key /\ native' = native /\ pc[h] = "settle" /\ row[k] # None
          BY <2>11, <2>k DEF SettleWalletOperation, At
    <3>2. Moves(h, "readback", req[h], bnd[h], verdict[h])
          BY <2>11, <2>m DEF SettleWalletOperation
    <3>3. /\ row'[k].status = verdict[h] /\ row'[k].amount = row[k].amount
          /\ row'[k].binding = row[k].binding
          /\ row'[k] # None
          /\ \A j \in Key : j # k => row'[j] = row[j]
      <4>1. verdict[h] \in Status
            BY DEF TypeOK, Status
      <4>2. row' = [row EXCEPT ![k].status = verdict[h]]
            BY <2>11 DEF SettleWalletOperation
      <4>3. PICK j \in Key : j = k
            BY <3>1
      <4>4. PICK v \in Status : v = verdict[h]
            BY <4>1
      <4>5. row[j] # None /\ row' = [row EXCEPT ![j].status = v]
            BY <3>1, <4>2, <4>3, <4>4
      <4>6. /\ row'[j].status = v /\ row'[j].amount = row[j].amount
            /\ row'[j].binding = row[j].binding /\ row'[j] # None
            /\ \A i \in Key : i # j => row'[i] = row[i]
            BY <4>5, SettleFacts, ZenonT(30)
      <4> QED BY <4>3, <4>4, <4>6
    <3>4. OneSender' /\ Counters'
      <4>1. OneSender'
            BY <3>1, <3>2 DEF Moves
      <4>2. Counters'
            BY <3>1, <3>2 DEF Moves
      <4> QED BY <4>1, <4>2
    <3>5. RowFacts'
      <4> SUFFICES ASSUME NEW j \in Key PROVE RowFacts!(j)'
          OBVIOUS
      <4>1. CASE j = k
            BY <3>1, <3>2, <3>3, <4>1 DEF Moves
      <4>2. CASE j # k
            BY <3>1, <3>2, <3>3, <4>2 DEF Moves
      <4> QED BY <4>1, <4>2
    <3>6. RequestFacts'
      <4> SUFFICES ASSUME NEW g \in Handler PROVE RequestFacts!(g)'
          OBVIOUS
      <4>1. CASE g = h
            BY <3>2, <4>1 DEF Moves
      <4>2. CASE g # h /\ req[g].key = k
            BY <3>1, <3>2, <3>3, <4>2 DEF Moves
      <4>3. CASE g # h /\ req[g].key # k
            BY <3>1, <3>2, <3>3, <1>g, <4>3 DEF Moves
      <4> QED BY <4>1, <4>2, <4>3
    <3> QED BY <3>4, <3>5, <3>6
  <2>17. CASE GatewayStoreRead(h)
        BY <2>17, <2>m, <1>q DEF GatewayStoreRead
  <2>12. CASE ReadFence(h)
    <3>1. UNCHANGED <<row, native>> /\ (Proceed(h, "lookup") \/ Return(h))
          BY <2>12 DEF ReadFence
    <3>2. CASE Proceed(h, "lookup")
      <4>1. Moves(h, "lookup", req[h], bnd[h], verdict[h])
            BY <3>2, <2>m
      <4> QED BY <3>1, <4>1, <1>q
    <3>3. CASE Return(h)
      <4>1. Moves(h, "idle", NoRequest, None, "unknown")
            BY <3>3, <2>m
      <4> QED BY <3>1, <4>1, <1>q
    <3> QED BY <3>1, <3>2, <3>3
  <2>13. CASE LookupWalletOperation(h)
    <3>1. /\ UNCHANGED <<row, native>> /\ pc[h] = "lookup"
          /\ \/ Proceed(h, "others") \/ Return(h)
             \/ /\ row[req[h].key] # None
                /\ ProceedWith(h, "reconcile", row[req[h].key].binding)
          BY <2>13 DEF LookupWalletOperation, At
    <3>2. CASE Proceed(h, "others")
      <4>1. Moves(h, "others", req[h], bnd[h], verdict[h])
            BY <3>2, <2>m
      <4> QED BY <3>1, <4>1, <1>q
    <3>3. CASE Return(h)
      <4>1. Moves(h, "idle", NoRequest, None, "unknown")
            BY <3>3, <2>m
      <4> QED BY <3>1, <4>1, <1>q
    <3>4. CASE row[req[h].key] # None /\ ProceedWith(h, "reconcile", row[req[h].key].binding)
          BY <3>1, <3>4, <2>k, <2>c
    <3> QED BY <3>1, <3>2, <3>3, <3>4
  <2>14. CASE ConfirmAbsence(h)
        BY <2>14, <2>m, <2>k, <2>c, <1>q, <1>n DEF ConfirmAbsence, At, Moves
  <2>15. CASE FenceWorkspaceKey(h)
        BY <2>15, <2>m, <2>k, <2>c, <1>q, <1>n DEF FenceWorkspaceKey, At, Moves
  <2>16. CASE FinishClose(h)
        BY <2>16, <2>m, <2>k, <2>c, <1>q, <1>n DEF FinishClose, At, Moves
  <2> QED BY <1>3, <2>1, <2>2, <2>3, <2>4, <2>5, <2>6, <2>7, <2>8, <2>9, <2>10, <2>11, <2>12, <2>13, <2>14, <2>15, <2>16, <2>17
         DEF HandlerStep
<1>4. ASSUME NEW h \in Handler, Abandon(h) PROVE Money'
      BY <1>4, <1>q, MoveFacts DEF Abandon
<1>5. ASSUME NEW k \in Key, Upstream(k) PROVE Money'
  <2>1. /\ row' = row /\ pc' = pc /\ req' = req /\ bnd' = bnd /\ verdict' = verdict
        /\ \A j \in Key : j # k => native'[j] = native[j]
        /\ native'[k].sent = native[k].sent /\ native'[k].amount = native[k].amount
        /\ native'[k].wallet = native[k].wallet
        BY <1>5 DEF Upstream, UpstreamApply, UpstreamRefuse, UpstreamAudit, local, TypeOK, NativeRecord
  <2>2. \/ /\ native'[k].applied = native[k].applied + 1
           /\ native'[k].refused = native[k].refused /\ native'[k].audited = native[k].audited
           /\ Pending(k)
        \/ /\ native'[k].refused = native[k].refused + 1
           /\ native'[k].applied = native[k].applied /\ native'[k].audited = native[k].audited
           /\ Pending(k)
        \/ /\ native'[k].audited = native[k].audited + 1
           /\ native'[k].refused = native[k].refused /\ native'[k].applied = native[k].applied
           /\ native[k].audited < native[k].applied
        BY <1>5 DEF Upstream, UpstreamApply, UpstreamRefuse, UpstreamAudit, TypeOK, NativeRecord
  <2>3. OneSender' /\ Counters'
        BY <2>1, <2>2, <1>n
  <2>4. RowFacts'
        BY <2>1, <2>2, <1>n
  <2>5. RequestFacts'
    <3> SUFFICES ASSUME NEW g \in Handler PROVE RequestFacts!(g)'
        OBVIOUS
    <3>1. CASE req[g].key = k
          BY <2>1, <2>2, <1>n, <3>1
    <3>2. CASE req[g].key # k
          BY <2>1, <1>g, <3>2
    <3> QED BY <3>1, <3>2
  <2> QED BY <2>3, <2>4, <2>5
<1>6. CASE UNCHANGED vars
      BY <1>6 DEF vars
<1> QED BY <1>1, <1>2, <1>3, <1>4, <1>5, <1>6 DEF Next

-----------------------------------------------------------------------------
(* What was true of the money stays true, and so do the answers about it.   *)

\* How a step may change the tables and the wallet: not at all, one inserted
\* row, one status, one POST sent by the request that inserted its row, or one
\* event of the wallet.
Inserts(h) ==
    /\ pc[h] = "reserve" /\ row[req[h].key] = None /\ native' = native
    /\ \A j \in Key : j # req[h].key => row'[j] = row[j]
    /\ row'[req[h].key].original = req[h].original
    /\ row'[req[h].key].amount = req[h].amount
    /\ req[h].call = "refund" =>
         /\ row[req[h].original] # None /\ row[req[h].original].status = "confirmed"
         /\ req[h].amount + Reserved(req[h].original) <= row[req[h].original].amount
         /\ row'[req[h].key].binding = row[req[h].original].binding
Settles(h) ==
    /\ pc[h] = "settle" /\ row[req[h].key] # None /\ native' = native
    /\ \A j \in Key : j # req[h].key => row'[j] = row[j]
    /\ row'[req[h].key] # None /\ row'[req[h].key].status = verdict[h]
    /\ row'[req[h].key].amount = row[req[h].key].amount
    /\ row'[req[h].key].binding = row[req[h].key].binding
    /\ row'[req[h].key].original = row[req[h].key].original
Sends(h) ==
    /\ pc[h] = "dispatch" /\ row' = row
    /\ \A j \in Key : j # req[h].key => native'[j] = native[j]
Happens(k) ==
    /\ row' = row /\ \A j \in Key : j # k => native'[j] = native[j]
    /\ native'[k].sent = native[k].sent /\ native'[k].amount = native[k].amount
    /\ native'[k].applied = native[k].applied \/ Pending(k)
    /\ native'[k].applied + native'[k].refused >= native[k].applied + native[k].refused

\* The ways a step can touch a row, the closing entry and the external wallet.
LEMMA TableSteps ==
    ASSUME WalletInv, [Next]_vars
    PROVE  \/ row' = row /\ native' = native
           \/ \E h \in Handler : Inserts(h) \/ Settles(h) \/ Sends(h)
           \/ \E k \in Key : Happens(k)
<1>k. \A h \in Handler : pc[h] \in {"reserve", "dispatch", "settle"} => req[h].key \in Key
      BY DEF WalletInv, TypeOK, Shape, CallShape, PastFence, Settling, Requests, Call, Key
<1>1. ASSUME NEW h \in Handler, ReserveNew(h)
      PROVE  Inserts(h) \/ (row' = row /\ native' = native)
  <2>1. CASE row' = row
        BY <1>1, <2>1 DEF ReserveNew
  <2>2. CASE row' # row
    <3>1. /\ req[h].key \in Key /\ pc[h] = "reserve"
          /\ req[h].call = "refund" => RefundAllowed(req[h].original, req[h].amount)
          /\ row' = [row EXCEPT ![req[h].key] =
                [status |-> "requested", amount |-> req[h].amount, original |-> req[h].original,
                 binding |-> IF req[h].call = "refund" THEN PayerBinding(req[h].original)
                             ELSE bnd[h]]]
          /\ row[req[h].key] = None /\ native' = native
          BY <1>1, <2>2, <1>k DEF ReserveNew, At
    <3> QED BY <3>1 DEF Inserts, RefundAllowed, PayerBinding, WalletInv, TypeOK
  <2> QED BY <2>1, <2>2
<1>2. ASSUME NEW h \in Handler, SettleWalletOperation(h) PROVE Settles(h)
  <2>1. /\ pc[h] = "settle" /\ req[h].key \in Key /\ row[req[h].key] # None /\ native' = native
        /\ verdict[h] \in Status
        BY <1>2, <1>k DEF SettleWalletOperation, At, WalletInv, RowFacts, Settling, TypeOK, Status
  <2> QED BY <1>2, <2>1, SettleFacts DEF SettleWalletOperation, Settles, WalletInv
<1>3. ASSUME NEW h \in Handler, AdjustBalance(h) PROVE Sends(h)
      BY <1>3, <1>k DEF AdjustBalance, At, Sends, WalletInv, TypeOK
<1>4. ASSUME NEW k \in Key, Upstream(k) PROVE Happens(k)
  <2>1. native[k] \in NativeRecord
        BY DEF WalletInv, TypeOK
  <2> QED BY <1>4, <2>1 DEF Upstream, UpstreamApply, UpstreamRefuse, UpstreamAudit, Happens,
             Pending, WalletInv, TypeOK, NativeRecord
<1>5. ASSUME NEW h \in Handler, HandlerStep(h), ~ReserveNew(h), ~SettleWalletOperation(h),
             ~AdjustBalance(h)
      PROVE  row' = row /\ native' = native
      BY <1>5 DEF HandlerStep, GuardWorkspaceKey, CheckClosing, ReadBinding, ReserveExisting,
         AdjustRefusedLocally, AdjustAnswered, ConfirmWalletOperation, ReconcileWalletOperation,
         GatewayStoreRead, ReadFence, LookupWalletOperation, ConfirmAbsence, FenceWorkspaceKey,
         FinishClose
<1>6. ASSUME NEW h \in Handler, Request(h) \/ Abandon(h) PROVE row' = row /\ native' = native
      BY <1>6 DEF Request, Debit, Refund, ReadWalletAction, CloseWorkspace, Start, Abandon
<1>7. ASSUME NEW b \in Binding, NEW v, BindWallet(b, v) PROVE row' = row /\ native' = native
      BY <1>7 DEF BindWallet
<1> QED BY <1>1, <1>2, <1>3, <1>4, <1>5, <1>6, <1>7 DEF Next, vars

\* Money that moved stays moved by the amount of its row.
LEMMA DoneStable == WalletInv /\ [Next]_vars => \A k \in Key : Done(k) => Done(k)'
<1> SUFFICES ASSUME WalletInv, [Next]_vars, NEW k \in Key, Done(k) PROVE Done(k)'
    OBVIOUS
<1>n. \A j \in Key : /\ native[j].sent \in Nat /\ native[j].applied \in Nat /\ native[j].refused \in Nat
      BY DEF WalletInv, TypeOK, NativeRecord
<1>1. CASE row' = row /\ native' = native
      BY <1>1 DEF Done
<1>2. ASSUME NEW h \in Handler, Inserts(h) PROVE Done(k)'
      BY <1>2 DEF Inserts, Done
<1>3. ASSUME NEW h \in Handler, Settles(h) PROVE Done(k)'
      BY <1>3 DEF Settles, Done
<1>4. ASSUME NEW h \in Handler, Sends(h) PROVE Done(k)'
  <2>1. req[h].key # k
        BY <1>4, <1>n DEF Sends, Done, WalletInv, RequestFacts, Counters
  <2> QED BY <1>4, <2>1 DEF Sends, Done
<1>5. ASSUME NEW j \in Key, Happens(j) PROVE Done(k)'
  <2>1. ~Pending(k)
        BY <1>n DEF Done, Pending, WalletInv, Counters
  <2> QED BY <1>5, <2>1 DEF Happens, Done
<1> QED BY <1>1, <1>2, <1>3, <1>4, <1>5, TableSteps

\* Only the request that inserts a row becomes its sender.
LEMMA SenderStep ==
    ASSUME WalletInv, [Next]_vars, NEW g \in Handler, Sender(g)'
    PROVE  req'[g] = req[g] /\ (Sender(g) \/ (pc[g] = "reserve" /\ row[req[g].key] = None))
<1> USE DEF Sender
<1>1. ASSUME NEW b \in Binding, NEW v, BindWallet(b, v) PROVE req'[g] = req[g] /\ Sender(g)
      BY <1>1 DEF BindWallet, local
<1>2. ASSUME NEW k \in Key, Upstream(k) PROVE req'[g] = req[g] /\ Sender(g)
      BY <1>2 DEF Upstream, UpstreamApply, UpstreamRefuse, UpstreamAudit, local
<1>3. ASSUME NEW h \in Handler, h # g, Request(h) \/ HandlerStep(h) \/ Abandon(h)
      PROVE  req'[g] = req[g] /\ Sender(g)
  <2>1. pc'[g] = pc[g] /\ req'[g] = req[g] /\ verdict'[g] = verdict[g]
        BY <1>3 DEF Request, HandlerStep, Abandon, Debit, Refund, ReadWalletAction, CloseWorkspace,
           Start, Return, Proceed, ProceedWith, SettleAs, Goto, local, WalletInv, TypeOK,
           GuardWorkspaceKey, CheckClosing, ReadBinding, ReserveNew, ReserveExisting,
           AdjustRefusedLocally, AdjustBalance, AdjustAnswered, ConfirmWalletOperation,
           ReconcileWalletOperation, SettleWalletOperation, GatewayStoreRead, ReadFence, LookupWalletOperation,
           ConfirmAbsence, FenceWorkspaceKey, FinishClose
  <2> QED BY <2>1
<1>4. ~Request(g) /\ ~Abandon(g)
      BY DEF Request, Abandon, Debit, Refund, ReadWalletAction, CloseWorkspace, Start, Return, Goto,
         WalletInv, TypeOK
<1>5. ASSUME HandlerStep(g)
      PROVE  req'[g] = req[g] /\ (Sender(g) \/ (pc[g] = "reserve" /\ row[req[g].key] = None))
  <2>1. /\ Return(g) => pc'[g] = "idle"
        /\ \A s : Proceed(g, s) => pc'[g] = s /\ req'[g] = req[g] /\ verdict'[g] = verdict[g]
        /\ \A s, b : ProceedWith(g, s, b) => pc'[g] = s /\ req'[g] = req[g]
        /\ \A v : SettleAs(g, v) => pc'[g] = "settle" /\ req'[g] = req[g] /\ verdict'[g] = v
        BY MoveFacts DEF WalletInv, Moves
  <2>2. GuardWorkspaceKey(g) => pc'[g] \in {"fence", "idle"}
        BY <2>1 DEF GuardWorkspaceKey, Goto, WalletInv, TypeOK
  <2>3. ASSUME ~GuardWorkspaceKey(g), ~ReserveNew(g)
        PROVE  req'[g] = req[g] /\ Sender(g)
        BY <1>5, <2>1, <2>3 DEF HandlerStep, At, CheckClosing, ReadBinding, ReserveExisting,
           AdjustRefusedLocally, AdjustBalance, AdjustAnswered, ConfirmWalletOperation,
           ReconcileWalletOperation, SettleWalletOperation, GatewayStoreRead, ReadFence, LookupWalletOperation,
           ConfirmAbsence, FenceWorkspaceKey, FinishClose
  <2> QED BY <2>1, <2>2, <2>3 DEF ReserveNew, At
<1>6. CASE UNCHANGED vars
      BY <1>6 DEF vars
<1> QED BY <1>1, <1>2, <1>3, <1>4, <1>5, <1>6 DEF Next

\* A key whose POST was refused or never sent stays without effect.
LEMMA DeadStable == WalletInv /\ [Next]_vars => \A k \in Key : Dead(k) => Dead(k)'
<1> SUFFICES ASSUME WalletInv, [Next]_vars, NEW k \in Key, Dead(k) PROVE Dead(k)'
    OBVIOUS
<1>n. \A j \in Key : /\ native[j].sent \in Nat /\ native[j].applied \in Nat /\ native[j].refused \in Nat
      BY DEF WalletInv, TypeOK, NativeRecord
<1>m. \A j \in Key : /\ native'[j].sent \in Nat /\ native'[j].applied \in Nat /\ native'[j].refused \in Nat
      BY TypeStep DEF TypeOK, NativeRecord
<1>s. ASSUME NEW g \in Handler, Sender(g)' PROVE req'[g].key # k
      BY <1>s, SenderStep DEF Dead
<1> DEFINE Still == row'[k] # None /\ native'[k].applied = 0 /\ ~Pending(k)'
<1>1. CASE row' = row /\ native' = native
      BY <1>1, <1>s DEF Dead, Pending
<1>2. ASSUME NEW h \in Handler, Inserts(h) PROVE Still
      BY <1>2 DEF Inserts, Dead, Pending
<1>3. ASSUME NEW h \in Handler, Settles(h) PROVE Still
      BY <1>3 DEF Settles, Dead, Pending
<1>4. ASSUME NEW h \in Handler, Sends(h) PROVE Still
      BY <1>4 DEF Sends, Dead, Pending, Sender
<1>5. ASSUME NEW j \in Key, Happens(j) PROVE Still
      BY <1>5, <1>n, <1>m DEF Happens, Dead, Pending
<1> QED BY <1>1, <1>2, <1>3, <1>4, <1>5, <1>s, TableSteps DEF Dead

\* A closed Workspace stays closed and gets no new charge.
LEMMA AbsenceStable ==
    WalletInv /\ [Next]_vars /\ closing =>
        closing' /\ ((\A c \in ChargeKey : row[c] = None) => (\A c \in ChargeKey : row'[c] = None))
<1> SUFFICES ASSUME WalletInv, [Next]_vars, closing
             PROVE  closing' /\ \A c \in ChargeKey : row[c] = None => row'[c] = None
    OBVIOUS
<1>1. closing'
      BY DEF Next, vars, BindWallet, Request, HandlerStep, Abandon, Debit, Refund, ReadWalletAction,
         CloseWorkspace, Start, Upstream, UpstreamApply, UpstreamRefuse, UpstreamAudit,
         GuardWorkspaceKey, CheckClosing, ReadBinding, ReserveNew, ReserveExisting,
         AdjustRefusedLocally, AdjustBalance, AdjustAnswered, ConfirmWalletOperation,
         ReconcileWalletOperation, SettleWalletOperation, GatewayStoreRead, ReadFence, LookupWalletOperation,
         ConfirmAbsence, FenceWorkspaceKey, FinishClose
<1>2. ASSUME NEW h \in Handler, Inserts(h) PROVE req[h].key \notin ChargeKey
  <2>1. req[h].call # "charge"
        BY <1>2 DEF Inserts, WalletInv, Fenced, PastFence
  <2>2. req[h].call = "refund"
        BY <1>2, <2>1 DEF Inserts, WalletInv, TypeOK, Requests, Call, Shape, CallShape
  <2> QED BY <2>2, WalletKeysDisjoint DEF WalletInv, Shape, CallShape
<1>3. ASSUME NEW c \in ChargeKey, row[c] = None PROVE row'[c] = None
      BY <1>2, <1>3, TableSteps DEF Inserts, Settles, Sends, Happens, Key
<1> QED BY <1>1, <1>3

\* Every step keeps the truth of answers given and the payer of a refund.
LEMMA AnswerStep == WalletInv /\ [Next]_vars => (ToldFacts /\ RefundFacts)'
<1> SUFFICES ASSUME WalletInv, [Next]_vars PROVE ToldFacts' /\ RefundFacts'
    OBVIOUS
<1>1. RefundFacts'
  <2> SUFFICES ASSUME NEW r \in RefundKey, row'[r] # None PROVE RefundFacts!(r)'
      BY DEF RefundFacts
  <2>1. CASE row[r] # None
    <3>1. /\ row[r].original \in ChargeKey /\ Done(row[r].original)
          /\ row[r].binding = row[row[r].original].binding
          BY <2>1 DEF WalletInv, RefundFacts
    <3>2. ASSUME NEW j \in Key, row[j] # None
          PROVE row'[j].original = row[j].original /\ row'[j].binding = row[j].binding
          BY <3>2, TableSteps DEF Inserts, Settles, Sends, Happens
    <3> QED BY <2>1, <3>1, <3>2, DoneStable DEF Key, Done
  <2>2. CASE row[r] = None
    <3>1. PICK h \in Handler : Inserts(h) /\ req[h].key = r
          BY <2>2, TableSteps DEF Inserts, Settles, Sends, Happens, Key
    <3>2. req[h].call = "refund"
          BY <3>1, WalletKeysDisjoint
          DEF Inserts, WalletInv, TypeOK, Requests, Call, Shape, CallShape
    <3>3. req[h].original \in ChargeKey /\ Done(req[h].original)
          BY <3>1, <3>2 DEF Inserts, WalletInv, Shape, CallShape, RowFacts, Key
    <3>4. row'[req[h].original] = row[req[h].original]
          BY <3>1, <3>3, WalletKeysDisjoint DEF Inserts, Key
    <3> QED BY <3>1, <3>2, <3>3, <3>4, DoneStable DEF Inserts, Key
  <2> QED BY <2>1, <2>2
<1>2. ToldFacts'
  <2>1. ASSUME NEW k \in Key, told'[k] = told[k] PROVE ToldFacts!(k)'
        BY <2>1, DoneStable, DeadStable, AbsenceStable DEF WalletInv, ToldFacts
  <2>2. CASE told' = told
        BY <2>1, <2>2 DEF ToldFacts
  <2>3. ASSUME NEW h \in Handler,
               ReserveExisting(h) \/ LookupWalletOperation(h) \/ GatewayStoreRead(h)
        PROVE  ToldFacts'
    <3>1. req[h].key \in Key
          BY <2>3 DEF ReserveExisting, LookupWalletOperation, GatewayStoreRead, At, WalletInv, TypeOK,
             Shape, CallShape, PastFence, Settling, Requests, Call, Key
    <3>2. pc[h] = "readback" => row[req[h].key] # None
          BY <3>1 DEF WalletInv, RowFacts, Settling
    <3>3. \/ told' = told
          \/ /\ row[req[h].key] # None /\ row[req[h].key].status \in Terminal
             /\ told' = [told EXCEPT ![req[h].key] = row[req[h].key].status]
          BY <2>3, <3>1, <3>2 DEF ReserveExisting, LookupWalletOperation, GatewayStoreRead, At, Tell,
             WalletInv, TypeOK
    <3>4. ASSUME NEW k \in Key, told'[k] # told[k] PROVE ToldFacts!(k)'
      <4>1. k = req[h].key /\ told'[k] = row[k].status /\ row[k] # None /\ row[k].status \in Terminal
            BY <3>1, <3>3, <3>4 DEF WalletInv, TypeOK
      <4> QED BY <4>1, DoneStable, DeadStable DEF WalletInv, RowFacts, Terminal
    <3> QED BY <2>1, <3>4 DEF ToldFacts
  <2>5. ASSUME NEW h \in Handler, ConfirmAbsence(h) PROVE ToldFacts'
    <3>1. req[h].key \in Key /\ closing
          BY <2>5 DEF ConfirmAbsence, At, WalletInv, TypeOK, Shape, CallShape, PastFence, Settling,
             Requests, Call, Key, Fenced
    <3>2. CASE \A c \in ChargeKey : row[c] = None
      <4>1. told' = [told EXCEPT ![req[h].key] = "absent"]
            BY <2>5, <3>2 DEF ConfirmAbsence
      <4>2. ASSUME NEW k \in Key, told'[k] # told[k] PROVE ToldFacts!(k)'
        <5>1. told'[k] = "absent"
              BY <3>1, <4>1, <4>2 DEF WalletInv, TypeOK
        <5> QED BY <5>1, <3>1, <3>2, AbsenceStable
      <4> QED BY <2>1, <4>2 DEF ToldFacts
    <3> QED BY <2>5, <2>2, <3>2 DEF ConfirmAbsence
  <2>6. CASE \A h \in Handler : ~ReserveExisting(h) /\ ~LookupWalletOperation(h)
                               /\ ~GatewayStoreRead(h) /\ ~ConfirmAbsence(h)
    <3>1. told' = told
          BY <2>6 DEF Next, vars, BindWallet, Request, HandlerStep, Abandon, Debit, Refund, ReadWalletAction,
             CloseWorkspace, Start, Upstream, UpstreamApply, UpstreamRefuse, UpstreamAudit,
             GuardWorkspaceKey, CheckClosing, ReadBinding, ReserveNew, AdjustRefusedLocally,
             AdjustBalance, AdjustAnswered, ConfirmWalletOperation, ReconcileWalletOperation,
             SettleWalletOperation, ReadFence, FenceWorkspaceKey, FinishClose
    <3> QED BY <2>2, <3>1
  <2> QED BY <2>3, <2>5, <2>6
<1> QED BY <1>1, <1>2

-----------------------------------------------------------------------------
(* Refunds stay within their charge.                                        *)

\* The refunds of a charge that count against it.
Counted(c) == {r \in Refunds(c) : row[r].status # "rejected"}
AmountOf(f) == [k \in Key |-> f[k].amount]
Added(f, S) == MapThenSumSet(LAMBDA r : f[r].amount, S)

\* A charge has finitely many refunds, and those that count are within it.
Covered ==
    \A c \in ChargeKey :
        /\ IsFiniteSet(Refunds(c))
        /\ Refunds(c) # {} => Total(AmountOf(row), Counted(c)) <= row[c].amount

\* The sums of the model over a set of rows, as sums of this module.
LEMMA AddedIs ==
    ASSUME NEW S \in SUBSET Key, IsFiniteSet(S), NEW f, \A x \in S : f[x].amount \in Nat
    PROVE  Added(f, S) = Total(AmountOf(f), S)
  <1>1. PICK v : v = [r \in S |-> f[r].amount]
        OBVIOUS
  <1>2. Added(f, S) = Total(v, S)
        BY <1>1, MapTotal DEF Added
  <1>3. \A x \in S : v[x] \in Nat /\ AmountOf(f)[x] = v[x]
        BY <1>1 DEF AmountOf
  <1> QED BY <1>2, <1>3, TotalOfEqual

\* Reserved is the sum of the refunds that count.
LEMMA ReservedIs ==
    ASSUME WalletInv, NEW c \in ChargeKey, IsFiniteSet(Refunds(c))
    PROVE  /\ Reserved(c) = Total(AmountOf(row), Counted(c))
           /\ IsFiniteSet(Counted(c)) /\ Counted(c) \in SUBSET Key
           /\ \A r \in Counted(c) : AmountOf(row)[r] = row[r].amount /\ row[r].amount \in Nat
  <1>1. Counted(c) \in SUBSET Refunds(c) /\ Counted(c) \in SUBSET Key
        BY DEF Counted, Refunds, Key
  <1>2. IsFiniteSet(Counted(c))
        BY <1>1, FS_Subset
  <1>3. ASSUME NEW r \in Counted(c) PROVE row[r].amount \in Nat /\ AmountOf(row)[r] = row[r].amount
    <2>1. r \in Key /\ row[r] \in WalletRecord
          BY <1>1 DEF Counted, Refunds, WalletInv, TypeOK
    <2> QED BY <2>1, WalletAmounts DEF WalletRecord, AmountOf
  <1>4. Reserved(c) = Added(row, Counted(c))
        BY DEF Reserved, Added, Counted
  <1> QED BY <1>1, <1>2, <1>3, <1>4, AddedIs

\* What was recorded of an operation is never rewritten, and a rejected row
\* stays rejected.
LEMMA RecordStable ==
    ASSUME WalletInv, [Next]_vars, NEW k \in Key, row[k] # None
    PROVE  /\ row'[k] # None
           /\ row'[k].amount = row[k].amount /\ row'[k].original = row[k].original
           /\ row[k].status = "rejected" => row'[k].status = "rejected"
  <1>1. row'[k] # None /\ row'[k].amount = row[k].amount /\ row'[k].original = row[k].original
        BY TableSteps DEF Inserts, Settles, Sends, Happens
  <1>2. ASSUME row[k].status = "rejected", row'[k] # row[k] PROVE FALSE
    <2>1. PICK h \in Handler : Settles(h) /\ req[h].key = k
          BY <1>2, TableSteps DEF Inserts, Sends, Happens, Settles
    <2>2. Dead(k)
          BY <1>2 DEF WalletInv, RowFacts
    <2>3. verdict[h] = "confirmed"
          BY <2>1, <2>2 DEF Dead, Sender, Settles
    <2>4. Done(k)
          BY <2>1, <2>3 DEF Settles, WalletInv, RequestFacts
    <2> QED BY <2>2, <2>4 DEF Done, Dead
  <1> QED BY <1>1, <1>2

\* ReserveWalletOperation admits a refund only while the charge still covers
\* it, and no later step makes the refunds that count any larger.
LEMMA CoverStep == WalletInv /\ Covered /\ [Next]_vars => Covered'
<1> SUFFICES ASSUME WalletInv, Covered, [Next]_vars, NEW c \in ChargeKey PROVE Covered!(c)'
    BY DEF Covered
<1>c. c \in Key /\ IsFiniteSet(Refunds(c))
      BY DEF Covered, Key
<1>r. /\ Reserved(c) = Total(AmountOf(row), Counted(c))
      /\ IsFiniteSet(Counted(c)) /\ Counted(c) \in SUBSET Key
      /\ \A r \in Counted(c) : AmountOf(row)[r] = row[r].amount /\ row[r].amount \in Nat
      BY <1>c, ReservedIs
<1>t. /\ Total(AmountOf(row), Counted(c)) \in Nat
      /\ \A r \in Counted(c) : AmountOf(row)[r] \in Nat
      BY <1>r, TotalUnfolds
<1>e. \A r \in Counted(c) : AmountOf(row')[r] = AmountOf(row)[r]
      BY <1>r, RecordStable DEF AmountOf, Counted, Refunds
<1>1. ASSUME NEW h \in Handler, Inserts(h), req[h].key \in RefundKey, req[h].original = c
      PROVE  Covered!(c)'
  <2> DEFINE n == req[h].key
  <2>1. req[h].call = "refund" /\ req[h].amount \in Amount /\ req[h].amount \in Nat
        BY <1>1, WalletKeysDisjoint, WalletAmounts
        DEF Inserts, WalletInv, TypeOK, Requests, Call, Shape, CallShape
  <2>2. /\ row[c] # None /\ row'[c] = row[c] /\ n \in Key /\ row[n] = None
        /\ req[h].amount + Total(AmountOf(row), Counted(c)) <= row[c].amount
        BY <1>1, <1>c, <1>r, <2>1, WalletKeysDisjoint DEF Inserts, Key
  <2>3. /\ row'[n].original = c /\ row'[n].amount = req[h].amount
        /\ \A j \in Key : j # n => row'[j] = row[j]
        BY <1>1, <2>1 DEF Inserts
  <2>4. n \notin Counted(c) /\ n \in RefundKey
        BY <1>1, <2>2 DEF Counted, Refunds
  <2>5. Refunds(c)' \subseteq Refunds(c) \cup {n}
        BY <2>3 DEF Refunds, Key
  <2>6. IsFiniteSet(Refunds(c) \cup {n})
        BY <1>c, FS_AddElement
  <2>7. IsFiniteSet(Refunds(c)')
        BY <2>5, <2>6, FS_Subset
  <2>8. Counted(c)' \subseteq Counted(c) \cup {n}
        BY <2>3, <2>5 DEF Counted, Refunds, Key
  <2>9. PICK S : S = Counted(c) \cup {n} /\ IsFiniteSet(S)
    <3>1. IsFiniteSet(Counted(c))
          BY <1>r
    <3>2. IsFiniteSet(Counted(c) \cup {n})
          BY <3>1, FS_AddElement
    <3> QED BY <3>2
  <2>10. PICK v : v = AmountOf(row')
         OBVIOUS
  <2>11. v[n] = req[h].amount /\ \A x \in S : v[x] \in Nat
         BY <1>e, <1>t, <2>1, <2>2, <2>3, <2>9, <2>10 DEF AmountOf
  <2>12. Total(v, S) = v[n] + Total(v, S \ {n})
         BY <2>9, <2>11, TotalAt
  <2>13. S \ {n} = Counted(c)
         BY <2>4, <2>9
  <2>14. Total(v, Counted(c)) = Total(AmountOf(row), Counted(c))
         BY <1>e, <1>r, <1>t, <2>10, TotalOfEqual
  <2>15. Total(v, Counted(c)') <= Total(v, S)
         BY <2>8, <2>9, <2>11, TotalOfPart
  <2>16. Total(v, S) <= row'[c].amount /\ Total(v, S) \in Nat
         BY <1>t, <2>1, <2>2, <2>9, <2>11, <2>12, <2>13, <2>14, TotalUnfolds
  <2>17. Total(v, Counted(c)') \in Nat
    <3>1. IsFiniteSet(Counted(c)') /\ \A x \in Counted(c)' : v[x] \in Nat
          BY <2>8, <2>9, <2>11, FS_Subset
    <3> QED BY <3>1, TotalUnfolds
  <2>18. row'[c].amount \in Nat
    <3>1. row[c] \in WalletRecord
          BY <1>c, <2>2 DEF WalletInv, TypeOK
    <3> QED BY <2>2, <3>1, WalletAmounts DEF WalletRecord
  <2>19. Total(v, Counted(c)') <= row'[c].amount
         BY <2>15, <2>16, <2>17, <2>18
  <2> QED BY <2>7, <2>10, <2>19 DEF Covered
<1>2. ASSUME ~\E h \in Handler : Inserts(h) /\ req[h].key \in RefundKey /\ req[h].original = c
      PROVE  Covered!(c)'
  <2>1. Refunds(c)' \subseteq Refunds(c)
    <3> SUFFICES ASSUME NEW r \in RefundKey, row'[r] # None, row'[r].original = c
                 PROVE  row[r] # None /\ row[r].original = c
        BY DEF Refunds
    <3>1. CASE row[r] = None
          BY <1>2, <3>1, TableSteps DEF Inserts, Settles, Sends, Happens, Key
    <3>2. CASE row[r] # None
          BY <3>2, RecordStable DEF Key
    <3> QED BY <3>1, <3>2
  <2>2. Counted(c)' \subseteq Counted(c)
    <3> SUFFICES ASSUME NEW r \in Refunds(c)', row'[r].status # "rejected"
                 PROVE  r \in Refunds(c) /\ row[r].status # "rejected"
        BY DEF Counted
    <3>1. r \in Refunds(c) /\ r \in Key /\ row[r] # None
          BY <2>1 DEF Refunds, Key
    <3> QED BY <3>1, RecordStable
  <2>3. IsFiniteSet(Refunds(c)')
        BY <1>c, <2>1, FS_Subset
  <2>4. PICK v : v = AmountOf(row')
        OBVIOUS
  <2>5. Total(v, Counted(c)) = Total(AmountOf(row), Counted(c))
        BY <1>e, <1>r, <1>t, <2>4, TotalOfEqual
  <2>6. \A x \in Counted(c) : v[x] \in Nat
        BY <1>e, <1>t, <2>4
  <2>7. Total(v, Counted(c)') <= Total(v, Counted(c))
        BY <1>r, <2>2, <2>6, TotalOfPart
  <2>8. Total(v, Counted(c)') \in Nat
    <3>1. IsFiniteSet(Counted(c)') /\ \A x \in Counted(c)' : v[x] \in Nat
          BY <1>r, <2>2, <2>6, FS_Subset
    <3> QED BY <3>1, TotalUnfolds
  <2>9. ASSUME Refunds(c)' # {} PROVE Total(v, Counted(c)') <= row'[c].amount
    <3>1. PICK r \in RefundKey : row[r] # None /\ row[r].original = c
          BY <2>1, <2>9 DEF Refunds
    <3>2. row[c] # None
          BY <3>1 DEF WalletInv, RefundFacts, Done
    <3>3. row'[c].amount = row[c].amount
          BY <1>c, <3>2, RecordStable
    <3>4. Total(AmountOf(row), Counted(c)) <= row[c].amount
          BY <2>1, <2>9 DEF Covered
    <3>5. row[c] \in WalletRecord
          BY <1>c, <3>2 DEF WalletInv, TypeOK
    <3>6. row[c].amount \in Nat
          BY <3>5, WalletAmounts DEF WalletRecord
    <3> QED BY <1>t, <2>5, <2>7, <2>8, <3>3, <3>4, <3>6
  <2> QED BY <2>3, <2>4, <2>9 DEF Covered
<1> QED BY <1>1, <1>2

-----------------------------------------------------------------------------
(* The theorems.                                                            *)

\* The empty tables satisfy the inductive invariant.
LEMMA InitInv == Init => WalletInv
<1> SUFFICES ASSUME Init PROVE WalletInv
    OBVIOUS
<1>1. TypeOK
  <2>1. NoRequest \in Requests
        BY DEF NoRequest, Requests, Call
  <2>2. [sent |-> 0, applied |-> 0, refused |-> 0, audited |-> 0, wallet |-> None, amount |-> 0]
          \in NativeRecord
        BY DEF NativeRecord
  <2>3. faults \in 0 .. MaxFault
        BY WalletFaults DEF Init
  <2> QED BY <2>1, <2>2, <2>3 DEF Init, TypeOK, Step, Answer
<1>2. Shape /\ Guarded /\ Fenced
      BY DEF Init, NoRequest, Shape, CallShape, Guarded, Fenced, PastFence, Settling
<1>3. OneSender /\ Counters /\ RowFacts /\ RequestFacts
      BY DEF Init, OneSender, Sender, Counters, RowFacts, RequestFacts, Settling
<1>4. ToldFacts /\ RefundFacts
      BY DEF Init, ToldFacts, RefundFacts, Key
<1> QED BY <1>1, <1>2, <1>3, <1>4 DEF WalletInv

\* The inductive invariant holds in every reachable state, for any number of
\* concurrent requests, keys, bindings and faults.
THEOREM WalletInvariant == Spec => []WalletInv
<1>1. WalletInv /\ [Next]_vars => WalletInv'
      BY TypeStep, ControlStep, MoneyStep, AnswerStep DEF WalletInv, Money
<1> QED BY InitInv, <1>1, PTL DEF Spec

\* Type correctness of the Gateway wallet rows, requests and answers.
THEOREM WalletTypes == Spec => []TypeOK
<1>1. WalletInv => TypeOK
      BY DEF WalletInv
<1> QED BY WalletInvariant, <1>1, PTL

\* Debit and Refund put at most one POST per business key on the wire.
THEOREM SendsOnce == Spec => []OneAdjustmentPerKey
<1>1. WalletInv => OneAdjustmentPerKey
      BY DEF WalletInv, Counters, OneAdjustmentPerKey
<1> QED BY WalletInvariant, <1>1, PTL

\* A confirmed, rejected or absent answer of walletAction or ReadWalletAction
\* is true of the external wallet when given and ever after.
THEOREM AnswersTrue == Spec => []AnswersStayTrue
<1>1. WalletInv => AnswersStayTrue
  <2> SUFFICES ASSUME WalletInv, NEW k \in Key PROVE AnswersStayTrue!(k)
      BY DEF AnswersStayTrue
  <2>1. told[k] = "absent" => \A c \in ChargeKey : row[c] = None /\ native[c].sent = 0
        BY DEF WalletInv, ToldFacts, RowFacts, Key
  <2> QED BY <2>1 DEF WalletInv, ToldFacts, Done, Dead
<1> QED BY WalletInvariant, <1>1, PTL

\* A refund is sent to the wallet that its original charge was taken from,
\* whatever BindWallet did in between.
THEOREM RefundsReachPayer == Spec => []RefundsToPayer
<1>1. WalletInv => RefundsToPayer
  <2> SUFFICES ASSUME WalletInv, NEW r \in RefundKey, native[r].sent > 0
               PROVE  native[r].wallet = native[row[r].original].wallet
      BY DEF RefundsToPayer
  <2>1. row[r] # None /\ native[r].wallet = row[r].binding
        BY DEF WalletInv, RowFacts, Key
  <2>2. /\ row[r].original \in ChargeKey /\ Done(row[r].original)
        /\ row[r].binding = row[row[r].original].binding
        BY <2>1 DEF WalletInv, RefundFacts
  <2>3. native[row[r].original].sent > 0
        BY <2>2 DEF WalletInv, TypeOK, NativeRecord, Counters, Done, Key
  <2> QED BY <2>1, <2>2, <2>3 DEF WalletInv, RowFacts, Key
<1> QED BY WalletInvariant, <1>1, PTL

\* The reservations against every charge stay within it, in every reachable
\* state and for any number of refunds of any amounts.
THEOREM RefundsCovered == Spec => []Covered
<1>1. Init => Covered
  <2> SUFFICES ASSUME Init, NEW c \in ChargeKey PROVE Covered!(c)
      BY DEF Covered
  <2>1. Refunds(c) = {}
        BY DEF Init, Refunds, Key
  <2> QED BY <2>1, FS_EmptySet
<1> QED BY <1>1, WalletInvariant, CoverStep, PTL DEF Spec

\* Refund never returns more than the charge took: the refunds credited or
\* still on the wire add up to at most the amount of the charge, whichever
\* requests raced past the check of ReserveWalletOperation.
THEOREM RefundsStayWithin == Spec => []RefundsWithinCharge
<1>1. WalletInv /\ Covered => RefundsWithinCharge
  <2> SUFFICES ASSUME WalletInv, Covered, NEW c \in ChargeKey PROVE RefundsWithinCharge!(c)
      BY DEF RefundsWithinCharge
  <2>1. PICK S : S = {r \in Refunds(c) : native[r].sent > native[r].refused}
        OBVIOUS
  <2>c. c \in Key /\ IsFiniteSet(Refunds(c))
        BY DEF Covered, Key
  <2>r. /\ IsFiniteSet(Counted(c)) /\ Counted(c) \in SUBSET Key
        /\ \A r \in Counted(c) : AmountOf(row)[r] = row[r].amount /\ row[r].amount \in Nat
        BY <2>c, ReservedIs
  <2>n. \A k \in Key : /\ native[k].sent \in Nat /\ native[k].refused \in Nat
                        /\ native[k].applied \in Nat /\ native[k].amount \in Nat
    <3>1. \A k \in Key : native[k] \in NativeRecord
          BY DEF WalletInv, TypeOK
    <3>2. Amount \cup {0} \subseteq Nat
          BY WalletAmounts
    <3> QED BY <3>1, <3>2 DEF NativeRecord
  <2>2. ASSUME NEW r \in S PROVE r \in Counted(c) /\ native[r].amount = row[r].amount
    <3>1. r \in Key /\ row[r] # None /\ r \in Refunds(c) /\ native[r].sent > native[r].refused
          BY <2>1 DEF Refunds, Key
    <3>2. native[r].amount = row[r].amount
          BY <3>1, <2>n DEF WalletInv, RowFacts
    <3>3. ~Dead(r)
          BY <3>1, <2>n DEF Dead, Pending
    <3>4. row[r].status # "rejected"
          BY <3>1, <3>3 DEF WalletInv, RowFacts
    <3> QED BY <3>1, <3>2, <3>4 DEF Counted
  <2>3. S \subseteq Counted(c) /\ S \in SUBSET Key /\ IsFiniteSet(S)
        BY <2>2, <2>r, FS_Subset
  <2>4. \A x \in S : native[x].amount \in Nat
        BY <2>3, <2>n
  <2>5. Added(native, S) = Total(AmountOf(native), S)
        BY <2>3, <2>4, AddedIs
  <2>6. Total(AmountOf(native), S) = Total(AmountOf(row), S)
    <3>1. \A x \in S : AmountOf(row)[x] \in Nat /\ AmountOf(native)[x] = AmountOf(row)[x]
          BY <2>2, <2>3, <2>r DEF AmountOf
    <3> QED BY <2>3, <3>1, TotalOfEqual
  <2>7. Total(AmountOf(row), S) <= Total(AmountOf(row), Counted(c))
        BY <2>3, <2>r, TotalOfPart
  <2>8. /\ Total(AmountOf(row), S) \in Nat /\ (S = {} => Total(AmountOf(row), S) = 0)
        /\ Total(AmountOf(row), Counted(c)) \in Nat
    <3>1. \A x \in S : AmountOf(row)[x] \in Nat
          BY <2>3, <2>r
    <3>2. \A x \in Counted(c) : AmountOf(row)[x] \in Nat
          BY <2>r
    <3> QED BY <2>3, <2>r, <3>1, <3>2, TotalUnfolds
  <2>9. ASSUME S # {}
        PROVE  native[c].applied = 1 /\ Total(AmountOf(row), S) <= native[c].amount
    <3>1. PICK r \in RefundKey : r \in Refunds(c) /\ row[r] # None /\ row[r].original = c
          BY <2>1, <2>9 DEF Refunds
    <3>2. Done(c)
          BY <3>1 DEF WalletInv, RefundFacts
    <3>3. Total(AmountOf(row), Counted(c)) <= row[c].amount
          BY <3>1 DEF Covered
    <3> QED BY <2>7, <2>8, <2>c, <2>n, <3>2, <3>3 DEF Done
  <2>10. Added(native, S) <= native[c].amount
         BY <2>5, <2>6, <2>8, <2>9, <2>c, <2>n
  <2> QED BY <2>1, <2>9, <2>10 DEF Added
<1> QED BY WalletInvariant, RefundsCovered, <1>1, PTL
=============================================================================
