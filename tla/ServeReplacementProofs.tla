----------------------- MODULE ServeReplacementProofs -----------------------
(***************************************************************************)
(* Proofs about ServeReplacement for any number of switches, handlers and   *)
(* exclusive writers. The argument has three strands: the lineage of the    *)
(* deliveries (who may still become current), the mounts (why a displaced   *)
(* writer is down) and the closeout (why nothing comes up again).           *)
(***************************************************************************)
EXTENDS ServeReplacement, FiniteSetTheorems, TLAPS

-----------------------------------------------------------------------------
(* The inductive invariant.                                                 *)

Admitted(d) == row[d].op \in {"admitted", "succeeded"}

AdmittedSwitches == {r \in Switch : Admitted(r)}

\* An epoch is one above the epoch of a delivery that was admitted before.
EpochsFit ==
    \A d \in Delivery : row[d].epoch <= 1 + Cardinality(AdmittedSwitches)

\* What the rows, the recorded intents and the executor say of one delivery.
Fits(d) ==
    /\ d = Original => row[d].op = "succeeded"
    /\ Admitted(d) => row[d].status # "none"
    /\ ~Admitted(d) => /\ row[d].status = "none" /\ row[d].prev = None
                       /\ \A k \in {"start", "stop", "resume", "terminate"} : action[k][d] = "none"
    /\ row[d].op = "admitted" => row[d].status \in Open
    /\ row[d].op = "accepted" => d \notin Rollback
    /\ row[d].inst = "terminated" => Retiring(d)
    /\ d \in Switch /\ Admitted(d) =>
         /\ row[d].prev \in Delivery
         /\ Admitted(row[d].prev) /\ row[row[d].prev].epoch < row[d].epoch
    /\ action["start"][d] = "none" => app[d] = "absent"
    /\ action["terminate"][d] = "confirmed" \/ action["retire"][d] = "confirmed" => app[d] = "absent"
    /\ action["resume"][d] # "none" => action["terminate"][d] = "confirmed"
    /\ app[d] \in {"removing", "clearing"} => Retiring(d)

Undecided(r) ==
    row[r].op = "accepted" \/ (row[r].op = "admitted" /\ row[r].inst # "terminated")

\* Who may still become current.
Lineage ==
    /\ \A q, r \in Switch : Undecided(q) /\ Undecided(r) => q = r
    /\ \A d, e \in Delivery :
         /\ d # e /\ Admitted(d) /\ Admitted(e) /\ row[d].epoch = row[e].epoch =>
              \/ row[d].op = "admitted" /\ Retiring(d)
              \/ row[e].op = "admitted" /\ Retiring(e)
         /\ d \in Current /\ row[e].op = "succeeded" /\ d # e => row[e].epoch < row[d].epoch
         /\ row[d].op = "admitted" /\ ~Retiring(d) =>
              /\ e \in Current => e = row[d].prev
              /\ row[e].op = "succeeded" => row[e].epoch < row[d].epoch

Down(d) ==
    ~HoldsMount(d) \/ \E q \in Switch : row[q].prev = d /\ action["resume"][q] # "none"

\* Why a displaced writer is down.
Mounts ==
    \A r \in Switch :
        row[r].prev # None =>
          /\ action["stop"][r] = "confirmed" => Down(row[r].prev)
          /\ app[r] # "absent" /\ Exclusive(r, row[r].prev) => action["stop"][r] = "confirmed"

\* What the closeout fences.
Closing ==
    /\ closed => lock = None
    /\ \A d \in Delivery : action["retire"][d] # "none" <=> closed /\ Admitted(d)
    /\ action["retire"][Original] = "confirmed" => Unretired = {}

\* What a call of a switch relies on.
Handles(h) ==
    LET r == run[h].switch IN
    run[h].at # "idle" =>
      /\ r \in Switch
      /\ run[h].at # "admit" => Admitted(r)
      /\ run[h].at \notin {"admit", "accept"} => action["start"][r] # "none"
      /\ run[h].at \in {"lock", "call", "confirm", "record"} =>
           /\ run[h].doing \in {"stop", "resume"}
           /\ run[h].doing = "resume" => action["terminate"][r] = "confirmed"
      /\ run[h].at \in {"call", "confirm", "record"} => action[run[h].doing][r] # "none"
      /\ run[h].at = "confirm" /\ run[h].doing = "stop" => Down(row[r].prev)
      /\ run[h].at = "record" /\ run[h].doing = "stop" => action["stop"][r] = "confirmed"
      /\ run[h].at = "start" /\ Exclusive(r, row[r].prev) => action["stop"][r] = "confirmed"
      /\ run[h].at = "observe" => ~Retiring(r) /\ ~StaleEpoch(r) /\ app[r] # "absent"
      /\ run[h].at \in {"remove", "removed", "clear"} => action["terminate"][r] # "none"
      /\ run[h].at = "removed" => app[r] = "absent"
      /\ run[h].at = "clear" => action["terminate"][r] = "confirmed"

ServeInv ==
    /\ ServeTypeOK
    /\ EpochsFit
    /\ \A d \in Delivery : Fits(d)
    /\ Lineage
    /\ Mounts
    /\ Closing
    /\ \A h \in Handler : Handles(h)

-----------------------------------------------------------------------------
(* The parts of the type invariant.                                         *)

Row == [status : Open \cup {"none", "active", "superseded"},
        inst   : {"none", "pending", "starting", "ready", "failed", "stopped", "terminated"},
        op     : {"none", "accepted", "admitted", "succeeded"},
        epoch  : 0..(1 + Cardinality(Switch)),
        prev   : Delivery \cup {None},
        want   : Delivery \cup {None}]
Result == {"none", "unknown", "confirmed"}
App == {"absent", "starting", "ready", "failed", "draining", "suspended", "removing", "clearing"}
Held == {"call", "confirm", "record", "observe"}
At == {"idle", "admit", "accept", "lock", "call", "confirm", "record", "start",
       "observe", "readback", "retire", "remove", "removed", "clear"}
Run == [at : At, switch : Switch \cup {None}, doing : {"stop", "resume", None}]

\* The type invariant part by part. The handler that holds the lock is the one
\* that stands where the lock is needed.
LEMMA TypeParts ==
    ServeTypeOK <=>
      /\ row \in [Delivery -> Row]
      /\ action \in [Kind -> [Delivery -> Result]]
      /\ app \in [Delivery -> App]
      /\ route \in Delivery \cup {None}
      /\ closed \in BOOLEAN
      /\ lock \in Handler \cup {None}
      /\ run \in [Handler -> Run]
      /\ \A h \in Handler : run[h].at \in Held <=> lock = h
  BY DEF ServeTypeOK, Row, Result, App, Run, At, Held, Holder

\* The same of the next state.
LEMMA TypePartsNext ==
    ServeTypeOK' <=>
      /\ row' \in [Delivery -> Row]
      /\ action' \in [Kind -> [Delivery -> Result]]
      /\ app' \in [Delivery -> App]
      /\ route' \in Delivery \cup {None}
      /\ closed' \in BOOLEAN
      /\ lock' \in Handler \cup {None}
      /\ run' \in [Handler -> Run]
      /\ \A h \in Handler : run'[h].at \in Held <=> lock' = h
  BY DEF ServeTypeOK, Row, Result, App, Run, At, Held, Holder

\* What a row, an intent, an application and a call are.
LEMMA TypeFacts ==
    ASSUME ServeTypeOK
    PROVE  /\ \A d \in Delivery : /\ row[d] \in Row /\ app[d] \in App
                                  /\ row[d].epoch \in Nat
                                  /\ row[d].prev \in Delivery \cup {None}
                                  /\ row[d].op \in {"none", "accepted", "admitted", "succeeded"}
           /\ \A k \in Kind, d \in Delivery : action[k][d] \in Result
           /\ \A h \in Handler : run[h] \in Run /\ run[h].at \in At
  <1>1. /\ row \in [Delivery -> Row] /\ app \in [Delivery -> App] /\ run \in [Handler -> Run]
        /\ action \in [Kind -> [Delivery -> Result]]
        BY TypeParts
  <1>2. Cardinality(Switch) \in Nat
        BY SwitchAssumption, FS_CardinalityType
  <1>3. \A x \in Row : /\ x.epoch \in Nat /\ x.prev \in Delivery \cup {None}
                       /\ x.op \in {"none", "accepted", "admitted", "succeeded"}
        BY <1>2 DEF Row
  <1> QED BY <1>1, <1>3 DEF Run

\* At first there is only the original delivery.
LEMMA InitServeInv == Init => ServeInv
  <1> SUFFICES ASSUME Init PROVE ServeInv
      OBVIOUS
  <1>k. Cardinality(Switch) \in Nat
        BY SwitchAssumption, FS_CardinalityType
  <1>1. ServeTypeOK
    <2>1. row \in [Delivery -> Row]
          BY <1>k, SwitchAssumption DEF Init, Row, Open, Delivery
    <2>2. action \in [Kind -> [Delivery -> Result]] /\ app \in [Delivery -> App]
          BY DEF Init, Result, App
    <2>3. run \in [Handler -> Run] /\ \A h \in Handler : run[h].at \in Held <=> lock = h
          BY SwitchAssumption DEF Init, Run, Idle, At, Held
    <2> QED BY <2>1, <2>2, <2>3, TypeParts DEF Init, Delivery
  <1>2. EpochsFit
    <2>1. AdmittedSwitches = {}
          BY SwitchAssumption DEF AdmittedSwitches, Admitted, Init, Delivery
    <2>2. \A d \in Delivery : row[d].epoch <= 1
          BY DEF Init
    <2> QED BY <2>1, <2>2, FS_EmptySet DEF EpochsFit
  <1>3. ASSUME NEW d \in Delivery PROVE Fits(d)
        BY SwitchAssumption DEF Init, Fits, Admitted, Kind, Delivery
  <1>4. Lineage
        BY SwitchAssumption DEF Init, Lineage, Undecided, Admitted, Current, Delivery
  <1>5. Mounts
        BY SwitchAssumption DEF Init, Mounts, Delivery
  <1>6. Closing
        BY DEF Init, Closing, Kind, Delivery
  <1>7. \A h \in Handler : Handles(h)
        BY DEF Init, Handles, Idle
  <1> QED BY <1>1, <1>2, <1>3, <1>4, <1>5, <1>6, <1>7 DEF ServeInv

-----------------------------------------------------------------------------
(* What most steps leave alone.                                             *)

\* No delivery is admitted, becomes current or is decided otherwise.
KeepsLineage ==
    \A d \in Delivery :
        /\ row'[d].op = row[d].op /\ row'[d].epoch = row[d].epoch /\ row'[d].prev = row[d].prev
        /\ row'[d].status = "active" => row[d].status = "active"
        /\ row[d].inst = "terminated" => row'[d].inst = "terminated"
        /\ Retiring(d) => Retiring(d)'

\* Then who may become current stays as it was.
LEMMA LineageKept ==
    ASSUME ServeInv, KeepsLineage
    PROVE  Lineage' /\ EpochsFit'
  <1>1. \A d \in Delivery : Admitted(d)' <=> Admitted(d)
        BY DEF KeepsLineage, Admitted
  <1>2. AdmittedSwitches' = AdmittedSwitches
        BY <1>1 DEF AdmittedSwitches, Delivery
  <1>3. EpochsFit'
        BY <1>2 DEF ServeInv, EpochsFit, KeepsLineage
  <1>4. \A d \in Delivery : d \in Current' => d \in Current
        BY DEF KeepsLineage, Current
  <1>5. \A r \in Switch : Undecided(r)' => Undecided(r)
        BY DEF KeepsLineage, Undecided, Delivery
  <1> QED BY <1>1, <1>3, <1>4, <1>5 DEF ServeInv, Lineage, KeepsLineage

\* No switch is admitted, no application comes up and no stop is confirmed.
KeepsMounts ==
    /\ \A r \in Switch :
         /\ row'[r].prev = row[r].prev
         /\ action'["stop"][r] = "confirmed" <=> action["stop"][r] = "confirmed"
         /\ action["resume"][r] # "none" => action'["resume"][r] # "none"
         /\ app'[r] # "absent" => app[r] # "absent"
    /\ \A d \in Delivery :
         HoldsMount(d)' => \/ HoldsMount(d)
                           \/ \E q \in Switch : row[q].prev = d /\ action["resume"][q] # "none"

\* Then a writer that is down stays down.
LEMMA MountsKept ==
    ASSUME ServeInv, KeepsMounts
    PROVE  Mounts' /\ \A d \in Delivery : Down(d) => Down(d)'
  <1>1. \A d \in Delivery : Down(d) => Down(d)'
        BY DEF KeepsMounts, Down
  <1>2. \A r \in Switch : row[r].prev \in Delivery \cup {None}
        BY TypeFacts DEF ServeInv, Delivery
  <1> QED BY <1>1, <1>2 DEF ServeInv, Mounts, KeepsMounts

\* A delivery that some switch was admitted to replace.
Displaced(d) == \E q \in Switch : Admitted(q) /\ row[q].prev = d

\* What is recorded is not taken back.
Grows ==
    \A d \in Delivery :
        /\ Admitted(d) => Admitted(d)' /\ row'[d].prev = row[d].prev
        /\ \A k \in Kind : /\ action[k][d] # "none" => action'[k][d] # "none"
                           /\ action[k][d] = "confirmed" => action'[k][d] = "confirmed"
        /\ Displaced(d) /\ Down(d) => Down(d)'
        /\ action["terminate"][d] # "none" /\ app[d] = "absent" => app'[d] = "absent"

\* An observation that is under way can end as it began.
ObserverKept(g) ==
    \A r \in Switch :
        run[g].at = "observe" /\ run[g].switch = r => ~Retiring(r)' /\ ~StaleEpoch(r)' /\ app'[r] # "absent"

\* Then a call that did not move still has what it relies on.
LEMMA OtherHandlers ==
    ASSUME ServeInv, Grows, NEW g \in Handler, run'[g] = run[g], ObserverKept(g)
    PROVE  Handles(g)'
  <1>1. CASE run[g].at = "idle"
        BY <1>1 DEF Handles
  <1>2. CASE run[g].at # "idle"
    <2>1. PICK r \in Switch : r = run[g].switch
          BY <1>2 DEF ServeInv, Handles
    <2>2. Handles(g) /\ r \in Delivery /\ row[r].prev \in Delivery \cup {None} /\ Fits(r)
          BY <2>1, TypeFacts DEF ServeInv, Delivery
    <2>3. r = run'[g].switch
          BY <2>1
    <2>p. PICK d : d = row[r].prev
          OBVIOUS
    <2>4. Admitted(r) => Admitted(r)' /\ row'[r].prev = d /\ (Down(d) => Down(d)')
          BY <2>2, <2>p DEF Grows, Fits, Displaced
    <2>5. /\ action["start"][r] # "none" => action'["start"][r] # "none"
          /\ action["terminate"][r] # "none" => action'["terminate"][r] # "none"
          /\ action["terminate"][r] = "confirmed" => action'["terminate"][r] = "confirmed"
          /\ action["stop"][r] = "confirmed" => action'["stop"][r] = "confirmed"
          /\ action["stop"][r] # "none" => action'["stop"][r] # "none"
          /\ action["resume"][r] # "none" => action'["resume"][r] # "none"
          /\ action["terminate"][r] # "none" /\ app[r] = "absent" => app'[r] = "absent"
          BY <2>2 DEF Grows, Kind
    <2>6. ObserverKept(g)
          OBVIOUS
    <2> QED BY <1>2, <2>1, <2>2, <2>3, <2>p, <2>4, <2>5, <2>6 DEF Handles, ObserverKept
  <1> QED BY <1>1, <1>2

\* Nothing is written of a delivery but what its caller saw.
SameDelivery(d) ==
    /\ row'[d].op = row[d].op /\ row'[d].status = row[d].status /\ row'[d].inst = row[d].inst
    /\ row'[d].prev = row[d].prev /\ row'[d].epoch = row[d].epoch
    /\ app'[d] = app[d] /\ \A k \in Kind : action'[k][d] = action[k][d]

AdmittedStay ==
    \A e \in Delivery : Admitted(e) => Admitted(e)' /\ row'[e].epoch = row[e].epoch

\* Then it fits as before.
LEMMA OtherFits ==
    ASSUME ServeInv, NEW d \in Delivery, SameDelivery(d), AdmittedStay
    PROVE  Fits(d)'
  <1>1. Fits(d) /\ row[d].prev \in Delivery \cup {None}
        BY TypeFacts DEF ServeInv
  <1>2. PICK e : e = row[d].prev /\ e = row'[d].prev
        BY DEF SameDelivery
  <1>3. e \in Delivery /\ Admitted(e) => Admitted(e)' /\ row'[e].epoch = row[e].epoch
        BY DEF AdmittedStay
  <1>4. /\ Admitted(d)' <=> Admitted(d)
        /\ Retiring(d)' <=> Retiring(d)
        BY DEF SameDelivery, Admitted, Retiring, Kind
  <1> QED BY <1>1, <1>2, <1>3, <1>4 DEF Fits, SameDelivery, Kind

-----------------------------------------------------------------------------
(* A call that moves, and the lock.                                         *)

\* The lock is kept, taken or let go where the call's place says so.
LockFits(h, x) ==
    \/ lock' = lock /\ (x.at \in Held <=> run[h].at \in Held)
    \/ lock' = h /\ lock = None /\ x.at \in Held
    \/ lock' = (IF lock = h THEN None ELSE lock) /\ x.at \notin Held

\* Then the lock is where it must be.
LEMMA CallMoves ==
    ASSUME ServeTypeOK, NEW h \in Handler, NEW x \in Run, run' = [run EXCEPT ![h] = x], LockFits(h, x)
    PROVE  /\ run' \in [Handler -> Run] /\ lock' \in Handler \cup {None}
           /\ run'[h] = x /\ \A g \in Handler \ {h} : run'[g] = run[g]
           /\ \A g \in Handler : run'[g].at \in Held <=> lock' = g
  <1>1. /\ run \in [Handler -> Run] /\ lock \in Handler \cup {None}
        /\ \A g \in Handler : run[g].at \in Held <=> lock = g
        BY TypeParts
  <1>2. run' \in [Handler -> Run] /\ run'[h] = x /\ \A g \in Handler \ {h} : run'[g] = run[g]
        BY <1>1
  <1>3. lock' \in Handler \cup {None} /\ (x.at \in Held <=> lock' = h)
        BY <1>1, SwitchAssumption DEF LockFits
  <1>4. ASSUME NEW g \in Handler \ {h} PROVE run'[g].at \in Held <=> lock' = g
    <2>1. lock' = g <=> lock = g
          BY <1>1, SwitchAssumption DEF LockFits
    <2> QED BY <1>1, <1>2, <2>1
  <1> QED BY <1>2, <1>3, <1>4

\* A call at the places of the model.
LEMMA CallPlaces ==
    ASSUME ServeTypeOK, NEW h \in Handler
    PROVE  /\ Idle \in Run
           /\ \A p \in At : [run[h] EXCEPT !.at = p] \in Run
           /\ \A p \in At, c \in {"stop", "resume", None} : [run[h] EXCEPT !.at = p, !.doing = c] \in Run
           /\ \A r \in Switch : [at |-> "admit", switch |-> r, doing |-> None] \in Run
  <1>1. run[h] \in Run
        BY TypeParts
  <1> QED BY <1>1 DEF Run, Idle, At

\* The invariant from its parts, for a call that moved.
LEMMA Combine ==
    ASSUME ServeInv, ServeTypeOK', \A d \in Delivery : Fits(d)', Lineage', EpochsFit', Mounts', Closing',
           Grows, NEW h \in Handler, Handles(h)',
           \A g \in Handler \ {h} : run'[g] = run[g] /\ ObserverKept(g)
    PROVE  ServeInv'
  <1>1. \A g \in Handler : Handles(g)'
        BY OtherHandlers
  <1> QED BY <1>1 DEF ServeInv

\* A call that moves and writes nothing.
LEMMA CallStep ==
    ASSUME ServeInv, NEW h \in Handler, NEW x \in Run, run' = [run EXCEPT ![h] = x], LockFits(h, x),
           row' \in [Delivery -> Row], UNCHANGED <<action, app, route, closed>>,
           \A d \in Delivery : SameDelivery(d), closed => lock' = None, Handles(h)'
    PROVE  ServeInv'
  <1>t. ServeTypeOK
        BY DEF ServeInv
  <1>1. /\ run' \in [Handler -> Run] /\ lock' \in Handler \cup {None}
        /\ \A g \in Handler \ {h} : run'[g] = run[g]
        /\ \A g \in Handler : run'[g].at \in Held <=> lock' = g
        BY <1>t, CallMoves
  <1>2. ServeTypeOK'
        BY <1>t, <1>1, TypeParts, TypePartsNext
  <1>3. AdmittedStay
        BY DEF AdmittedStay, SameDelivery, Admitted
  <1>4. \A d \in Delivery : Fits(d)'
        BY <1>3, OtherFits
  <1>5. KeepsLineage
        BY DEF KeepsLineage, SameDelivery, Retiring
  <1>6. KeepsMounts
        BY DEF KeepsMounts, SameDelivery, HoldsMount, Delivery
  <1>7. Closing'
    <2>1. \A d \in Delivery : Admitted(d)' <=> Admitted(d)
          BY DEF SameDelivery, Admitted
    <2>2. Unretired' = Unretired
          BY DEF Unretired
    <2> QED BY <2>1, <2>2 DEF ServeInv, Closing
  <1>8. Grows
        BY <1>6, MountsKept DEF Grows, SameDelivery, Admitted
  <1>9. ASSUME NEW g \in Handler PROVE ObserverKept(g)
    <2>1. \A r \in Delivery : StaleEpoch(r)' => StaleEpoch(r)
          BY DEF StaleEpoch, SameDelivery
    <2>2. Handles(g)
          BY DEF ServeInv
    <2> QED BY <2>1, <2>2 DEF Handles, ObserverKept, Retiring, Delivery
  <1> QED BY <1>1, <1>2, <1>4, <1>5, <1>6, <1>7, <1>8, <1>9, LineageKept, MountsKept, Combine

\* The same with the rows as they are.
LEMMA QuietStep ==
    ASSUME ServeInv, NEW h \in Handler, NEW x \in Run, run' = [run EXCEPT ![h] = x], LockFits(h, x),
           UNCHANGED <<row, action, app, route, closed>>, closed => lock' = None, Handles(h)'
    PROVE  ServeInv'
  <1>1. row' \in [Delivery -> Row]
        BY TypeParts DEF ServeInv
  <1>2. \A d \in Delivery : SameDelivery(d)
        BY DEF SameDelivery
  <1> QED BY <1>1, <1>2, CallStep

\* A call that ends without writing.
LEMMA ReturnStep ==
    ASSUME ServeInv, NEW h \in Handler, Return(h), UNCHANGED <<row, action, app, route, closed>>,
           lock' = IF lock = h THEN None ELSE lock
    PROVE  ServeInv'
  <1>t. ServeTypeOK /\ run \in [Handler -> Run] /\ Idle \in Run
        BY TypeParts, CallPlaces DEF ServeInv
  <1>1. run' = [run EXCEPT ![h] = Idle] /\ run'[h] = Idle
        BY <1>t DEF Return
  <1>2. LockFits(h, Idle)
        BY DEF LockFits, Idle, Held
  <1>3. Handles(h)'
        BY <1>1 DEF Handles, Idle
  <1>4. closed => lock' = None
        BY DEF ServeInv, Closing
  <1> QED BY <1>t, <1>1, <1>2, <1>3, <1>4, QuietStep

\* Calls that begin, are refused, go on with what they own or break.
LEMMA AdmissionCalls ==
    ASSUME ServeInv, NEW h \in Handler,
           \/ \E r \in Switch : Request(h, r)
           \/ RefuseReplacement(h) \/ ReplayReplacement(h) \/ ReadBack(h) \/ Break(h)
    PROVE  ServeInv'
  <1>t. /\ ServeTypeOK /\ run \in [Handler -> Run] /\ row \in [Delivery -> Row] /\ Handles(h)
        /\ (run[h].at \in Held <=> lock = h) /\ (closed => lock = None)
        BY TypeParts DEF ServeInv, Closing
  <1>1. ASSUME NEW r \in Switch, Request(h, r) PROVE ServeInv'
    <2>1. PICK x : x = [at |-> "admit", switch |-> r, doing |-> None]
          OBVIOUS
    <2>2. x \in Run /\ run' = [run EXCEPT ![h] = x] /\ UNCHANGED <<action, app, route, closed, lock>>
          BY <1>t, <1>1, <2>1, CallPlaces DEF Request
    <2>3. row' = row \/ \E d \in Delivery : row' = [row EXCEPT ![r].want = d]
          BY <1>1 DEF Request, Current
    <2>4. row' \in [Delivery -> Row]
          BY <1>t, <2>3 DEF Row, Delivery
    <2>5. \A d \in Delivery : SameDelivery(d)
      <3>1. ASSUME NEW d \in Delivery, NEW e \in Delivery, row' = [row EXCEPT ![r].want = e]
            PROVE  SameDelivery(d)
        <4>1. row[r] \in Row /\ row[d] \in Row
              BY <1>t DEF Delivery
        <4> QED BY <1>t, <2>2, <3>1, <4>1 DEF SameDelivery, Row
      <3>2. row' = row => \A d \in Delivery : SameDelivery(d)
            BY <2>2 DEF SameDelivery
      <3> QED BY <2>3, <3>1, <3>2
    <2>6. LockFits(h, x)
          BY <1>1, <2>1, <2>2 DEF Request, LockFits, Held
    <2>7. Handles(h)'
          BY <1>t, <2>1, <2>2 DEF Handles
    <2> QED BY <1>t, <2>2, <2>4, <2>5, <2>6, <2>7, CallStep
  <1>2. CASE RefuseReplacement(h) \/ Break(h)
    <2>1. /\ Return(h) /\ UNCHANGED <<row, action, app, route, closed>>
          /\ lock' = IF lock = h THEN None ELSE lock
          BY <1>2, SwitchAssumption DEF RefuseReplacement, Break
    <2> QED BY <2>1, ReturnStep
  <1>3. CASE ReplayReplacement(h)
    <2>1. PICK x : x = [run[h] EXCEPT !.at = "accept"]
          OBVIOUS
    <2>2. x \in Run /\ run' = [run EXCEPT ![h] = x] /\ UNCHANGED <<row, action, app, route, closed, lock>>
          BY <1>t, <1>3, <2>1, CallPlaces DEF ReplayReplacement, Step, At
    <2>3. run'[h].at = "accept" /\ run'[h].switch = run[h].switch /\ run[h].at = "admit"
          BY <1>t, <1>3, <2>1, <2>2 DEF ReplayReplacement, Run
    <2>4. LockFits(h, x)
          BY <1>t, <2>1, <2>2, <2>3 DEF LockFits, Held
    <2>5. Handles(h)'
          BY <1>t, <1>3, <2>2, <2>3 DEF Handles, ReplayReplacement, Admitted
    <2> QED BY <1>t, <2>2, <2>4, <2>5, QuietStep
  <1>4. CASE ReadBack(h)
    <2>1. CASE Return(h)
          BY <1>t, <1>4, <2>1, ReturnStep DEF ReadBack, Held
    <2>2. CASE Step(h, "retire")
      <3>1. PICK x : x = [run[h] EXCEPT !.at = "retire"]
            OBVIOUS
      <3>2. x \in Run /\ run' = [run EXCEPT ![h] = x] /\ UNCHANGED <<row, action, app, route, closed, lock>>
            BY <1>t, <1>4, <2>2, <3>1, CallPlaces DEF ReadBack, Step, At
      <3>3. run'[h].at = "retire" /\ run'[h].switch = run[h].switch /\ run[h].at = "readback"
            BY <1>t, <1>4, <3>1, <3>2 DEF ReadBack, Run
      <3>4. LockFits(h, x)
            BY <1>t, <3>1, <3>2, <3>3 DEF LockFits, Held
      <3>5. Handles(h)'
            BY <1>t, <3>2, <3>3 DEF Handles, Admitted
      <3> QED BY <1>t, <3>2, <3>4, <3>5, QuietStep
    <2> QED BY <1>4, <2>1, <2>2 DEF ReadBack
  <1> QED BY <1>1, <1>2, <1>3, <1>4

\* Only the handler that holds the lock observes.
LEMMA NoObserver ==
    ASSUME ServeTypeOK, NEW h \in Handler, lock \in {None, h}, NEW g \in Handler \ {h}
    PROVE  ObserverKept(g)
  <1>1. run[g].at # "observe"
        BY TypeParts, SwitchAssumption DEF Held
  <1> QED BY <1>1 DEF ObserverKept

\* A call that goes to another place.
LEMMA Stepped ==
    ASSUME ServeTypeOK, NEW h \in Handler, NEW p \in At, Step(h, p),
           \/ lock' = lock /\ (p \in Held <=> run[h].at \in Held)
           \/ lock' = h /\ lock = None /\ p \in Held
           \/ lock' = (IF lock = h THEN None ELSE lock) /\ p \notin Held
    PROVE  /\ run' \in [Handler -> Run] /\ lock' \in Handler \cup {None}
           /\ run'[h].at = p /\ run'[h].switch = run[h].switch /\ run'[h].doing = run[h].doing
           /\ \A g \in Handler \ {h} : run'[g] = run[g]
           /\ \A g \in Handler : run'[g].at \in Held <=> lock' = g
           /\ \E x \in Run : run' = [run EXCEPT ![h] = x] /\ LockFits(h, x)
  <1>1. PICK x : x = [run[h] EXCEPT !.at = p]
        OBVIOUS
  <1>2. run[h] \in Run /\ x \in Run /\ run' = [run EXCEPT ![h] = x]
        BY <1>1, CallPlaces, TypeParts DEF Step
  <1>3. x.at = p /\ x.switch = run[h].switch /\ x.doing = run[h].doing
        BY <1>1, <1>2 DEF Run
  <1>4. LockFits(h, x)
        BY <1>3 DEF LockFits
  <1> QED BY <1>2, <1>3, <1>4, CallMoves

\* A step that writes something about one delivery.
LEMMA WriteParts ==
    ASSUME ServeInv, NEW d \in Delivery, \A e \in Delivery \ {d} : SameDelivery(e),
           Fits(d)', KeepsLineage, \A e \in Delivery : Displaced(e) /\ Down(e) => Down(e)',
           \A k \in Kind : /\ action[k][d] # "none" => action'[k][d] # "none"
                           /\ action[k][d] = "confirmed" => action'[k][d] = "confirmed",
           action["terminate"][d] # "none" /\ app[d] = "absent" => app'[d] = "absent"
    PROVE  (\A e \in Delivery : Fits(e)' /\ (Admitted(e)' <=> Admitted(e))) /\ Lineage' /\ EpochsFit' /\ Grows
  <1>1. \A e \in Delivery : Admitted(e)' <=> Admitted(e)
        BY DEF KeepsLineage, Admitted
  <1>2. AdmittedStay
        BY <1>1 DEF AdmittedStay, KeepsLineage
  <1>3. \A e \in Delivery : Fits(e)'
        BY <1>2, OtherFits
  <1>4. Grows
    <2>1. ASSUME NEW e \in Delivery
          PROVE  /\ \A k \in Kind : /\ action[k][e] # "none" => action'[k][e] # "none"
                                    /\ action[k][e] = "confirmed" => action'[k][e] = "confirmed"
                 /\ action["terminate"][e] # "none" /\ app[e] = "absent" => app'[e] = "absent"
          BY DEF SameDelivery
    <2> QED BY <1>1, <2>1 DEF Grows, KeepsLineage
  <1> QED BY <1>1, <1>3, <1>4, LineageKept

\* Such a step of a call.
LEMMA WriteStep ==
    ASSUME ServeInv, ServeTypeOK', NEW d \in Delivery, \A e \in Delivery \ {d} : SameDelivery(e),
           Fits(d)', KeepsLineage, Mounts', \A e \in Delivery : Displaced(e) /\ Down(e) => Down(e)',
           \A k \in Kind : /\ action[k][d] # "none" => action'[k][d] # "none"
                           /\ action[k][d] = "confirmed" => action'[k][d] = "confirmed",
           action["terminate"][d] # "none" /\ app[d] = "absent" => app'[d] = "absent",
           closed' = closed, closed => lock' = None, action'["retire"] = action["retire"],
           NEW h \in Handler, Handles(h)',
           \A g \in Handler \ {h} : run'[g] = run[g] /\ ObserverKept(g)
    PROVE  ServeInv'
  <1>1. (\A e \in Delivery : Fits(e)' /\ (Admitted(e)' <=> Admitted(e))) /\ Lineage' /\ EpochsFit' /\ Grows
        BY WriteParts
  <1>2. Closing'
    <2>1. Unretired' = Unretired
          BY DEF Unretired
    <2> QED BY <1>1, <2>1 DEF ServeInv, Closing
  <1> QED BY <1>1, <1>2, Combine

\* The start is recorded.
LEMMA AcceptStartStep ==
    ASSUME ServeInv, NEW h \in Handler, AcceptStart(h)
    PROVE  ServeInv'
  <1>t. /\ ServeTypeOK /\ run \in [Handler -> Run] /\ row \in [Delivery -> Row] /\ Handles(h)
        /\ action \in [Kind -> [Delivery -> Result]]
        /\ (run[h].at \in Held <=> lock = h) /\ lock = None /\ run[h].at = "accept" /\ h # None
        BY TypeParts, SwitchAssumption DEF ServeInv, AcceptStart
  <1>r. PICK r \in Switch : r = run[h].switch /\ Admitted(r) /\ r \in Delivery /\ row[r] \in Row /\ Fits(r)
        BY <1>t DEF Handles, Delivery, ServeInv
  <1>u. UNCHANGED <<app, route, closed, lock>>
        BY DEF AcceptStart
  <1>1. CASE closed \/ Retiring(r)
    <2>1. Return(h) /\ UNCHANGED <<row, action>>
          BY <1>r, <1>1 DEF AcceptStart
    <2> QED BY <1>t, <1>u, <2>1, ReturnStep
  <1>2. CASE ~(closed \/ Retiring(r))
    <2>1. /\ action' = [action EXCEPT !["start"][r] = IF @ = "none" THEN "unknown" ELSE @]
          /\ row' = [row EXCEPT ![r].status = IF row[r].op = "succeeded" THEN @ ELSE "deploying"]
          /\ run' = [run EXCEPT ![h] = IF Exclusive(r, row[r].prev)
                                       THEN [@ EXCEPT !.at = "lock", !.doing = "stop"]
                                       ELSE [@ EXCEPT !.at = "start"]]
          BY <1>r, <1>2 DEF AcceptStart
    <2>2. PICK x \in Run : /\ run' = [run EXCEPT ![h] = x] /\ x.switch = r
                           /\ \/ x.at = "lock" /\ x.doing = "stop"
                              \/ x.at = "start" /\ ~Exclusive(r, row[r].prev)
      <3>1. run[h] \in Run /\ {"lock", "start"} \subseteq At
            BY <1>t DEF At
      <3>2. CASE Exclusive(r, row[r].prev)
        <4>1. PICK x : x = [run[h] EXCEPT !.at = "lock", !.doing = "stop"]
              OBVIOUS
        <4>2. x \in Run /\ run' = [run EXCEPT ![h] = x]
              BY <1>t, <2>1, <3>1, <3>2, <4>1, CallPlaces
        <4> QED BY <1>r, <3>1, <4>1, <4>2 DEF Run
      <3>3. CASE ~Exclusive(r, row[r].prev)
        <4>1. PICK x : x = [run[h] EXCEPT !.at = "start"]
              OBVIOUS
        <4>2. x \in Run /\ run' = [run EXCEPT ![h] = x]
              BY <1>t, <2>1, <3>1, <3>3, <4>1, CallPlaces
        <4> QED BY <1>r, <3>1, <3>3, <4>1, <4>2 DEF Run
      <3> QED BY <3>2, <3>3
    <2>3. LockFits(h, x)
          BY <1>t, <1>u, <2>2 DEF LockFits, Held
    <2>4. /\ run' \in [Handler -> Run] /\ run'[h] = x /\ \A g \in Handler \ {h} : run'[g] = run[g]
          /\ \A g \in Handler : run'[g].at \in Held <=> lock' = g
          BY <1>t, <2>2, <2>3, CallMoves
    <2>5. /\ action' \in [Kind -> [Delivery -> Result]]
          /\ action'["start"][r] # "none"
          /\ action["start"][r] = "confirmed" => action'["start"][r] = "confirmed"
          /\ \A k \in Kind, d \in Delivery : k # "start" \/ d # r => action'[k][d] = action[k][d]
          /\ action'["retire"] = action["retire"]
          BY <1>t, <1>r, <2>1 DEF Kind, Result
    <2>6. /\ row' \in [Delivery -> Row]
          /\ \A d \in Delivery \ {r} : row'[d] = row[d]
          /\ row'[r].op = row[r].op /\ row'[r].inst = row[r].inst /\ row'[r].epoch = row[r].epoch
          /\ row'[r].prev = row[r].prev
          /\ row'[r].status = IF row[r].op = "succeeded" THEN row[r].status ELSE "deploying"
          BY <1>t, <1>r, <2>1 DEF Row, Open
    <2>7. ServeTypeOK'
          BY <1>t, <1>u, <2>4, <2>5, <2>6, TypeParts, TypePartsNext
    <2>8. \A e \in Delivery \ {r} : SameDelivery(e)
          BY <1>u, <2>5, <2>6 DEF SameDelivery
    <2>9. \A e \in Delivery : Retiring(e)' <=> Retiring(e)
          BY <2>5 DEF Retiring, Kind
    <2>10. KeepsLineage
          BY <2>6, <2>9 DEF KeepsLineage
    <2>11. KeepsMounts
          BY <1>u, <2>5, <2>6 DEF KeepsMounts, HoldsMount, Delivery, Kind
    <2>12. Fits(r)'
      <3>1. PICK e : e = row[r].prev /\ e \in Delivery /\ Admitted(e) /\ row[e].epoch < row[r].epoch
            BY <1>r DEF Fits
      <3>2. /\ Admitted(e)' /\ row'[e].epoch < row'[r].epoch /\ e = row'[r].prev
            /\ Admitted(r)' /\ row'[r].status # "none"
            BY <1>r, <2>6, <2>10, <3>1 DEF KeepsLineage, Admitted, Fits
      <3>3. row'[r].op = "admitted" => row'[r].status \in Open
            BY <2>6 DEF Open
      <3> QED BY <1>r, <1>u, <2>5, <2>6, <2>9, <3>1, <3>2, <3>3, SMTT(30) DEF Fits, Kind, Admitted
    <2>13. Handles(h)'
      <3>1. Admitted(r)'
            BY <1>r, <2>6 DEF Admitted
      <3> QED BY <1>r, <2>2, <2>4, <2>5, <2>6, <3>1 DEF Handles
    <2>14. \A k \in Kind : /\ action[k][r] # "none" => action'[k][r] # "none"
                           /\ action[k][r] = "confirmed" => action'[k][r] = "confirmed"
          BY <1>r, <2>5
    <2> QED BY <1>t, <1>r, <1>u, <1>2, <2>4, <2>5, <2>7, <2>8, <2>10, <2>11, <2>12, <2>13, <2>14,
               MountsKept, NoObserver, WriteStep
  <1> QED BY <1>1, <1>2

-----------------------------------------------------------------------------
(* The writer that a switch displaces.                                      *)

\* A call that is over, or goes on to the start.
LEMMA Released ==
    ASSUME ServeTypeOK, NEW h \in Handler, Return(h) \/ AfterStop(h), lock' = IF lock = h THEN None ELSE lock
    PROVE  /\ run' \in [Handler -> Run] /\ lock' \in Handler \cup {None}
           /\ \A g \in Handler \ {h} : run'[g] = run[g]
           /\ \A g \in Handler : run'[g].at \in Held <=> lock' = g
           /\ Return(h) => run'[h].at = "idle"
           /\ AfterStop(h) => run'[h].at = "start" /\ run'[h].switch = run[h].switch
           /\ \E x \in Run : run' = [run EXCEPT ![h] = x] /\ LockFits(h, x)
  <1>t. run \in [Handler -> Run] /\ run[h] \in Run
        BY TypeParts
  <1>1. CASE Return(h)
    <2>1. Idle \in Run /\ run' = [run EXCEPT ![h] = Idle] /\ LockFits(h, Idle)
          BY <1>1, CallPlaces DEF Return, LockFits, Idle, Held
    <2>2. AfterStop(h) => run'[h].at = "start"
          BY <1>t DEF AfterStop, Run
    <2>3. run'[h] = Idle /\ Idle.at = "idle"
          BY <1>t, <2>1 DEF Idle
    <2> QED BY <2>1, <2>2, <2>3, CallMoves
  <1>2. CASE AfterStop(h)
    <2>1. PICK x : x = [run[h] EXCEPT !.at = "start", !.doing = None]
          OBVIOUS
    <2>2. x \in Run /\ x.at = "start" /\ x.switch = run[h].switch /\ run' = [run EXCEPT ![h] = x]
      <3>1. x \in Run /\ run' = [run EXCEPT ![h] = x]
            BY <1>2, <2>1, CallPlaces DEF AfterStop, At
      <3>2. x.at = "start" /\ x.switch = run[h].switch
            BY <1>t, <2>1 DEF Run
      <3> QED BY <3>1, <3>2
    <2>3. LockFits(h, x)
          BY <2>2 DEF LockFits, Held
    <2>4. run'[h] = x
          BY <1>t, <2>2
    <2>5. Return(h) => run'[h].at = "idle"
          BY <1>t DEF Return, Idle
    <2> QED BY <2>2, <2>3, <2>4, <2>5, CallMoves
  <1> QED BY <1>1, <1>2

\* A call in the middle of a stop or a restore: its switch and its writer.
LEMMA Transition ==
    ASSUME ServeInv, NEW h \in Handler, run[h].at \in {"lock", "call", "confirm", "record"}
    PROVE  /\ run[h].switch \in Switch /\ run[h].switch \in Delivery
           /\ Admitted(run[h].switch) /\ Writer(h) \in Delivery
           /\ run[h].doing \in {"stop", "resume"}
  <1>1. Handles(h)
        BY DEF ServeInv
  <1>2. PICK r \in Switch : r = run[h].switch /\ Admitted(r)
        BY <1>1 DEF Handles
  <1>3. Fits(r) /\ r \in Delivery
        BY DEF ServeInv, Delivery
  <1> QED BY <1>1, <1>2, <1>3 DEF Handles, Fits, Writer

\* A call in the middle of them writes about one of its deliveries.
LEMMA LockStep ==
    ASSUME ServeInv, NEW h \in Handler, LockTransition(h)
    PROVE  ServeInv'
  <1>t. /\ ServeTypeOK /\ row \in [Delivery -> Row] /\ Handles(h) /\ run[h].at = "lock" /\ lock = None
        /\ action \in [Kind -> [Delivery -> Result]] /\ h # None
        BY TypeParts, SwitchAssumption DEF ServeInv, LockTransition
  <1>r. PICK r \in Switch : /\ r = run[h].switch /\ r \in Delivery /\ Admitted(r) /\ Fits(r)
                            /\ action["start"][r] # "none"
        BY <1>t, Transition DEF ServeInv, Handles
  <1>c. PICK c \in {"stop", "resume"} : c = run[h].doing /\ (c = "resume" => action["terminate"][r] = "confirmed")
        BY <1>t, <1>r, Transition DEF Handles
  <1>u. UNCHANGED <<row, app, route, closed>>
        BY DEF LockTransition
  <1>1. CASE closed \/ Retiring(Writer(h))
    <2>1. Return(h) /\ UNCHANGED <<action, lock>>
          BY <1>1 DEF LockTransition
    <2> QED BY <1>t, <1>u, <2>1, ReturnStep
  <1>2. CASE ~(closed \/ Retiring(Writer(h))) /\ c = "stop" /\ action["stop"][r] = "confirmed"
    <2>1. AfterStop(h) /\ UNCHANGED <<action, lock>>
          BY <1>r, <1>c, <1>2 DEF LockTransition
    <2>2. /\ run'[h].at = "start" /\ run'[h].switch = r
          /\ \E x \in Run : run' = [run EXCEPT ![h] = x] /\ LockFits(h, x)
          BY <1>t, <1>r, <2>1, Released
    <2>3. Handles(h)'
          BY <1>r, <1>u, <1>2, <2>1, <2>2 DEF Handles, Admitted
    <2> QED BY <1>t, <1>u, <2>1, <2>2, <2>3, QuietStep
  <1>3. CASE ~(closed \/ Retiring(Writer(h))) /\ ~(c = "stop" /\ action["stop"][r] = "confirmed")
    <2>1. /\ action' = [action EXCEPT ![c][r] = IF @ = "none" THEN "unknown" ELSE @]
          /\ lock' = h
          /\ Step(h, IF action[c][r] = "confirmed" THEN "record" ELSE "call")
          BY <1>r, <1>c, <1>3 DEF LockTransition
    <2>2. PICK p \in {"record", "call"} : Step(h, p) /\ (p = "record" => action[c][r] = "confirmed")
          BY <2>1
    <2>3. /\ run' \in [Handler -> Run] /\ lock' \in Handler \cup {None}
          /\ run'[h].at = p /\ run'[h].switch = r /\ run'[h].doing = c
          /\ \A g \in Handler \ {h} : run'[g] = run[g]
          /\ \A g \in Handler : run'[g].at \in Held <=> lock' = g
          BY <1>t, <1>r, <1>c, <2>1, <2>2, Stepped DEF At, Held
    <2>4. /\ action' \in [Kind -> [Delivery -> Result]]
          /\ action'[c][r] # "none"
          /\ action'[c][r] = "confirmed" <=> action[c][r] = "confirmed"
          /\ \A k \in Kind, d \in Delivery : k # c \/ d # r => action'[k][d] = action[k][d]
          /\ action'["retire"] = action["retire"]
      <3>1. c \in Kind /\ c # "retire" /\ "retire" \in Kind /\ action[c][r] \in Result
            BY <1>t, <1>r, <1>c DEF Kind
      <3>a. PICK v : v = IF action[c][r] = "none" THEN "unknown" ELSE action[c][r]
            OBVIOUS
      <3>b. action' = [action EXCEPT ![c][r] = v]
            BY <1>t, <1>r, <2>1, <3>1, <3>a
      <3>2. v \in Result \ {"none"} /\ (v = "confirmed" <=> action[c][r] = "confirmed")
            BY <3>1, <3>a DEF Result
      <3>3. /\ action' \in [Kind -> [Delivery -> Result]] /\ action'[c][r] = v
            /\ \A d \in Delivery \ {r} : action'[c][d] = action[c][d]
            /\ \A k \in Kind \ {c} : action'[k] = action[k]
            BY <1>t, <1>r, <3>1, <3>b, <3>2
      <3> QED BY <3>1, <3>2, <3>3
    <2>5. ServeTypeOK'
          BY <1>t, <1>u, <2>3, <2>4, TypeParts, TypePartsNext
    <2>6. \A e \in Delivery \ {r} : SameDelivery(e)
          BY <1>u, <2>4 DEF SameDelivery
    <2>7. \A e \in Delivery : Retiring(e)' <=> Retiring(e)
          BY <2>4 DEF Retiring, Kind
    <2>8. KeepsLineage
          BY <1>u, <2>7 DEF KeepsLineage
    <2>9. \A k \in Kind : /\ action[k][r] # "none" => action'[k][r] # "none"
                          /\ action[k][r] = "confirmed" <=> action'[k][r] = "confirmed"
          BY <1>r, <2>4
    <2>10. KeepsMounts
      <3>1. \A k \in {"stop", "resume"}, q \in Switch :
                /\ action[k][q] # "none" => action'[k][q] # "none"
                /\ action'[k][q] = "confirmed" <=> action[k][q] = "confirmed"
            BY <2>4, <2>9 DEF Kind, Delivery
      <3> QED BY <1>u, <3>1 DEF KeepsMounts, HoldsMount
    <2>11. Fits(r)'
      <3>1. /\ action'["start"][r] = action["start"][r] /\ action'["terminate"][r] = action["terminate"][r]
            /\ action'["retire"][r] = action["retire"][r]
            /\ action'["resume"][r] = action["resume"][r] \/ c = "resume"
            BY <1>r, <2>4 DEF Kind
      <3> QED BY <1>r, <1>c, <1>u, <2>7, <3>1 DEF Fits, Admitted
    <2>12. Handles(h)'
      <3>1. /\ action'["start"][r] # "none" /\ action'["terminate"][r] = action["terminate"][r]
            BY <1>r, <2>4 DEF Kind
      <3>2. p = "record" => c = "resume"
            BY <1>3, <2>2
      <3>3. Admitted(r)'
            BY <1>r, <1>u DEF Admitted
      <3> QED BY <1>r, <1>c, <2>3, <2>4, <3>1, <3>2, <3>3 DEF Handles
    <2> QED BY <1>t, <1>r, <1>u, <1>3, <2>3, <2>4, <2>5, <2>6, <2>8, <2>9, <2>10, <2>11, <2>12,
               MountsKept, NoObserver, WriteStep
  <1> QED BY <1>1, <1>2, <1>3

\* The executor is told.
LEMMA CallTransitionStep ==
    ASSUME ServeInv, NEW h \in Handler, CallTransition(h)
    PROVE  ServeInv'
  <1>t. /\ ServeTypeOK /\ app \in [Delivery -> App] /\ Handles(h) /\ run[h].at = "call" /\ lock = h /\ ~closed
        /\ h # None
        BY TypeParts, SwitchAssumption DEF ServeInv, CallTransition, Held, Closing
  <1>r. PICK r \in Switch : /\ r = run[h].switch /\ r \in Delivery /\ Admitted(r)
                            /\ action["start"][r] # "none"
        BY <1>t, Transition DEF Handles
  <1>d. PICK d \in Delivery : d = row[r].prev /\ d = Writer(h)
        BY <1>t, <1>r, Transition DEF Writer
  <1>c. PICK c \in {"stop", "resume"} :
            /\ c = run[h].doing /\ (c = "resume" => action["terminate"][r] = "confirmed")
            /\ action[c][r] # "none"
        BY <1>t, <1>r, Transition DEF Handles
  <1>u. UNCHANGED <<row, action, route, closed>> /\ app' = Scaled(d, c)
        BY <1>c, <1>d DEF CallTransition
  <1>1. /\ app' \in [Delivery -> App]
        /\ \A e \in Delivery \ {d} : app'[e] = app[e]
        /\ app'[d] = "absent" <=> app[d] = "absent"
        /\ app'[d] \in {"removing", "clearing"} => app[d] \in {"removing", "clearing"}
        /\ app[d] \in {"suspended", "absent"} /\ c = "stop" => app'[d] = app[d]
        /\ c = "stop" /\ app[d] \in {"absent", "suspended", "clearing"} => app'[d] = app[d]
        BY <1>t, <1>u DEF Scaled, App
  <1>2. \A e \in Delivery \ {d} : SameDelivery(e)
        BY <1>u, <1>1 DEF SameDelivery
  <1>3. KeepsLineage
        BY <1>u DEF KeepsLineage, Retiring
  <1>4. KeepsMounts
    <2>1. \A e \in Delivery : HoldsMount(e)' => \/ HoldsMount(e)
                                                \/ \E q \in Switch : row[q].prev = e /\ action["resume"][q] # "none"
      <3>1. c = "resume" => \E q \in Switch : row[q].prev = d /\ action["resume"][q] # "none"
            BY <1>c, <1>d
      <3> QED BY <1>1, <1>c, <3>1 DEF HoldsMount
    <2> QED BY <1>u, <1>1, <2>1 DEF KeepsMounts, Delivery
  <1>5. Fits(d)'
    <2>1. Fits(d)
          BY DEF ServeInv
    <2> QED BY <1>u, <1>1, <2>1 DEF Fits, Admitted, Retiring
  <1>6. /\ run' \in [Handler -> Run] /\ lock' \in Handler \cup {None} /\ Handles(h)'
        /\ \A g \in Handler \ {h} : run'[g] = run[g]
        /\ \A g \in Handler : run'[g].at \in Held <=> lock' = g
    <2>1. CASE Reached(d, c)
      <3>1. Step(h, "confirm") /\ lock' = lock
            BY <1>c, <1>d, <2>1 DEF CallTransition
      <3>2. /\ run' \in [Handler -> Run] /\ lock' \in Handler \cup {None}
            /\ run'[h].at = "confirm" /\ run'[h].switch = r /\ run'[h].doing = c
            /\ \A g \in Handler \ {h} : run'[g] = run[g]
            /\ \A g \in Handler : run'[g].at \in Held <=> lock' = g
            BY <1>t, <1>r, <1>c, <3>1, Stepped DEF At, Held
      <3>3. c = "stop" => Down(d)'
        <4>1. c = "stop" => ~HoldsMount(d)'
              BY <1>1, <2>1 DEF Reached, HoldsMount
        <4> QED BY <4>1 DEF Down
      <3>4. row'[r].prev = d /\ Admitted(r)'
            BY <1>d, <1>r, <1>u DEF Admitted
      <3>5. Handles(h)'
            BY <1>r, <1>c, <1>u, <3>2, <3>3, <3>4 DEF Handles
      <3> QED BY <3>2, <3>5
    <2>2. CASE ~Reached(d, c)
      <3>1. Return(h) /\ lock' = IF lock = h THEN None ELSE lock
            BY <1>t, <1>c, <1>d, <2>2 DEF CallTransition
      <3>2. /\ run' \in [Handler -> Run] /\ lock' \in Handler \cup {None} /\ run'[h].at = "idle"
            /\ \A g \in Handler \ {h} : run'[g] = run[g]
            /\ \A g \in Handler : run'[g].at \in Held <=> lock' = g
            BY <1>t, <3>1, Released
      <3> QED BY <3>2 DEF Handles
    <2> QED BY <2>1, <2>2
  <1>7. ServeTypeOK'
        BY <1>t, <1>u, <1>1, <1>6, TypeParts, TypePartsNext
  <1> QED BY <1>t, <1>u, <1>1, <1>2, <1>3, <1>4, <1>5, <1>6, <1>7, MountsKept, NoObserver, WriteStep

\* The answer is recorded.
LEMMA ConfirmTransitionStep ==
    ASSUME ServeInv, NEW h \in Handler, ConfirmTransition(h)
    PROVE  ServeInv'
  <1>t. /\ ServeTypeOK /\ Handles(h) /\ run[h].at = "confirm" /\ lock = h /\ ~closed
        /\ action \in [Kind -> [Delivery -> Result]] /\ h # None
        BY TypeParts, SwitchAssumption DEF ServeInv, ConfirmTransition, Held, Closing
  <1>r. PICK r \in Switch : /\ r = run[h].switch /\ r \in Delivery /\ Admitted(r) /\ Fits(r)
                            /\ action["start"][r] # "none"
        BY <1>t, Transition DEF Handles, ServeInv
  <1>c. PICK c \in {"stop", "resume"} :
            /\ c = run[h].doing /\ (c = "resume" => action["terminate"][r] = "confirmed")
            /\ action[c][r] # "none"
        BY <1>t, <1>r, Transition DEF Handles
  <1>d. PICK d : d = row[r].prev /\ (c = "stop" => Down(d))
        BY <1>t, <1>r, <1>c DEF Handles
  <1>u. /\ UNCHANGED <<row, app, route, closed, lock>> /\ Step(h, "record")
        /\ action' = [action EXCEPT ![c][r] = "confirmed"]
        BY <1>r, <1>c DEF ConfirmTransition
  <1>1. /\ action' \in [Kind -> [Delivery -> Result]]
        /\ action'[c][r] = "confirmed"
        /\ \A k \in Kind, e \in Delivery : k # c \/ e # r => action'[k][e] = action[k][e]
        /\ action'["retire"] = action["retire"]
        BY <1>t, <1>r, <1>c, <1>u DEF Kind, Result
  <1>2. /\ run' \in [Handler -> Run] /\ lock' \in Handler \cup {None}
        /\ run'[h].at = "record" /\ run'[h].switch = r /\ run'[h].doing = c
        /\ \A g \in Handler \ {h} : run'[g] = run[g]
        /\ \A g \in Handler : run'[g].at \in Held <=> lock' = g
        BY <1>t, <1>r, <1>c, <1>u, Stepped DEF At, Held
  <1>3. ServeTypeOK'
        BY <1>t, <1>u, <1>1, <1>2, TypeParts, TypePartsNext
  <1>4. \A e \in Delivery \ {r} : SameDelivery(e)
        BY <1>u, <1>1 DEF SameDelivery
  <1>5. /\ \A e \in Delivery : Retiring(e)' <=> Retiring(e)
        /\ \A k \in Kind, e \in Delivery : action[k][e] # "none" => action'[k][e] # "none"
        /\ \A k \in Kind, e \in Delivery : action[k][e] = "confirmed" => action'[k][e] = "confirmed"
    <2>1. \A k \in Kind, e \in Delivery : action'[k][e] = action[k][e] \/ action'[k][e] = "confirmed"
          BY <1>1
    <2> QED BY <1>1, <2>1 DEF Retiring, Kind
  <1>6. KeepsLineage
        BY <1>u, <1>5 DEF KeepsLineage
  <1>7. \A e \in Delivery : Down(e) => Down(e)'
        BY <1>u, <1>5 DEF Down, HoldsMount, Kind, Delivery
  <1>8. Mounts'
    <2>1. ASSUME NEW q \in Switch, row[q].prev # None
          PROVE  /\ action'["stop"][q] = "confirmed" => Down(row[q].prev)'
                 /\ app[q] # "absent" /\ Exclusive(q, row[q].prev) => action'["stop"][q] = "confirmed"
      <3>1. PICK e \in Delivery : e = row[q].prev
            BY <1>t, <2>1, TypeFacts DEF Delivery
      <3>2. action'["stop"][q] = "confirmed" => Down(e)
        <4>1. CASE q = r /\ c = "stop"
              BY <1>d, <3>1, <4>1
        <4>2. CASE ~(q = r /\ c = "stop")
          <5>1. action'["stop"][q] = action["stop"][q]
                BY <1>1, <4>2 DEF Kind, Delivery
          <5> QED BY <2>1, <3>1, <5>1 DEF ServeInv, Mounts
        <4> QED BY <4>1, <4>2
      <3>3. action["stop"][q] = "confirmed" => action'["stop"][q] = "confirmed"
            BY <1>5 DEF Kind, Delivery
      <3>4. row'[q].prev = e
            BY <1>u, <3>1
      <3> QED BY <1>7, <2>1, <3>1, <3>2, <3>3, <3>4 DEF ServeInv, Mounts
    <2> QED BY <1>u, <2>1 DEF Mounts
  <1>9. Fits(r)'
    <2>1. /\ action'["start"][r] = action["start"][r] /\ action'["terminate"][r] = action["terminate"][r]
          /\ action'["retire"][r] = action["retire"][r]
          /\ action'["resume"][r] = action["resume"][r] \/ c = "resume"
          BY <1>r, <1>1 DEF Kind
    <2> QED BY <1>r, <1>c, <1>u, <1>5, <2>1 DEF Fits, Admitted
  <1>10. Handles(h)'
    <2>1. /\ action'["start"][r] # "none" /\ action'["terminate"][r] = action["terminate"][r]
          BY <1>r, <1>1 DEF Kind
    <2>2. Admitted(r)'
          BY <1>r, <1>u DEF Admitted
    <2> QED BY <1>r, <1>c, <1>1, <1>2, <2>1, <2>2 DEF Handles
  <1> QED BY <1>t, <1>r, <1>u, <1>1, <1>2, <1>3, <1>4, <1>5, <1>6, <1>7, <1>8, <1>9, <1>10,
             NoObserver, WriteStep

\* A row whose instance state is written.
LEMMA InstanceWritten ==
    ASSUME ServeInv, NEW d \in Delivery, NEW s \in {"ready", "stopped", "terminated"},
           row' = [row EXCEPT ![d].inst = s], UNCHANGED <<action, app>>,
           Retiring(d) \/ (s # "terminated" /\ row[d].inst # "terminated"),
           s = "terminated" \/ row[d].inst # "terminated"
    PROVE  /\ row' \in [Delivery -> Row] /\ KeepsLineage /\ KeepsMounts /\ Fits(d)'
           /\ \A e \in Delivery \ {d} : SameDelivery(e)
           /\ \A e \in Delivery : row'[e].op = row[e].op /\ row'[e].prev = row[e].prev /\ row'[e].epoch = row[e].epoch
  <1>t. row \in [Delivery -> Row] /\ row[d] \in Row /\ Fits(d)
        BY TypeParts DEF ServeInv
  <1>1. /\ row' \in [Delivery -> Row]
        /\ \A e \in Delivery \ {d} : row'[e] = row[e]
        /\ row'[d].op = row[d].op /\ row'[d].status = row[d].status /\ row'[d].epoch = row[d].epoch
        /\ row'[d].prev = row[d].prev /\ row'[d].inst = s
        BY <1>t DEF Row
  <1>2. KeepsLineage
        BY <1>1 DEF KeepsLineage, Retiring
  <1>3. KeepsMounts
        BY <1>1 DEF KeepsMounts, HoldsMount, Delivery
  <1>4. \A e \in Delivery \ {d} : SameDelivery(e)
        BY <1>1 DEF SameDelivery
  <1>5. Fits(d)'
    <2>1. PICK e : e = row[d].prev /\ e = row'[d].prev
          BY <1>1
    <2>2. e \in Delivery /\ Admitted(e) => Admitted(e)' /\ row'[e].epoch = row[e].epoch
          BY <1>2 DEF KeepsLineage, Admitted
    <2>3. (Retiring(d)' <=> Retiring(d)) /\ (Admitted(d)' <=> Admitted(d))
          BY <1>1 DEF Retiring, Admitted
    <2> QED BY <1>t, <1>1, <2>1, <2>2, <2>3 DEF Fits
  <1> QED BY <1>1, <1>2, <1>3, <1>4, <1>5

\* The instance state is recorded.
LEMMA RecordTransitionStep ==
    ASSUME ServeInv, NEW h \in Handler, RecordTransition(h)
    PROVE  ServeInv'
  <1>t. /\ ServeTypeOK /\ Handles(h) /\ run[h].at = "record" /\ lock = h /\ ~closed /\ h # None
        /\ row \in [Delivery -> Row]
        BY TypeParts, SwitchAssumption DEF ServeInv, RecordTransition, Held, Closing
  <1>r. PICK r \in Switch : /\ r = run[h].switch /\ r \in Delivery /\ Admitted(r)
                            /\ action["start"][r] # "none"
        BY <1>t, Transition DEF Handles
  <1>d. PICK d \in Delivery : d = Writer(h)
        BY <1>t, Transition
  <1>u. /\ UNCHANGED <<action, app, route, closed>> /\ lock' = None
        /\ lock' = IF lock = h THEN None ELSE lock
        BY <1>t DEF RecordTransition
  <1>1. CASE row[d].inst = "terminated" \/ Retiring(d)
    <2>1. Return(h) /\ row' = row
          BY <1>d, <1>1 DEF RecordTransition
    <2> QED BY <1>u, <2>1, ReturnStep
  <1>2. CASE ~(row[d].inst = "terminated" \/ Retiring(d))
    <2>1. PICK s \in {"ready", "stopped"} : row' = [row EXCEPT ![d].inst = s]
          BY <1>d, <1>2 DEF RecordTransition
    <2>2. /\ row' \in [Delivery -> Row] /\ KeepsLineage /\ KeepsMounts /\ Fits(d)'
          /\ \A e \in Delivery \ {d} : SameDelivery(e)
          /\ row'[r].op = row[r].op /\ row'[r].prev = row[r].prev
          BY <1>r, <1>u, <1>2, <2>1, InstanceWritten
    <2>3. Return(h) \/ (AfterStop(h) /\ run[h].doing = "stop")
          BY <1>t, <1>d, <1>2, Transition DEF RecordTransition
    <2>4. /\ run' \in [Handler -> Run] /\ lock' \in Handler \cup {None}
          /\ \A g \in Handler \ {h} : run'[g] = run[g]
          /\ \A g \in Handler : run'[g].at \in Held <=> lock' = g
          /\ Return(h) => run'[h].at = "idle"
          /\ AfterStop(h) => run'[h].at = "start" /\ run'[h].switch = run[h].switch
          BY <1>t, <1>u, <2>3, Released
    <2>5. Handles(h)'
      <3>1. CASE Return(h)
            BY <2>4, <3>1 DEF Handles
      <3>2. CASE AfterStop(h) /\ run[h].doing = "stop"
        <4>1. action["stop"][r] = "confirmed"
              BY <1>t, <1>r, <3>2 DEF Handles
        <4>2. Admitted(r)'
              BY <1>r, <2>2 DEF Admitted
        <4> QED BY <1>r, <1>u, <2>2, <2>4, <3>2, <4>1, <4>2 DEF Handles
      <3> QED BY <2>3, <3>1, <3>2
    <2>6. ServeTypeOK'
          BY <1>t, <1>u, <2>2, <2>4, TypeParts, TypePartsNext
    <2> QED BY <1>t, <1>u, <2>2, <2>4, <2>5, <2>6, MountsKept, NoObserver, WriteStep
  <1> QED BY <1>1, <1>2

-----------------------------------------------------------------------------
(* The start.                                                               *)

\* Only the newest delivery is started, so no writer that a switch displaced.
LEMMA StartStep ==
    ASSUME ServeInv, NEW h \in Handler, StartRuntime(h)
    PROVE  ServeInv'
  <1>t. /\ ServeTypeOK /\ Handles(h) /\ run[h].at = "start" /\ lock = None /\ h # None
        /\ app \in [Delivery -> App]
        BY TypeParts, SwitchAssumption DEF ServeInv, StartRuntime
  <1>r. PICK r \in Switch : /\ r = run[h].switch /\ r \in Delivery /\ Admitted(r) /\ Fits(r)
                            /\ action["start"][r] # "none"
                            /\ Exclusive(r, row[r].prev) => action["stop"][r] = "confirmed"
        BY <1>t DEF Handles, ServeInv, Delivery
  <1>u. UNCHANGED <<row, action, route, closed>>
        BY DEF StartRuntime
  <1>1. CASE closed \/ Retiring(r) \/ StaleEpoch(r)
    <2>1. Return(h) /\ UNCHANGED <<app, lock>>
          BY <1>r, <1>1 DEF StartRuntime
    <2> QED BY <1>t, <1>u, <2>1, ReturnStep
  <1>2. CASE ~(closed \/ Retiring(r) \/ StaleEpoch(r))
    <2>1. /\ app' = [app EXCEPT ![r] = IF @ = "absent" THEN "starting" ELSE @]
          /\ lock' = h /\ Step(h, "observe")
          BY <1>r, <1>2 DEF StartRuntime
    <2>2. /\ app' \in [Delivery -> App] /\ app'[r] # "absent"
          /\ app'[r] = app[r] \/ app'[r] = "starting"
          /\ \A e \in Delivery \ {r} : app'[e] = app[e]
          BY <1>t, <1>r, <2>1 DEF App
    <2>3. /\ run' \in [Handler -> Run] /\ lock' \in Handler \cup {None}
          /\ run'[h].at = "observe" /\ run'[h].switch = r
          /\ \A g \in Handler \ {h} : run'[g] = run[g]
          /\ \A g \in Handler : run'[g].at \in Held <=> lock' = g
          BY <1>t, <1>r, <2>1, Stepped DEF At, Held
    <2>4. ServeTypeOK'
          BY <1>t, <1>u, <2>2, <2>3, TypeParts, TypePartsNext
    <2>5. ASSUME NEW q \in Switch, row[q].prev # None
          PROVE  Admitted(q) /\ row[q].prev \in Delivery \ {r}
      <3>1. Fits(q) /\ q \in Delivery
            BY DEF ServeInv, Delivery
      <3>2. /\ Admitted(q) /\ row[q].prev \in Delivery /\ row[row[q].prev].epoch < row[q].epoch
            BY <2>5, <3>1 DEF Fits
      <3>3. row[q].prev # r
            BY <1>2, <3>1, <3>2 DEF StaleEpoch
      <3> QED BY <3>2, <3>3
    <2>6. \A e \in Delivery \ {r} : Down(e) <=> Down(e)'
          BY <1>u, <2>2 DEF Down, HoldsMount
    <2>7. \A e \in Delivery : Displaced(e) /\ Down(e) => Down(e)'
      <3>1. ~Displaced(r)
        <4>1. ASSUME NEW q \in Switch, Admitted(q), row[q].prev = r PROVE FALSE
              BY <1>r, <2>5, <4>1, SwitchAssumption
        <4> QED BY <4>1 DEF Displaced
      <3> QED BY <2>6, <3>1
    <2>8. Mounts'
      <3>1. ASSUME NEW q \in Switch, NEW e, e = row[q].prev, e # None
            PROVE  /\ action["stop"][q] = "confirmed" => Down(e)'
                   /\ app'[q] # "absent" /\ Exclusive(q, e) => action["stop"][q] = "confirmed"
        <4>1. e \in Delivery \ {r}
              BY <2>5, <3>1
        <4>2. action["stop"][q] = "confirmed" => Down(e)
              BY <3>1 DEF ServeInv, Mounts
        <4>3. app'[q] # "absent" /\ Exclusive(q, e) => action["stop"][q] = "confirmed"
          <5>1. CASE q = r
                BY <1>r, <3>1, <5>1
          <5>2. CASE q # r
            <6>1. app'[q] = app[q]
                  BY <2>2, <5>2 DEF Delivery
            <6> QED BY <3>1, <6>1 DEF ServeInv, Mounts
          <5> QED BY <5>1, <5>2
        <4> QED BY <2>6, <4>1, <4>2, <4>3
      <3> QED BY <1>u, <3>1 DEF Mounts
    <2>9. Fits(r)'
          BY <1>r, <1>u, <1>2, <2>2 DEF Fits, Admitted, Retiring
    <2>10. \A e \in Delivery \ {r} : SameDelivery(e)
          BY <1>u, <2>2 DEF SameDelivery
    <2>11. KeepsLineage
          BY <1>u DEF KeepsLineage, Retiring
    <2>12. Handles(h)'
          BY <1>r, <1>u, <1>2, <2>2, <2>3 DEF Handles, Admitted, Retiring, StaleEpoch
    <2>13. action["terminate"][r] # "none" /\ app[r] = "absent" => app'[r] = "absent"
          BY <1>2 DEF Retiring
    <2> QED BY <1>t, <1>r, <1>u, <1>2, <2>3, <2>4, <2>7, <2>8, <2>9, <2>10, <2>11, <2>12, <2>13,
               NoObserver, WriteStep
  <1> QED BY <1>1, <1>2

-----------------------------------------------------------------------------
(* A switch that failed.                                                    *)

\* Nobody observes a delivery that is being removed, and the others are left
\* alone.
LEMMA ObserversApart ==
    ASSUME ServeInv, KeepsLineage, NEW r \in Switch, \A e \in Delivery \ {r} : SameDelivery(e),
           NEW g \in Handler, Retiring(r) \/ ~(run[g].at = "observe" /\ run[g].switch = r)
    PROVE  ObserverKept(g)
  <1>1. ASSUME NEW q \in Switch, run[g].at = "observe", run[g].switch = q
        PROVE  ~Retiring(q)' /\ ~StaleEpoch(q)' /\ app'[q] # "absent"
    <2>1. ~Retiring(q) /\ ~StaleEpoch(q) /\ app[q] # "absent"
          BY <1>1 DEF ServeInv, Handles
    <2>2. q # r /\ q \in Delivery /\ SameDelivery(q)
          BY <1>1, <2>1 DEF Delivery
    <2>3. ~StaleEpoch(q)'
          BY <2>1, <2>2 DEF StaleEpoch, KeepsLineage
    <2> QED BY <2>1, <2>2, <2>3 DEF SameDelivery, Retiring, Kind
  <1> QED BY <1>1 DEF ObserverKept

\* A call whose switch is undone restores the writer it stopped, or is over.
LEMMA Restored ==
    ASSUME ServeTypeOK, NEW h \in Handler, Restore(h), lock' = lock, run[h].at \notin Held
    PROVE  /\ run' \in [Handler -> Run] /\ lock' \in Handler \cup {None}
           /\ \A g \in Handler \ {h} : run'[g] = run[g]
           /\ \A g \in Handler : run'[g].at \in Held <=> lock' = g
           /\ \/ run'[h].at = "idle"
              \/ run'[h].at = "lock" /\ run'[h].switch = run[h].switch /\ run'[h].doing = "resume"
           /\ \E x \in Run : run' = [run EXCEPT ![h] = x] /\ LockFits(h, x)
  <1>t. run \in [Handler -> Run] /\ run[h] \in Run /\ "lock" \in At
        BY TypeParts DEF At
  <1>1. CASE action["stop"][run[h].switch] = "confirmed"
    <2>1. PICK x : x = [run[h] EXCEPT !.at = "lock", !.doing = "resume"]
          OBVIOUS
    <2>2. x \in Run /\ run' = [run EXCEPT ![h] = x]
          BY <1>t, <1>1, <2>1, CallPlaces DEF Restore
    <2>3. x.at = "lock" /\ x.switch = run[h].switch /\ x.doing = "resume"
          BY <1>t, <2>1 DEF Run
    <2>4. LockFits(h, x)
          BY <2>3 DEF LockFits, Held
    <2> QED BY <2>2, <2>3, <2>4, CallMoves
  <1>2. CASE action["stop"][run[h].switch] # "confirmed"
    <2>1. Idle \in Run /\ run' = [run EXCEPT ![h] = Idle] /\ LockFits(h, Idle) /\ Idle.at = "idle"
          BY <1>2, CallPlaces DEF Restore, LockFits, Idle, Held
    <2> QED BY <2>1, CallMoves
  <1> QED BY <1>1, <1>2

\* A call about a failed switch: its delivery.
LEMMA FailedSwitch ==
    ASSUME ServeInv, NEW h \in Handler, run[h].at \in {"retire", "remove", "removed", "clear"}
    PROVE  /\ run[h].switch \in Switch /\ run[h].switch \in Delivery
           /\ Admitted(run[h].switch) /\ Fits(run[h].switch)
           /\ action["start"][run[h].switch] # "none"
           /\ run[h].at # "retire" => action["terminate"][run[h].switch] # "none"
           /\ lock # h /\ run[h].at \notin Held
  <1>1. Handles(h) /\ ServeTypeOK
        BY DEF ServeInv
  <1>2. run[h].switch \in Switch
        BY <1>1 DEF Handles
  <1>3. run[h].at \notin Held /\ lock # h
        BY <1>1, TypeParts DEF Held
  <1> QED BY <1>1, <1>2, <1>3 DEF Handles, ServeInv, Delivery

\* A termination that is recorded or confirmed.
LEMMA TerminationWritten ==
    ASSUME ServeInv, NEW r \in Switch, Admitted(r), NEW s \in {"unknown", "confirmed"},
           action' = [action EXCEPT !["terminate"][r] = s], UNCHANGED <<row, app>>,
           s = "confirmed" => app[r] = "absent",
           s = "unknown" => action["terminate"][r] # "confirmed"
    PROVE  /\ action' \in [Kind -> [Delivery -> Result]] /\ action'["retire"] = action["retire"]
           /\ \A k \in Kind \ {"terminate"} : action'[k][r] = action[k][r]
           /\ action'["terminate"][r] = s
           /\ \A k \in Kind : /\ action[k][r] # "none" => action'[k][r] # "none"
                              /\ action[k][r] = "confirmed" => action'[k][r] = "confirmed"
           /\ \A e \in Delivery \ {r} : SameDelivery(e)
           /\ KeepsLineage /\ KeepsMounts /\ Fits(r)'
  <1>t. action \in [Kind -> [Delivery -> Result]] /\ Fits(r) /\ r \in Delivery
        BY TypeParts DEF ServeInv, Delivery
  <1>1. /\ action' \in [Kind -> [Delivery -> Result]] /\ action'["retire"] = action["retire"]
        /\ action'["terminate"][r] = s
        /\ \A k \in Kind, e \in Delivery : k # "terminate" \/ e # r => action'[k][e] = action[k][e]
        BY <1>t DEF Kind, Result
  <1>2. \A k \in Kind : /\ action[k][r] # "none" => action'[k][r] # "none"
                        /\ action[k][r] = "confirmed" => action'[k][r] = "confirmed"
        BY <1>t, <1>1
  <1>3. \A e \in Delivery \ {r} : SameDelivery(e)
        BY <1>1 DEF SameDelivery
  <1>4. KeepsLineage
    <2>1. \A e \in Delivery : Retiring(e) => Retiring(e)'
          BY <1>1 DEF Retiring, Kind
    <2> QED BY <2>1 DEF KeepsLineage
  <1>5. KeepsMounts
        BY <1>1 DEF KeepsMounts, HoldsMount, Kind, Delivery
  <1>6. Fits(r)'
    <2>1. \A k \in Kind \ {"terminate"} : action'[k][r] = action[k][r]
          BY <1>t, <1>1
    <2>2. Retiring(r)' /\ Admitted(r)'
          BY <1>1 DEF Retiring, Admitted
    <2>3. action'["resume"][r] # "none" => s = "confirmed"
          BY <1>t, <2>1 DEF Fits, Kind
    <2> QED BY <1>t, <1>1, <2>1, <2>2, <2>3 DEF Fits, Admitted, Kind
  <1> QED BY <1>t, <1>1, <1>2, <1>3, <1>4, <1>5, <1>6

\* The intent to remove a failed delivery.
LEMMA RecordRetirementStep ==
    ASSUME ServeInv, NEW h \in Handler, RecordRetirement(h)
    PROVE  ServeInv'
  <1>t. ServeTypeOK /\ run[h].at = "retire" /\ (closed => lock = None)
        BY DEF ServeInv, RecordRetirement, Closing
  <1>r. PICK r \in Switch : /\ r = run[h].switch /\ r \in Delivery /\ Admitted(r)
                            /\ action["start"][r] # "none" /\ lock # h /\ run[h].at \notin Held
        BY <1>t, FailedSwitch
  <1>u. UNCHANGED <<row, app, route, closed, lock>>
        BY DEF RecordRetirement
  <1>1. CASE action["terminate"][r] = "confirmed"
    <2>1. Restore(h) /\ action' = action
          BY <1>r, <1>1 DEF RecordRetirement
    <2>2. /\ \/ run'[h].at = "idle"
             \/ run'[h].at = "lock" /\ run'[h].switch = r /\ run'[h].doing = "resume"
          /\ \E x \in Run : run' = [run EXCEPT ![h] = x] /\ LockFits(h, x)
          BY <1>t, <1>r, <1>u, <2>1, Restored
    <2>3. Handles(h)'
          BY <1>r, <1>u, <1>1, <2>1, <2>2 DEF Handles, Admitted
    <2> QED BY <1>t, <1>u, <2>1, <2>2, <2>3, QuietStep
  <1>2. CASE action["terminate"][r] # "confirmed"
    <2>1. action' = [action EXCEPT !["terminate"][r] = "unknown"] /\ Step(h, "remove")
          BY <1>r, <1>2 DEF RecordRetirement
    <2>2. /\ action' \in [Kind -> [Delivery -> Result]] /\ action'["retire"] = action["retire"]
          /\ \A k \in Kind \ {"terminate"} : action'[k][r] = action[k][r]
          /\ action'["terminate"][r] = "unknown"
          /\ \A k \in Kind : /\ action[k][r] # "none" => action'[k][r] # "none"
                             /\ action[k][r] = "confirmed" => action'[k][r] = "confirmed"
          /\ \A e \in Delivery \ {r} : SameDelivery(e)
          /\ KeepsLineage /\ KeepsMounts /\ Fits(r)'
          BY <1>r, <1>u, <1>2, <2>1, TerminationWritten
    <2>3. /\ run' \in [Handler -> Run] /\ lock' \in Handler \cup {None}
          /\ run'[h].at = "remove" /\ run'[h].switch = r
          /\ \A g \in Handler \ {h} : run'[g] = run[g]
          /\ \A g \in Handler : run'[g].at \in Held <=> lock' = g
          BY <1>t, <1>r, <1>u, <2>1, Stepped DEF At, Held
    <2>4. ServeTypeOK'
          BY <1>t, <1>u, <2>2, <2>3, TypeParts, TypePartsNext
    <2>5. Handles(h)'
          BY <1>r, <1>u, <2>2, <2>3 DEF Handles, Admitted, Kind
    <2>6. \A g \in Handler : ObserverKept(g)
      <3>1. \A g \in Handler : ~(run[g].at = "observe" /\ run[g].switch = r)
            BY <1>r DEF RecordRetirement, ObservedByAnother
      <3> QED BY <2>2, <3>1, ObserversApart
    <2> QED BY <1>t, <1>r, <1>u, <2>2, <2>3, <2>4, <2>5, <2>6, MountsKept, WriteStep
  <1> QED BY <1>1, <1>2

\* What a removal does to an application.
LEMMA RemovedApp ==
    ASSUME ServeInv, NEW d \in Delivery, app' = Removed(d)
    PROVE  /\ app' \in [Delivery -> App]
           /\ \A e \in Delivery \ {d} : app'[e] = app[e]
           /\ app'[d] = "absent" <=> app[d] = "absent"
           /\ HoldsMount(d)' => HoldsMount(d)
  <1>1. app \in [Delivery -> App]
        BY TypeParts DEF ServeInv
  <1>2. /\ app' \in [Delivery -> App] /\ \A e \in Delivery \ {d} : app'[e] = app[e]
        /\ app'[d] = IF app[d] = "absent" THEN app[d] ELSE IF HoldsMount(d) THEN "removing" ELSE "clearing"
        BY <1>1 DEF Removed, App
  <1> QED BY <1>1, <1>2 DEF HoldsMount

\* The removal of a failed delivery, its confirmation and its row.
LEMMA RemovalSteps ==
    ASSUME ServeInv, NEW h \in Handler, RemoveFailed(h) \/ ConfirmRemoval(h) \/ ClearFailed(h)
    PROVE  ServeInv'
  <1>t. /\ ServeTypeOK /\ run[h].at \in {"remove", "removed", "clear"} /\ Handles(h)
        /\ (closed => lock = None)
        BY DEF ServeInv, RemoveFailed, ConfirmRemoval, ClearFailed, Closing
  <1>r. PICK r \in Switch : /\ r = run[h].switch /\ r \in Delivery /\ Admitted(r) /\ Fits(r)
                            /\ action["start"][r] # "none" /\ action["terminate"][r] # "none"
                            /\ lock # h /\ run[h].at \notin Held
        BY <1>t, FailedSwitch
  <1>q. Retiring(r)
        BY <1>r DEF Retiring
  <1>1. CASE RemoveFailed(h)
    <2>1. app' = Removed(r) /\ UNCHANGED <<row, action, route, closed, lock>>
          BY <1>r, <1>1 DEF RemoveFailed
    <2>2. /\ app' \in [Delivery -> App]
          /\ \A e \in Delivery \ {r} : app'[e] = app[e]
          /\ app'[r] = "absent" <=> app[r] = "absent"
          /\ HoldsMount(r)' => HoldsMount(r)
          BY <1>r, <2>1, RemovedApp
    <2>3. \A e \in Delivery \ {r} : SameDelivery(e)
          BY <2>1, <2>2 DEF SameDelivery
    <2>4. KeepsLineage
          BY <2>1 DEF KeepsLineage, Retiring
    <2>5. KeepsMounts
          BY <2>1, <2>2 DEF KeepsMounts, HoldsMount, Delivery
    <2>6. Fits(r)'
          BY <1>r, <1>q, <2>1, <2>2 DEF Fits, Admitted, Retiring
    <2>7. /\ run' \in [Handler -> Run] /\ lock' \in Handler \cup {None} /\ Handles(h)'
          /\ \A g \in Handler \ {h} : run'[g] = run[g]
          /\ \A g \in Handler : run'[g].at \in Held <=> lock' = g
      <3>1. CASE app[r] = "absent"
        <4>1. Step(h, "removed")
              BY <1>r, <1>1, <3>1 DEF RemoveFailed
        <4>2. /\ run' \in [Handler -> Run] /\ lock' \in Handler \cup {None}
              /\ run'[h].at = "removed" /\ run'[h].switch = r
              /\ \A g \in Handler \ {h} : run'[g] = run[g]
              /\ \A g \in Handler : run'[g].at \in Held <=> lock' = g
              BY <1>t, <1>r, <2>1, <4>1, Stepped DEF At, Held
        <4>3. Handles(h)'
              BY <1>r, <2>1, <2>2, <3>1, <4>2 DEF Handles, Admitted
        <4> QED BY <4>2, <4>3
      <3>2. CASE app[r] # "absent"
        <4>1. Return(h) /\ lock' = IF lock = h THEN None ELSE lock
              BY <1>r, <1>1, <2>1, <3>2 DEF RemoveFailed
        <4>2. /\ run' \in [Handler -> Run] /\ lock' \in Handler \cup {None} /\ run'[h].at = "idle"
              /\ \A g \in Handler \ {h} : run'[g] = run[g]
              /\ \A g \in Handler : run'[g].at \in Held <=> lock' = g
              BY <1>t, <4>1, Released
        <4> QED BY <4>2 DEF Handles
      <3> QED BY <3>1, <3>2
    <2>8. ServeTypeOK'
          BY <1>t, <2>1, <2>2, <2>7, TypeParts, TypePartsNext
    <2>9. \A g \in Handler : ObserverKept(g)
          BY <1>q, <2>3, <2>4, ObserversApart
    <2> QED BY <1>t, <1>r, <2>1, <2>2, <2>3, <2>4, <2>5, <2>6, <2>7, <2>8, <2>9, MountsKept, WriteStep
  <1>2. CASE ConfirmRemoval(h)
    <2>1. /\ action' = [action EXCEPT !["terminate"][r] = "confirmed"] /\ Step(h, "clear")
          /\ UNCHANGED <<row, app, route, closed, lock>> /\ app[r] = "absent"
          BY <1>t, <1>r, <1>2 DEF ConfirmRemoval, Handles
    <2>2. /\ action' \in [Kind -> [Delivery -> Result]] /\ action'["retire"] = action["retire"]
          /\ \A k \in Kind \ {"terminate"} : action'[k][r] = action[k][r]
          /\ action'["terminate"][r] = "confirmed"
          /\ \A k \in Kind : /\ action[k][r] # "none" => action'[k][r] # "none"
                             /\ action[k][r] = "confirmed" => action'[k][r] = "confirmed"
          /\ \A e \in Delivery \ {r} : SameDelivery(e)
          /\ KeepsLineage /\ KeepsMounts /\ Fits(r)'
          BY <1>r, <2>1, TerminationWritten
    <2>3. /\ run' \in [Handler -> Run] /\ lock' \in Handler \cup {None}
          /\ run'[h].at = "clear" /\ run'[h].switch = r
          /\ \A g \in Handler \ {h} : run'[g] = run[g]
          /\ \A g \in Handler : run'[g].at \in Held <=> lock' = g
          BY <1>t, <1>r, <2>1, Stepped DEF At, Held
    <2>4. ServeTypeOK'
          BY <1>t, <2>1, <2>2, <2>3, TypeParts, TypePartsNext
    <2>5. Handles(h)'
          BY <1>r, <2>1, <2>2, <2>3 DEF Handles, Admitted, Kind
    <2>6. \A g \in Handler : ObserverKept(g)
          BY <1>q, <2>2, ObserversApart
    <2> QED BY <1>t, <1>r, <2>1, <2>2, <2>3, <2>4, <2>5, <2>6, MountsKept, WriteStep
  <1>3. CASE ClearFailed(h)
    <2>1. /\ row' = [row EXCEPT ![r].inst = "terminated"] /\ Restore(h)
          /\ UNCHANGED <<action, app, route, closed, lock>> /\ action["terminate"][r] = "confirmed"
          BY <1>t, <1>r, <1>3 DEF ClearFailed, Handles
    <2>2. /\ row' \in [Delivery -> Row] /\ KeepsLineage /\ KeepsMounts /\ Fits(r)'
          /\ \A e \in Delivery \ {r} : SameDelivery(e)
          /\ row'[r].op = row[r].op /\ row'[r].prev = row[r].prev
          BY <1>r, <1>q, <2>1, InstanceWritten
    <2>3. /\ run' \in [Handler -> Run] /\ lock' \in Handler \cup {None}
          /\ \A g \in Handler \ {h} : run'[g] = run[g]
          /\ \A g \in Handler : run'[g].at \in Held <=> lock' = g
          /\ \/ run'[h].at = "idle"
             \/ run'[h].at = "lock" /\ run'[h].switch = r /\ run'[h].doing = "resume"
          BY <1>t, <1>r, <2>1, Restored
    <2>4. ServeTypeOK'
          BY <1>t, <2>1, <2>2, <2>3, TypeParts, TypePartsNext
    <2>5. Handles(h)'
          BY <1>r, <2>1, <2>2, <2>3 DEF Handles, Admitted
    <2>6. \A g \in Handler : ObserverKept(g)
          BY <1>q, <2>2, ObserversApart
    <2> QED BY <1>t, <1>r, <2>1, <2>2, <2>3, <2>4, <2>5, <2>6, MountsKept, WriteStep
  <1> QED BY <1>1, <1>2, <1>3

-----------------------------------------------------------------------------
(* The executor and the closeout.                                           *)

\* The invariant from its parts, for a step of no call.
LEMMA CombineOutside ==
    ASSUME ServeInv, ServeTypeOK', \A d \in Delivery : Fits(d)', Lineage', EpochsFit', Mounts', Closing',
           Grows, run' = run, \A g \in Handler : ObserverKept(g)
    PROVE  ServeInv'
  <1>1. \A g \in Handler : Handles(g)'
        BY OtherHandlers
  <1> QED BY <1>1 DEF ServeInv

\* While the lock is free nobody observes.
LEMMA NobodyObserves ==
    ASSUME ServeTypeOK, lock = None, NEW g \in Handler
    PROVE  ObserverKept(g)
  <1>1. run[g].at # "observe"
        BY TypeParts, SwitchAssumption DEF Held
  <1> QED BY <1>1 DEF ObserverKept

\* The workloads get where they were told to, fail and recover.
LEMMA ExecutorStep ==
    ASSUME ServeInv, NEW d \in Delivery, Converge(d) \/ Falter(d)
    PROVE  ServeInv'
  <1>t. ServeTypeOK /\ app \in [Delivery -> App] /\ Fits(d)
        BY TypeParts DEF ServeInv
  <1>u. UNCHANGED <<row, action, route, closed, lock, run>>
        BY DEF Converge, Falter
  <1>1. /\ app' \in [Delivery -> App] /\ \A e \in Delivery \ {d} : app'[e] = app[e]
        /\ app[d] = "absent" => app'[d] = "absent"
        /\ app'[d] = "absent" => app[d] \in {"absent", "removing", "clearing"}
        /\ app'[d] \notin {"removing", "clearing"}
             \/ app'[d] = app[d]
        /\ app[d] \in {"suspended", "clearing"} => app'[d] \in {"suspended", "clearing", "absent"}
    <2>1. CASE Converge(d)
      <3>1. /\ app' \in [Delivery -> App] /\ \A e \in Delivery \ {d} : app'[e] = app[e]
            /\ app'[d] = CASE app[d] = "starting" -> "ready"
                           [] app[d] = "draining" -> "suspended"
                           [] app[d] \in {"removing", "clearing"} -> "absent"
                           [] OTHER -> app[d]
            BY <1>t, <2>1 DEF Converge, App
      <3> QED BY <1>t, <3>1 DEF App
    <2>2. CASE Falter(d)
      <3>1. /\ app' \in [Delivery -> App] /\ \A e \in Delivery \ {d} : app'[e] = app[e]
            /\ app'[d] = CASE app[d] = "starting" -> "failed"
                           [] app[d] \in {"ready", "failed"} -> "starting"
                           [] OTHER -> app[d]
            BY <1>t, <2>2 DEF Falter, App
      <3> QED BY <1>t, <3>1 DEF App
    <2> QED BY <2>1, <2>2
  <1>2. \A e \in Delivery \ {d} : SameDelivery(e)
        BY <1>u, <1>1 DEF SameDelivery
  <1>3. KeepsLineage
        BY <1>u DEF KeepsLineage, Retiring
  <1>4. KeepsMounts
        BY <1>u, <1>1 DEF KeepsMounts, HoldsMount, Delivery
  <1>5. Fits(d)'
        BY <1>t, <1>u, <1>1 DEF Fits, Admitted, Retiring
  <1>6. (\A e \in Delivery : Fits(e)' /\ (Admitted(e)' <=> Admitted(e))) /\ Lineage' /\ EpochsFit' /\ Grows
        BY <1>u, <1>1, <1>2, <1>3, <1>4, <1>5, MountsKept, WriteParts
  <1>7. ServeTypeOK'
        BY <1>t, <1>u, <1>1, TypeParts, TypePartsNext
  <1>8. Closing'
    <2>1. Unretired' = Unretired
          BY <1>u DEF Unretired
    <2> QED BY <1>u, <1>6, <2>1 DEF ServeInv, Closing
  <1>9. ASSUME NEW g \in Handler PROVE ObserverKept(g)
    <2>1. ASSUME NEW r \in Switch, run[g].at = "observe", run[g].switch = r
          PROVE  ~Retiring(r)' /\ ~StaleEpoch(r)' /\ app'[r] # "absent"
      <3>1. ~Retiring(r) /\ ~StaleEpoch(r) /\ app[r] # "absent" /\ r \in Delivery /\ Fits(r)
            BY <2>1 DEF ServeInv, Handles, Delivery
      <3>2. app'[r] # "absent"
            BY <1>1, <3>1 DEF Fits
      <3> QED BY <1>u, <3>1, <3>2 DEF Retiring, StaleEpoch
    <2> QED BY <2>1 DEF ObserverKept
  <1> QED BY <1>u, <1>4, <1>6, <1>7, <1>8, <1>9, MountsKept, CombineOutside

\* The Workspace is closed.
LEMMA RetireStep ==
    ASSUME ServeInv, Retire
    PROVE  ServeInv'
  <1>t. /\ ServeTypeOK /\ action \in [Kind -> [Delivery -> Result]] /\ lock = None /\ ~closed
        /\ \A d \in Delivery : action["retire"][d] = "none"
        BY TypeParts DEF ServeInv, Retire, Closing
  <1>u. UNCHANGED <<row, app, lock, run>> /\ closed' /\ closed' = TRUE /\ route' = None
        BY DEF Retire
  <1>1. /\ action' \in [Kind -> [Delivery -> Result]]
        /\ \A k \in Kind \ {"retire"} : action'[k] = action[k]
        /\ \A d \in Delivery : action'["retire"][d] = IF row[d].status = "none" THEN "none" ELSE "unknown"
        BY <1>t DEF Retire, Kind, Result
  <1>2. \A d \in Delivery : row[d].status = "none" <=> ~Admitted(d)
        BY DEF ServeInv, Fits
  <1>3. ServeTypeOK'
        BY <1>t, <1>u, <1>1, TypeParts, TypePartsNext
  <1>4. \A d \in Delivery : (Retiring(d) => Retiring(d)') /\ (Admitted(d)' <=> Admitted(d))
        BY <1>t, <1>u, <1>1 DEF Retiring, Admitted, Kind
  <1>5. KeepsLineage
        BY <1>u, <1>4 DEF KeepsLineage
  <1>6. KeepsMounts
        BY <1>u, <1>1 DEF KeepsMounts, HoldsMount, Kind
  <1>7. ASSUME NEW d \in Delivery PROVE Fits(d)'
    <2>1. Fits(d)
          BY DEF ServeInv
    <2>2. action'["retire"][d] # "confirmed"
          BY <1>1
    <2> QED BY <1>u, <1>1, <1>4, <2>1, <2>2 DEF Fits, Admitted, Kind
  <1>8. Closing'
    <2>1. \A d \in Delivery : action'["retire"][d] # "none" <=> Admitted(d)'
          BY <1>1, <1>2, <1>4
    <2>2. action'["retire"][Original] # "confirmed"
          BY <1>1 DEF Delivery
    <2> QED BY <1>t, <1>u, <2>1, <2>2 DEF Closing
  <1>9. Grows
        BY <1>t, <1>u, <1>1, <1>4, <1>6, MountsKept DEF Grows, Kind
  <1> QED BY <1>t, <1>u, <1>3, <1>5, <1>6, <1>7, <1>8, <1>9, LineageKept, MountsKept, NobodyObserves,
             CombineOutside

\* One runtime of the lineage is removed, the original last.
LEMMA RetireRuntimeStep ==
    ASSUME ServeInv, NEW d \in Delivery, RetireRuntime(d)
    PROVE  ServeInv'
  <1>t. /\ ServeTypeOK /\ action \in [Kind -> [Delivery -> Result]] /\ row \in [Delivery -> Row]
        /\ app \in [Delivery -> App] /\ action["retire"][d] = "unknown" /\ Fits(d) /\ Retiring(d)
        BY TypeParts DEF ServeInv, RetireRuntime, Unretired, Retiring
  <1>l. closed /\ Admitted(d) /\ lock = None
        BY <1>t DEF ServeInv, Closing
  <1>u. UNCHANGED <<route, closed, lock, run>>
        BY DEF RetireRuntime
  <1>1. /\ app' \in [Delivery -> App] /\ \A e \in Delivery \ {d} : app'[e] = app[e]
        /\ app'[d] = "absent" <=> app[d] = "absent"
        /\ HoldsMount(d)' => HoldsMount(d)
    <2>1. app' = Removed(d) \/ app' = app
          BY DEF RetireRuntime
    <2> QED BY <1>t, <2>1, RemovedApp DEF HoldsMount
  <1>2. CASE UNCHANGED <<row, action>>
    <2>1. \A e \in Delivery \ {d} : SameDelivery(e)
          BY <1>1, <1>2 DEF SameDelivery
    <2>2. KeepsLineage
          BY <1>2 DEF KeepsLineage, Retiring
    <2>3. KeepsMounts
          BY <1>1, <1>2 DEF KeepsMounts, HoldsMount, Delivery
    <2>4. Fits(d)'
          BY <1>t, <1>1, <1>2 DEF Fits, Admitted, Retiring
    <2>5. (\A e \in Delivery : Fits(e)' /\ (Admitted(e)' <=> Admitted(e))) /\ Lineage' /\ EpochsFit' /\ Grows
          BY <1>1, <1>2, <2>1, <2>2, <2>3, <2>4, MountsKept, WriteParts
    <2>6. ServeTypeOK'
          BY <1>t, <1>u, <1>1, <1>2, TypeParts, TypePartsNext
    <2>7. Closing'
      <3>1. Unretired' = Unretired
            BY <1>2 DEF Unretired
      <3> QED BY <1>u, <1>2, <2>5, <3>1 DEF ServeInv, Closing
    <2> QED BY <1>t, <1>l, <1>u, <2>3, <2>5, <2>6, <2>7, MountsKept, NobodyObserves, CombineOutside
  <1>3. CASE ~UNCHANGED <<row, action>>
    <2>1. /\ action' = [action EXCEPT !["retire"][d] = "confirmed"]
          /\ row' = [row EXCEPT ![d].inst = "terminated"]
          /\ app[d] = "absent"
          BY <1>t, <1>3 DEF RetireRuntime, Fits
    <2>2. /\ action' \in [Kind -> [Delivery -> Result]] /\ action'["retire"][d] = "confirmed"
          /\ \A k \in Kind, e \in Delivery : k # "retire" \/ e # d => action'[k][e] = action[k][e]
          BY <1>t, <2>1 DEF Kind, Result
    <2>3. /\ row' \in [Delivery -> Row]
          /\ \A e \in Delivery \ {d} : row'[e] = row[e]
          /\ row'[d].op = row[d].op /\ row'[d].status = row[d].status /\ row'[d].epoch = row[d].epoch
          /\ row'[d].prev = row[d].prev /\ row'[d].inst = "terminated"
      <3>1. row[d] \in Row
            BY <1>t
      <3>2. PICK x : x = [row[d] EXCEPT !.inst = "terminated"]
            OBVIOUS
      <3>3. /\ x \in Row /\ x.op = row[d].op /\ x.status = row[d].status /\ x.epoch = row[d].epoch
            /\ x.prev = row[d].prev /\ x.inst = "terminated"
            BY <3>1, <3>2 DEF Row
      <3>4. row' = [row EXCEPT ![d] = x]
            BY <2>1, <3>2
      <3> QED BY <1>t, <3>3, <3>4
    <2>4. \A e \in Delivery \ {d} : SameDelivery(e)
          BY <1>1, <2>2, <2>3 DEF SameDelivery
    <2>5. \A e \in Delivery : (Retiring(e)' <=> Retiring(e)) /\ (Admitted(e)' <=> Admitted(e))
          BY <1>t, <2>2, <2>3 DEF Retiring, Admitted, Kind
    <2>6. KeepsLineage
          BY <2>3, <2>5 DEF KeepsLineage
    <2>7. KeepsMounts
          BY <1>1, <2>2, <2>3 DEF KeepsMounts, HoldsMount, Delivery, Kind
    <2>8. Fits(d)'
      <3>1. \A k \in Kind \ {"retire"} : action'[k][d] = action[k][d]
            BY <2>2
      <3>2. PICK e : e = row[d].prev /\ e = row'[d].prev
            BY <2>3
      <3>3. e \in Delivery /\ Admitted(e) => Admitted(e)' /\ row'[e].epoch = row[e].epoch
            BY <2>5, <2>6 DEF KeepsLineage
      <3> QED BY <1>t, <1>1, <2>1, <2>3, <2>5, <3>1, <3>2, <3>3 DEF Fits, Kind
    <2>9. \A k \in Kind : /\ action[k][d] # "none" => action'[k][d] # "none"
                          /\ action[k][d] = "confirmed" => action'[k][d] = "confirmed"
          BY <2>2
    <2>10. (\A e \in Delivery : Fits(e)' /\ (Admitted(e)' <=> Admitted(e))) /\ Lineage' /\ EpochsFit' /\ Grows
          BY <1>1, <2>4, <2>6, <2>7, <2>8, <2>9, MountsKept, WriteParts
    <2>11. ServeTypeOK'
          BY <1>t, <1>u, <1>1, <2>2, <2>3, TypeParts, TypePartsNext
    <2>12. Closing'
      <3>1. \A e \in Delivery : action'["retire"][e] # "none" <=> action["retire"][e] # "none"
            BY <1>t, <2>2 DEF Kind
      <3>2. \A e \in Delivery : action'["retire"][e] = "unknown" => action["retire"][e] = "unknown" /\ e # d
            BY <2>2 DEF Kind
      <3>3. action'["retire"][Original] = "confirmed" => Unretired' = {}
        <4>1. CASE d = Original
          <5>1. \A e \in Unretired : e = Original
                BY <4>1 DEF RetireRuntime, RetireNext
          <5> QED BY <3>2, <4>1, <5>1 DEF Unretired
        <4>2. CASE d # Original
          <5>1. action'["retire"][Original] = action["retire"][Original]
                BY <2>2, <4>2 DEF Kind, Delivery
          <5>2. action["retire"][Original] # "confirmed"
                BY DEF ServeInv, Closing, RetireRuntime
          <5> QED BY <5>1, <5>2
        <4> QED BY <4>1, <4>2
      <3> QED BY <1>u, <2>5, <3>1, <3>3 DEF ServeInv, Closing
    <2> QED BY <1>t, <1>l, <1>u, <2>7, <2>10, <2>11, <2>12, MountsKept, NobodyObserves, CombineOutside
  <1> QED BY <1>2, <1>3

-----------------------------------------------------------------------------
(* Admission and activation.                                                *)

\* The current delivery has succeeded.
LEMMA CurrentSucceeded ==
    ASSUME ServeInv, NEW c \in Current
    PROVE  c \in Delivery /\ row[c].op = "succeeded"
  <1>1. c \in Delivery /\ row[c].status = "active"
        BY DEF Current
  <1>2. Fits(c) /\ row[c].op \in {"none", "accepted", "admitted", "succeeded"}
        BY <1>1, TypeFacts DEF ServeInv
  <1> QED BY <1>1, <1>2 DEF Fits, Admitted, Open

\* A switch that may be accepted or admitted is alone.
LEMMA AloneUndecided ==
    ASSUME ServeInv, NEW r \in Switch, ~PendingReplacement(r), NEW q \in Switch, Undecided(q)
    PROVE  q = r
  <1>1. Fits(q)
        BY DEF ServeInv, Delivery
  <1>2. CASE row[q].op = "accepted"
        BY <1>1, <1>2 DEF Fits, PendingReplacement
  <1>3. CASE row[q].op = "admitted" /\ row[q].inst # "terminated"
        BY <1>1, <1>3 DEF Fits, PendingReplacement
  <1> QED BY <1>2, <1>3 DEF Undecided

\* An update is accepted.
LEMMA AcceptStep ==
    ASSUME ServeInv, NEW h \in Handler, AcceptReplacement(h)
    PROVE  ServeInv'
  <1>t. ServeTypeOK /\ row \in [Delivery -> Row] /\ lock = None /\ run[h].at = "admit"
        BY TypeParts DEF ServeInv, AcceptReplacement
  <1>r. PICK r \in Switch : r = run[h].switch /\ r \in Delivery
        BY <1>t DEF ServeInv, Handles, Delivery
  <1>u. /\ UNCHANGED <<action, app, route, closed, lock, run>>
        /\ row' = [row EXCEPT ![r].op = "accepted"]
        /\ r \notin Rollback /\ row[r].op = "none" /\ ~PendingReplacement(r)
        BY <1>r DEF AcceptReplacement
  <1>1. /\ row' \in [Delivery -> Row]
        /\ \A e \in Delivery \ {r} : row'[e] = row[e]
        /\ row'[r].op = "accepted" /\ row'[r].status = row[r].status /\ row'[r].epoch = row[r].epoch
        /\ row'[r].prev = row[r].prev /\ row'[r].inst = row[r].inst
        BY <1>t, <1>r, <1>u DEF Row
  <1>2. \A e \in Delivery : /\ Admitted(e)' <=> Admitted(e)
                            /\ row'[e].epoch = row[e].epoch /\ row'[e].prev = row[e].prev
                            /\ row'[e].op = "admitted" <=> row[e].op = "admitted"
                            /\ row'[e].op = "succeeded" <=> row[e].op = "succeeded"
                            /\ e \in Current' <=> e \in Current
                            /\ Retiring(e)' <=> Retiring(e)
        BY <1>u, <1>1 DEF Admitted, Current, Retiring
  <1>3. ServeTypeOK'
        BY <1>t, <1>u, <1>1, TypeParts, TypePartsNext
  <1>4. \A e \in Delivery : Fits(e)'
    <2>1. AdmittedStay
          BY <1>2 DEF AdmittedStay
    <2>2. ASSUME NEW e \in Delivery \ {r} PROVE Fits(e)'
      <3>1. SameDelivery(e)
            BY <1>u, <1>1, <2>2 DEF SameDelivery
      <3> QED BY <2>1, <3>1, OtherFits
    <2>3. Fits(r)'
      <3>1. Fits(r) /\ ~Admitted(r) /\ ~Admitted(r)'
            BY <1>r, <1>u, <1>1 DEF ServeInv, Admitted
      <3>2. r # Original
            BY SwitchAssumption
      <3> QED BY <1>u, <1>1, <3>1, <3>2 DEF Fits, Retiring
    <2> QED BY <2>2, <2>3
  <1>5. EpochsFit'
    <2>1. AdmittedSwitches' = AdmittedSwitches
          BY <1>2 DEF AdmittedSwitches, Delivery
    <2> QED BY <1>2, <2>1 DEF ServeInv, EpochsFit
  <1>6. Lineage'
    <2>1. ASSUME NEW q \in Switch, Undecided(q)' PROVE q = r
      <3>1. q # r => Undecided(q)
            BY <1>1, <2>1 DEF Undecided, Delivery
      <3> QED BY <1>u, <3>1, AloneUndecided
    <2> QED BY <1>2, <2>1 DEF ServeInv, Lineage
  <1>7. KeepsMounts
        BY <1>u, <1>2 DEF KeepsMounts, HoldsMount, Delivery
  <1>8. Closing'
    <2>1. Unretired' = Unretired
          BY <1>u DEF Unretired
    <2> QED BY <1>u, <1>2, <2>1 DEF ServeInv, Closing
  <1>9. Grows
        BY <1>u, <1>2, <1>7, MountsKept DEF Grows
  <1> QED BY <1>t, <1>u, <1>3, <1>4, <1>5, <1>6, <1>7, <1>8, <1>9, MountsKept, NobodyObserves,
             CombineOutside

\* A replacement is admitted: its epoch is above every delivery that succeeded.
LEMMA AdmitStep ==
    ASSUME ServeInv, NEW h \in Handler, AdmitReplacement(h)
    PROVE  ServeInv'
  <1>t. /\ ServeTypeOK /\ row \in [Delivery -> Row] /\ lock = None /\ run[h].at = "admit" /\ ~closed
        /\ h # None
        BY TypeParts, SwitchAssumption DEF ServeInv, AdmitReplacement
  <1>r. PICK r \in Switch : r = run[h].switch /\ r \in Delivery
        BY <1>t DEF ServeInv, Handles, Delivery
  <1>c. PICK c : c = row[r].want /\ Current = {c}
        BY <1>r DEF AdmitReplacement
  <1>d. c \in Current /\ c \in Delivery /\ row[c].op = "succeeded" /\ row[c].epoch \in Nat
        BY <1>t, <1>c, CurrentSucceeded, TypeFacts
  <1>u. /\ UNCHANGED <<action, app, route, closed, lock>> /\ Step(h, "accept")
        /\ row' = [row EXCEPT ![r] =
                     [@ EXCEPT !.status = "queued", !.inst = "pending", !.op = "admitted",
                               !.epoch = row[c].epoch + 1, !.prev = c]]
        /\ row[r].op \in {"none", "accepted"} /\ ~PendingReplacement(r)
        BY <1>r, <1>c DEF AdmitReplacement
  <1>n. /\ Fits(r) /\ ~Admitted(r) /\ r # c /\ r # Original
        /\ action["retire"][r] = "none" /\ app[r] = "absent"
        /\ \A k \in {"start", "stop", "resume", "terminate"} : action[k][r] = "none"
    <2>1. Fits(r) /\ ~Admitted(r) /\ r # c /\ r # Original
          BY <1>r, <1>d, <1>u, SwitchAssumption DEF ServeInv, Admitted
    <2>2. action["retire"][r] = "none"
          BY <1>t, <1>r DEF ServeInv, Closing
    <2> QED BY <2>1, <2>2 DEF Fits
  <1>1. /\ \A e \in Delivery \ {r} : row'[e] = row[e]
        /\ row'[r].op = "admitted" /\ row'[r].status = "queued" /\ row'[r].epoch = row[c].epoch + 1
        /\ row'[r].prev = c /\ row'[r].inst = "pending" /\ row'[r].want = row[r].want
    <2>1. row[r] \in Row
          BY <1>t, <1>r
    <2> QED BY <1>t, <1>r, <1>u, <2>1 DEF Row
  <1>2. \A e \in Delivery \ {r} :
            /\ Admitted(e)' <=> Admitted(e)
            /\ row'[e].op = row[e].op /\ row'[e].epoch = row[e].epoch /\ row'[e].prev = row[e].prev
            /\ row'[e].inst = row[e].inst
        BY <1>1 DEF Admitted
  <1>3. \A e \in Delivery : (Retiring(e)' <=> Retiring(e)) /\ (e \in Current' <=> e = c)
    <2>1. \A e \in Delivery : e \in Current <=> e = c
          BY <1>c
    <2>2. r \notin Current'
          BY <1>1 DEF Current
    <2>3. \A e \in Delivery \ {r} : e \in Current' <=> e \in Current
          BY <1>1 DEF Current
    <2> QED BY <1>n, <1>u, <2>1, <2>2, <2>3 DEF Retiring
  <1>4. EpochsFit' /\ row[c].epoch + 1 \in 0..(1 + Cardinality(Switch))
    <2>1. AdmittedSwitches' = AdmittedSwitches \cup {r} /\ r \notin AdmittedSwitches
      <3>1. Admitted(r)'
            BY <1>1 DEF Admitted
      <3> QED BY <1>n, <1>2, <3>1 DEF AdmittedSwitches, Delivery
    <2>2. AdmittedSwitches \subseteq Switch /\ AdmittedSwitches' \subseteq Switch
          BY DEF AdmittedSwitches
    <2>3. /\ IsFiniteSet(AdmittedSwitches) /\ IsFiniteSet(AdmittedSwitches')
          /\ Cardinality(AdmittedSwitches') <= Cardinality(Switch)
          BY <2>2, FS_Subset, SwitchAssumption
    <2>4. /\ Cardinality(AdmittedSwitches) \in Nat /\ Cardinality(Switch) \in Nat
          /\ Cardinality(AdmittedSwitches') = Cardinality(AdmittedSwitches) + 1
          BY <2>1, <2>3, FS_AddElement, FS_CardinalityType, SwitchAssumption
    <2>5. \A e \in Delivery : row[e].epoch \in Nat /\ row[e].epoch <= 1 + Cardinality(AdmittedSwitches)
          BY <1>t, TypeFacts DEF ServeInv, EpochsFit
    <2>6. \A e \in Delivery : row'[e].epoch <= 1 + Cardinality(AdmittedSwitches')
      <3>1. \A e \in Delivery \ {r} : row'[e].epoch = row[e].epoch
            BY <1>2
      <3> QED BY <1>d, <1>1, <2>4, <2>5, <3>1
    <2>7. EpochsFit'
          BY <2>6 DEF EpochsFit
    <2> QED BY <1>d, <2>3, <2>4, <2>5, <2>7
  <1>5. row' \in [Delivery -> Row]
    <2>1. row[r] \in Row
          BY <1>t, <1>r
    <2>2. [row[r] EXCEPT !.status = "queued", !.inst = "pending", !.op = "admitted",
                         !.epoch = row[c].epoch + 1, !.prev = c] \in Row
          BY <1>d, <1>4, <2>1 DEF Row, Open
    <2> QED BY <1>t, <1>u, <2>2
  <1>6. /\ run' \in [Handler -> Run] /\ lock' \in Handler \cup {None}
        /\ run'[h].at = "accept" /\ run'[h].switch = r
        /\ \A g \in Handler \ {h} : run'[g] = run[g]
        /\ \A g \in Handler : run'[g].at \in Held <=> lock' = g
        BY <1>t, <1>r, <1>u, Stepped DEF At, Held
  <1>7. ServeTypeOK'
        BY <1>t, <1>u, <1>5, <1>6, TypeParts, TypePartsNext
  <1>8. \A e \in Delivery : Fits(e)'
    <2>1. AdmittedStay
          BY <1>n, <1>2 DEF AdmittedStay
    <2>2. ASSUME NEW e \in Delivery \ {r} PROVE Fits(e)'
      <3>1. SameDelivery(e)
            BY <1>u, <1>1, <2>2 DEF SameDelivery
      <3> QED BY <2>1, <3>1, OtherFits
    <2>3. Fits(r)'
      <3>1. Admitted(r)' /\ Admitted(c)' /\ row'[c].epoch = row[c].epoch
            BY <1>d, <1>n, <1>1, <1>2 DEF Admitted
      <3> QED BY <1>d, <1>n, <1>u, <1>1, <3>1 DEF Fits, Open
    <2> QED BY <2>2, <2>3
  <1>9. Lineage'
    <2>1. \A e \in Delivery : row[e].op = "succeeded" => row[e].epoch <= row[c].epoch
          BY <1>d, <1>t, TypeFacts DEF ServeInv, Lineage
    <2>2. ASSUME NEW q \in Switch, q # r PROVE ~Undecided(q) /\ ~Undecided(q)'
      <3>1. ~Undecided(q)
            BY <1>u, <2>2, AloneUndecided
      <3> QED BY <1>2, <2>2, <3>1 DEF Undecided, Delivery
    <2>3. ASSUME NEW e \in Delivery \ {r}, row[e].op = "admitted" PROVE Retiring(e)
      <3>1. Fits(e)
            BY DEF ServeInv
      <3>2. e \in Switch
            BY <2>3, <3>1 DEF Fits, Delivery
      <3> QED BY <2>2, <2>3, <3>1, <3>2 DEF Undecided, Fits
    <2>4. ASSUME NEW e \in Delivery \ {r}, Admitted(e), row[e].epoch = row[c].epoch + 1
          PROVE  row[e].op = "admitted" /\ Retiring(e)
          BY <1>d, <2>1, <2>3, <2>4 DEF Admitted
    <2>5. \A q, s \in Switch : Undecided(q)' /\ Undecided(s)' => q = s
          BY <2>2
    <2>6. ASSUME NEW e \in Delivery, NEW f \in Delivery, e # f, Admitted(e)', Admitted(f)',
                 row'[e].epoch = row'[f].epoch
          PROVE  \/ row'[e].op = "admitted" /\ Retiring(e)'
                 \/ row'[f].op = "admitted" /\ Retiring(f)'
      <3>1. CASE e = r
            BY <1>1, <1>2, <1>3, <2>4, <2>6, <3>1
      <3>2. CASE f = r
            BY <1>1, <1>2, <1>3, <2>4, <2>6, <3>2
      <3>3. CASE e # r /\ f # r
            BY <1>2, <1>3, <2>6, <3>3 DEF ServeInv, Lineage
      <3> QED BY <3>1, <3>2, <3>3
    <2>7. ASSUME NEW e \in Delivery, NEW f \in Delivery
          PROVE  /\ e \in Current' /\ row'[f].op = "succeeded" /\ e # f => row'[f].epoch < row'[e].epoch
                 /\ row'[e].op = "admitted" /\ ~Retiring(e)' =>
                      /\ f \in Current' => f = row'[e].prev
                      /\ row'[f].op = "succeeded" => row'[f].epoch < row'[e].epoch
      <3>1. e \in Current' /\ row'[f].op = "succeeded" /\ e # f => row'[f].epoch < row'[e].epoch
            BY <1>d, <1>n, <1>1, <1>2, <1>3 DEF ServeInv, Lineage
      <3>2. row'[e].op = "admitted" /\ ~Retiring(e)' => e = r
            BY <1>2, <1>3, <2>3
      <3>3. row'[f].op = "succeeded" => f # r /\ row'[f].epoch <= row[c].epoch
            BY <1>1, <1>2, <2>1
      <3>4. row'[f].op = "succeeded" => row'[f].epoch < row'[r].epoch
        <4>1. \A x \in Delivery \ {r} : row'[x].epoch \in Nat
              BY <1>t, <1>2, TypeFacts
        <4> QED BY <1>d, <1>1, <3>3, <4>1
      <3> QED BY <1>1, <1>3, <3>1, <3>2, <3>4
    <2> QED BY <2>5, <2>6, <2>7 DEF Lineage
  <1>10. \A e \in Delivery : Down(e) => Down(e)'
    <2>1. \A q \in Switch \ {r} : row'[q].prev = row[q].prev
          BY <1>2 DEF Delivery
    <2> QED BY <1>n, <1>u, <2>1 DEF Down, HoldsMount
  <1>11. Mounts'
    <2>1. ASSUME NEW q \in Switch \ {r}, row[q].prev # None
          PROVE  /\ action["stop"][q] = "confirmed" => Down(row[q].prev)'
                 /\ app[q] # "absent" /\ Exclusive(q, row[q].prev) => action["stop"][q] = "confirmed"
      <3>1. PICK e \in Delivery : e = row[q].prev /\ e = row'[q].prev
            BY <1>t, <1>2, <2>1, TypeFacts DEF Delivery
      <3> QED BY <1>10, <2>1, <3>1 DEF ServeInv, Mounts
    <2>2. \A q \in Switch \ {r} : row'[q].prev = row[q].prev
          BY <1>2 DEF Delivery
    <2> QED BY <1>n, <1>u, <2>1, <2>2 DEF Mounts
  <1>12. Closing'
    <2>1. \A e \in Delivery : action["retire"][e] = "none"
          BY <1>t DEF ServeInv, Closing
    <2> QED BY <1>t, <1>u, <2>1 DEF Closing, Delivery
  <1>13. Grows
        BY <1>n, <1>u, <1>2, <1>10 DEF Grows
  <1>14. Handles(h)'
        BY <1>1, <1>6 DEF Handles, Admitted
  <1> QED BY <1>t, <1>4, <1>6, <1>7, <1>8, <1>9, <1>11, <1>12, <1>13, <1>14, NoObserver, Combine

\* What holds while a delivery is observed.
LEMMA Observing ==
    ASSUME ServeInv, NEW h \in Handler, run[h].at = "observe"
    PROVE  /\ lock = h /\ ~closed /\ Handles(h) /\ run[h].switch \in Switch
           /\ \A r \in Switch : r = run[h].switch =>
                /\ Admitted(r) /\ Fits(r) /\ row[r].prev \in Delivery /\ row[r].prev # r
                /\ action["start"][r] # "none" /\ row[r].inst # "terminated"
                /\ ~Retiring(r) /\ ~StaleEpoch(r) /\ app[r] # "absent"
                /\ \A e \in Delivery : row[e].epoch <= row[r].epoch
  <1>1. ServeTypeOK /\ Handles(h) /\ h # None
        BY SwitchAssumption DEF ServeInv
  <1>2. lock = h
        BY <1>1, TypeParts DEF Held
  <1>3. ~closed
        BY <1>1, <1>2 DEF ServeInv, Closing
  <1>4. run[h].switch \in Switch
        BY <1>1 DEF Handles
  <1>5. ASSUME NEW r \in Switch, r = run[h].switch
        PROVE  /\ Admitted(r) /\ Fits(r) /\ row[r].prev \in Delivery /\ row[r].prev # r
               /\ action["start"][r] # "none" /\ row[r].inst # "terminated"
               /\ ~Retiring(r) /\ ~StaleEpoch(r) /\ app[r] # "absent"
               /\ \A e \in Delivery : row[e].epoch <= row[r].epoch
    <2>1. /\ Admitted(r) /\ action["start"][r] # "none"
          /\ ~Retiring(r) /\ ~StaleEpoch(r) /\ app[r] # "absent"
          BY <1>1, <1>5 DEF Handles
    <2>2. Fits(r) /\ \A e \in Delivery : row[e].epoch \in Nat
          BY <1>1, TypeFacts DEF ServeInv, Delivery
    <2>3. row[r].prev \in Delivery /\ row[row[r].prev].epoch < row[r].epoch /\ row[r].inst # "terminated"
          BY <2>1, <2>2 DEF Fits
    <2>4. \A e \in Delivery : row[e].epoch <= row[r].epoch
      <3>1. \A e \in Delivery : ~(row[e].epoch > row[r].epoch)
            BY <2>1 DEF StaleEpoch
      <3> QED BY <2>2, <3>1 DEF Delivery
    <2>5. row[r].prev # r
          BY <2>2, <2>3
    <2> QED BY <2>1, <2>2, <2>3, <2>4, <2>5
  <1> QED BY <1>1, <1>2, <1>3, <1>4, <1>5

\* An observation that is not a ready one.
LEMMA NotReady ==
    ASSUME ServeInv, NEW h \in Handler, FinishDelivery(h), Observed(run[h].switch) # "ready"
    PROVE  ServeInv'
  <1>t. /\ ServeTypeOK /\ row \in [Delivery -> Row] /\ app \in [Delivery -> App]
        /\ run[h].at = "observe" /\ h # None
        BY TypeParts, SwitchAssumption DEF ServeInv, FinishDelivery
  <1>o. lock = h /\ ~closed /\ run[h].switch \in Switch
        BY <1>t, Observing
  <1>r. PICK r \in Switch : r = run[h].switch
        BY <1>o
  <1>s. /\ Admitted(r) /\ Fits(r) /\ action["start"][r] # "none" /\ row[r].inst # "terminated"
        /\ ~Retiring(r) /\ app[r] # "absent" /\ r \in Delivery /\ app[r] \in App
        BY <1>t, <1>r, Observing DEF Delivery
  <1>u. /\ UNCHANGED <<action, app, route, closed>> /\ lock' = None /\ Step(h, "readback")
        /\ row' = [row EXCEPT ![r].status = "verifying", ![r].inst = Observed(r)]
        BY <1>r DEF FinishDelivery
  <1>1. Observed(r) \in {"starting", "failed"}
        BY <1>r, <1>s DEF Observed, App
  <1>2. /\ row' \in [Delivery -> Row]
        /\ \A e \in Delivery \ {r} : row'[e] = row[e]
        /\ row'[r].op = row[r].op /\ row'[r].epoch = row[r].epoch /\ row'[r].prev = row[r].prev
        /\ row'[r].status = "verifying" /\ row'[r].inst # "terminated"
    <2>1. PICK o \in {"starting", "failed"} : o = Observed(r)
          BY <1>1
    <2>2. row[r] \in Row /\ row' = [row EXCEPT ![r] = [row[r] EXCEPT !.status = "verifying", !.inst = o]]
          BY <1>t, <1>s, <1>u, <2>1
    <2>3. PICK x : x = [row[r] EXCEPT !.status = "verifying", !.inst = o]
          OBVIOUS
    <2>4. /\ x \in Row /\ x.op = row[r].op /\ x.epoch = row[r].epoch /\ x.prev = row[r].prev
          /\ x.status = "verifying" /\ x.inst # "terminated"
          BY <2>2, <2>3 DEF Row, Open
    <2> QED BY <1>t, <1>s, <2>2, <2>3, <2>4
  <1>3. /\ run' \in [Handler -> Run] /\ lock' \in Handler \cup {None}
        /\ run'[h].at = "readback" /\ run'[h].switch = r
        /\ \A g \in Handler \ {h} : run'[g] = run[g]
        /\ \A g \in Handler : run'[g].at \in Held <=> lock' = g
        BY <1>t, <1>o, <1>r, <1>u, Stepped DEF At, Held
  <1>4. ServeTypeOK'
        BY <1>t, <1>u, <1>2, <1>3, TypeParts, TypePartsNext
  <1>5. \A e \in Delivery \ {r} : SameDelivery(e)
        BY <1>u, <1>2 DEF SameDelivery
  <1>6. \A e \in Delivery : (Retiring(e)' <=> Retiring(e)) /\ (Admitted(e)' <=> Admitted(e))
        BY <1>u, <1>2 DEF Retiring, Admitted
  <1>7. KeepsLineage
        BY <1>s, <1>2, <1>6 DEF KeepsLineage
  <1>8. KeepsMounts
        BY <1>u, <1>2 DEF KeepsMounts, HoldsMount, Delivery
  <1>9. Fits(r)'
    <2>1. PICK e : e = row[r].prev /\ e = row'[r].prev
          BY <1>2
    <2>2. e \in Delivery /\ Admitted(e) => Admitted(e)' /\ row'[e].epoch = row[e].epoch
          BY <1>6, <1>7 DEF KeepsLineage
    <2> QED BY <1>s, <1>u, <1>2, <1>6, <2>1, <2>2 DEF Fits, Open
  <1>10. Handles(h)'
        BY <1>s, <1>u, <1>3, <1>6 DEF Handles
  <1>11. Mounts' /\ \A e \in Delivery : Displaced(e) /\ Down(e) => Down(e)'
        BY <1>8, MountsKept
  <1>12. \A g \in Handler \ {h} : run'[g] = run[g] /\ ObserverKept(g)
        BY <1>t, <1>o, <1>3, NoObserver
  <1>13. /\ \A k \in Kind : /\ action[k][r] # "none" => action'[k][r] # "none"
                            /\ action[k][r] = "confirmed" => action'[k][r] = "confirmed"
         /\ action["terminate"][r] # "none" /\ app[r] = "absent" => app'[r] = "absent"
         /\ closed' = closed /\ (closed => lock' = None) /\ action'["retire"] = action["retire"]
        BY <1>o, <1>u
  <1> QED BY <1>s, <1>4, <1>5, <1>7, <1>9, <1>10, <1>11, <1>12, <1>13, WriteStep

\* A delivery that is observed ready becomes the current one: it is the newest
\* that succeeded, and no other switch is open.
LEMMA Activated ==
    ASSUME ServeInv, NEW h \in Handler, FinishDelivery(h), Observed(run[h].switch) = "ready"
    PROVE  ServeInv'
  <1>t. /\ ServeTypeOK /\ row \in [Delivery -> Row] /\ action \in [Kind -> [Delivery -> Result]]
        /\ run[h].at = "observe" /\ h # None
        BY TypeParts, SwitchAssumption DEF ServeInv, FinishDelivery
  <1>o. lock = h /\ ~closed /\ run[h].switch \in Switch
        BY <1>t, Observing
  <1>r. PICK r \in Switch : r = run[h].switch
        BY <1>o
  <1>s. /\ Admitted(r) /\ Fits(r) /\ action["start"][r] # "none" /\ row[r].inst # "terminated"
        /\ row[r].prev \in Delivery /\ row[r].prev # r /\ ~Retiring(r) /\ r \in Delivery
        /\ \A e \in Delivery : row[e].epoch <= row[r].epoch
        BY <1>t, <1>r, Observing DEF Delivery
  <1>u. /\ UNCHANGED <<app, closed>> /\ lock' = None /\ Step(h, "readback") /\ route' = r
        /\ action' = [action EXCEPT !["start"][r] = "confirmed"]
        /\ Current \subseteq Replaced(r) \cup {r}
        /\ row' = [d \in Delivery |->
                     IF d = r
                     THEN [row[d] EXCEPT !.status = "active", !.inst = "ready", !.op = "succeeded"]
                     ELSE IF d \in Replaced(r) THEN [row[d] EXCEPT !.status = "superseded"]
                     ELSE row[d]]
        BY <1>r DEF FinishDelivery, Activates
  <1>1. /\ row'[r] \in Row
        /\ row'[r].op = "succeeded" /\ row'[r].epoch = row[r].epoch /\ row'[r].prev = row[r].prev
        /\ row'[r].status = "active" /\ row'[r].inst = "ready"
    <2>1. row[r] \in Row /\ row'[r] = [row[r] EXCEPT !.status = "active", !.inst = "ready", !.op = "succeeded"]
          BY <1>t, <1>s, <1>u
    <2> QED BY <2>1 DEF Row, Open
  <1>2. ASSUME NEW e \in Delivery \ {r}
        PROVE  /\ row'[e] \in Row
               /\ row'[e].op = row[e].op /\ row'[e].epoch = row[e].epoch /\ row'[e].prev = row[e].prev
               /\ row'[e].inst = row[e].inst /\ row'[e].status # "active"
               /\ \/ row'[e].status = row[e].status
                  \/ row'[e].status = "superseded" /\ row[e].op = "succeeded"
    <2>1. row[e] \in Row
          BY <1>t
    <2>2. CASE e \in Replaced(r)
      <3>1. row'[e] = [row[e] EXCEPT !.status = "superseded"]
            BY <1>u, <2>2
      <3>2. row[e].op = "succeeded"
            BY <2>2, CurrentSucceeded DEF Replaced
      <3> QED BY <2>1, <3>1, <3>2 DEF Row
    <2>3. CASE e \notin Replaced(r)
      <3>1. row'[e] = row[e]
            BY <1>u, <2>3
      <3>2. row[e].status # "active"
            BY <1>u, <2>3 DEF Current
      <3> QED BY <2>1, <3>1, <3>2
    <2> QED BY <2>2, <2>3
  <1>3. row' \in [Delivery -> Row]
        BY <1>u, <1>1, <1>2
  <1>4. /\ action' \in [Kind -> [Delivery -> Result]] /\ action'["start"][r] = "confirmed"
        /\ \A k \in Kind, e \in Delivery : k # "start" \/ e # r => action'[k][e] = action[k][e]
        /\ action'["retire"] = action["retire"]
        BY <1>t, <1>s, <1>u DEF Kind, Result
  <1>5. /\ run' \in [Handler -> Run] /\ lock' \in Handler \cup {None}
        /\ run'[h].at = "readback" /\ run'[h].switch = r
        /\ \A g \in Handler \ {h} : run'[g] = run[g]
        /\ \A g \in Handler : run'[g].at \in Held <=> lock' = g
        BY <1>t, <1>o, <1>r, <1>u, Stepped DEF At, Held
  <1>6. ServeTypeOK'
        BY <1>t, <1>s, <1>u, <1>3, <1>4, <1>5, TypeParts, TypePartsNext
  <1>7. \A e \in Delivery : /\ Retiring(e)' <=> Retiring(e)
                            /\ Admitted(e)' <=> Admitted(e)
                            /\ row'[e].epoch = row[e].epoch /\ row'[e].prev = row[e].prev
                            /\ e \in Current' => e = r
                            /\ row'[e].op = "admitted" => e # r /\ row[e].op = "admitted"
                            /\ row'[e].op = "succeeded" /\ e # r => row[e].op = "succeeded"
        BY <1>s, <1>1, <1>2, <1>4 DEF Retiring, Admitted, Current, Kind
  <1>8. EpochsFit'
    <2>1. AdmittedSwitches' = AdmittedSwitches
          BY <1>7 DEF AdmittedSwitches, Delivery
    <2> QED BY <1>7, <2>1 DEF ServeInv, EpochsFit
  <1>9. Lineage'
    <2>1. ASSUME NEW q \in Switch, Undecided(q)' PROVE Undecided(q)
      <3>1. q # r
            BY <1>1, <2>1 DEF Undecided
      <3> QED BY <1>2, <2>1, <3>1 DEF Undecided, Delivery
    <2>2. ASSUME NEW d \in Delivery, NEW e \in Delivery, d # e, Admitted(d), Admitted(e),
                 row[d].epoch = row[e].epoch
          PROVE  \/ row[d].op = "admitted" /\ Retiring(d) /\ d # r
                 \/ row[e].op = "admitted" /\ Retiring(e) /\ e # r
          BY <1>s, <2>2 DEF ServeInv, Lineage
    <2>3. ASSUME NEW e \in Delivery, e # r, row[e].op = "succeeded" PROVE row[e].epoch < row[r].epoch
      <3>1. row[e].epoch # row[r].epoch
            BY <1>s, <2>2, <2>3 DEF Admitted
      <3>2. row[e].epoch \in Nat /\ row[r].epoch \in Nat
            BY <1>t, <1>s, TypeFacts
      <3> QED BY <1>s, <3>1, <3>2
    <2>4. ASSUME NEW d \in Delivery, d # r, row[d].op = "admitted" PROVE Retiring(d)
      <3>1. Fits(d)
            BY DEF ServeInv
      <3>2. d \in Switch
            BY <2>4, <3>1 DEF Fits, Delivery
      <3>3. CASE row[r].op = "admitted"
        <4>1. Undecided(r) /\ ~Undecided(d)
              BY <1>s, <2>4, <3>2, <3>3 DEF ServeInv, Lineage, Undecided
        <4> QED BY <2>4, <3>1, <4>1 DEF Fits, Undecided
      <3>4. CASE row[r].op = "succeeded"
        <4>1. ~Retiring(d) => row[r].epoch < row[d].epoch
              BY <1>s, <2>4, <3>4 DEF ServeInv, Lineage
        <4>2. row[d].epoch \in Nat /\ row[r].epoch \in Nat /\ row[d].epoch <= row[r].epoch
              BY <1>t, <1>s, TypeFacts
        <4> QED BY <4>1, <4>2
      <3> QED BY <1>s, <3>3, <3>4 DEF Admitted
    <2>5. \A q, s \in Switch : Undecided(q)' /\ Undecided(s)' => q = s
          BY <2>1 DEF ServeInv, Lineage
    <2>6. ASSUME NEW d \in Delivery, NEW e \in Delivery, d # e, Admitted(d)', Admitted(e)',
                 row'[d].epoch = row'[e].epoch
          PROVE  \/ row'[d].op = "admitted" /\ Retiring(d)'
                 \/ row'[e].op = "admitted" /\ Retiring(e)'
          BY <1>2, <1>7, <2>2, <2>6
    <2>7. ASSUME NEW d \in Delivery, NEW e \in Delivery
          PROVE  /\ d \in Current' /\ row'[e].op = "succeeded" /\ d # e => row'[e].epoch < row'[d].epoch
                 /\ ~(row'[d].op = "admitted" /\ ~Retiring(d)')
          BY <1>7, <2>3, <2>4
    <2> QED BY <2>5, <2>6, <2>7 DEF Lineage
  <1>10. ASSUME NEW e \in Delivery PROVE Fits(e)'
    <2>1. Fits(e)
          BY DEF ServeInv
    <2>2. PICK p : p = row[e].prev /\ p = row'[e].prev
          BY <1>7
    <2>3. p \in Delivery /\ Admitted(p) => Admitted(p)' /\ row'[p].epoch = row[p].epoch
          BY <1>7
    <2>4. CASE e = r
      <3>1. \A k \in {"stop", "resume", "terminate", "retire"} : action'[k][r] = action[k][r]
            BY <1>s, <1>4 DEF Kind
      <3>2. /\ Admitted(r)' /\ ~Retiring(r)' /\ p \in Delivery /\ Admitted(p)' /\ p = row'[r].prev
            /\ row'[p].epoch < row'[r].epoch
            BY <1>s, <1>7, <2>2, <2>3, <2>4 DEF Fits
      <3>3. app[r] \notin {"absent", "removing", "clearing"}
            BY <1>r DEF Observed
      <3>4. action'["terminate"][r] = "none" /\ action'["retire"][r] = "none" /\ action'["resume"][r] = "none"
            BY <1>s, <3>1 DEF Fits, Retiring
      <3>5. Fits(r)'
            BY <1>u, <1>1, <1>4, <3>2, <3>3, <3>4 DEF Fits
      <3> QED BY <2>4, <3>5
    <2>5. CASE e # r
      <3>1. \A k \in Kind : action'[k][e] = action[k][e]
            BY <1>4, <2>5
      <3>2. /\ row'[e].op = row[e].op /\ row'[e].inst = row[e].inst
            /\ \/ row'[e].status = row[e].status
               \/ row'[e].status = "superseded" /\ row[e].op = "succeeded"
            BY <1>2, <2>5
      <3>3. (Admitted(e)' <=> Admitted(e)) /\ (Retiring(e)' <=> Retiring(e)) /\ app'[e] = app[e]
            BY <1>u, <1>7
      <3>4. e \in Switch /\ Admitted(e)' =>
              p \in Delivery /\ Admitted(p)' /\ row'[p].epoch < row'[e].epoch /\ p = row'[e].prev
            BY <1>7, <2>1, <2>2, <2>3, <3>3 DEF Fits
      <3>5. /\ Admitted(e)' => row'[e].status # "none"
            /\ ~Admitted(e)' => row'[e].status = "none" /\ row'[e].prev = None
            /\ row'[e].op = "admitted" => row'[e].status \in Open
            BY <1>7, <2>1, <3>2, <3>3 DEF Fits, Admitted
      <3>6. \A k \in {"start", "stop", "resume", "terminate", "retire"} : action'[k][e] = action[k][e]
            BY <3>1 DEF Kind
      <3> QED BY <2>1, <3>2, <3>3, <3>4, <3>5, <3>6 DEF Fits
    <2> QED BY <2>4, <2>5
  <1>11. KeepsMounts
        BY <1>u, <1>4, <1>7 DEF KeepsMounts, HoldsMount, Delivery, Kind
  <1>12. Mounts' /\ \A e \in Delivery : Down(e) => Down(e)'
        BY <1>11, MountsKept
  <1>13. Closing'
    <2>1. Unretired' = Unretired
          BY <1>4 DEF Unretired
    <2>2. \A d \in Delivery : action'["retire"][d] = action["retire"][d]
          BY <1>4 DEF Kind
    <2>3. Original \in Delivery
          BY DEF Delivery
    <2>4. Closing /\ ~closed /\ ~closed'
          BY <1>o, <1>u DEF ServeInv
    <2>5. \A d \in Delivery : action'["retire"][d] = "none"
          BY <2>2, <2>4 DEF Closing
    <2> QED BY <2>3, <2>4, <2>5 DEF Closing
  <1>14. Grows
    <2>1. ASSUME NEW e \in Delivery, NEW k \in Kind
          PROVE  /\ action[k][e] # "none" => action'[k][e] # "none"
                 /\ action[k][e] = "confirmed" => action'[k][e] = "confirmed"
          BY <1>4
    <2> QED BY <1>u, <1>7, <1>12, <2>1 DEF Grows
  <1>15. Handles(h)'
        BY <1>s, <1>4, <1>5, <1>7 DEF Handles
  <1> QED BY <1>t, <1>o, <1>5, <1>6, <1>8, <1>9, <1>10, <1>12, <1>13, <1>14, <1>15, NoObserver, Combine

-----------------------------------------------------------------------------
(* The invariant.                                                           *)

\* A step that changes nothing keeps it.
LEMMA Stuttering ==
    ASSUME ServeInv, UNCHANGED vars
    PROVE  ServeInv'
  BY DEF ServeInv, vars, ServeTypeOK, Holder, EpochsFit, AdmittedSwitches, Admitted, Fits, Retiring,
         Lineage, Undecided, Current, Mounts, Down, HoldsMount, Closing, Unretired, Handles, StaleEpoch

\* Every step keeps the invariant.
LEMMA NextServeInv ==
    ASSUME ServeInv, [Next]_vars
    PROVE  ServeInv'
  <1>1. ASSUME NEW h \in Handler, HandlerStep(h) PROVE ServeInv'
    <2>1. CASE RefuseReplacement(h) \/ ReplayReplacement(h) \/ ReadBack(h)
          BY <2>1, AdmissionCalls
    <2>2. CASE LockTransition(h) \/ CallTransition(h) \/ ConfirmTransition(h) \/ RecordTransition(h)
          BY <2>2, LockStep, CallTransitionStep, ConfirmTransitionStep, RecordTransitionStep
    <2>3. CASE AcceptReplacement(h) \/ AdmitReplacement(h) \/ AcceptStart(h) \/ StartRuntime(h)
          BY <2>3, AcceptStep, AdmitStep, AcceptStartStep, StartStep
    <2>4. CASE FinishDelivery(h)
          BY <2>4, NotReady, Activated
    <2>5. CASE RecordRetirement(h) \/ RemoveFailed(h) \/ ConfirmRemoval(h) \/ ClearFailed(h)
          BY <2>5, RecordRetirementStep, RemovalSteps
    <2> QED BY <1>1, <2>1, <2>2, <2>3, <2>4, <2>5 DEF HandlerStep
  <1>2. ASSUME NEW h \in Handler, Break(h) \/ \E r \in Switch : Request(h, r) PROVE ServeInv'
        BY <1>2, AdmissionCalls
  <1>3. CASE Retire
        BY <1>3, RetireStep
  <1>4. ASSUME NEW d \in Delivery, RetireRuntime(d) \/ Converge(d) \/ Falter(d) PROVE ServeInv'
        BY <1>4, RetireRuntimeStep, ExecutorStep
  <1>5. CASE UNCHANGED vars
        BY <1>5, Stuttering
  <1> QED BY <1>1, <1>2, <1>3, <1>4, <1>5 DEF Next

\* The invariant holds in every behaviour.
LEMMA ServeInvariant == Spec => []ServeInv
  <1>1. ServeInv /\ [Next]_vars => ServeInv'
        BY NextServeInv
  <1> QED BY <1>1, InitServeInv, PTL DEF Spec

-----------------------------------------------------------------------------
(* The theorems.                                                            *)

(* Whatever the number of switches and of overlapping calls, the rows, the   *)
(* intents and the executor stay what the code takes them for, and the       *)
(* Workspace lock is held by the one handler that stands where it is needed  *)
(* (lockRuntimeTransition, observeAndFinishDelivery).                         *)
THEOREM TypeCorrect == Spec => []ServeTypeOK
  <1>1. ServeInv => ServeTypeOK
        BY DEF ServeInv
  <1> QED BY <1>1, ServeInvariant, PTL

(* However many callers ask and retry, at most one switch is undecided        *)
(* (refusePendingReplacement).                                                *)
THEOREM OneSwitchIsOpen == Spec => []OneOpenSwitch
  <1>1. ASSUME ServeInv PROVE OneOpenSwitch
    <2>1. PICK S : S = {r \in Switch : \/ row[r].op = "accepted"
                                       \/ row[r].op = "admitted" /\ row[r].inst # "terminated"}
          OBVIOUS
    <2>2. \A q, r \in S : q = r
      <3>1. \A r \in S : r \in Switch /\ Undecided(r)
            BY <2>1 DEF Undecided
      <3> QED BY <1>1, <3>1 DEF ServeInv, Lineage
    <2>3. Cardinality(S) <= 1
      <3>1. CASE S = {}
            BY <3>1, FS_EmptySet
      <3>2. CASE S # {}
        <4>1. PICK r \in S : S = {r}
              BY <2>2, <3>2
        <4>2. Cardinality(S) = 1
              BY <4>1, FS_Singleton
        <4> QED BY <4>2
      <3> QED BY <3>1, <3>2
    <2> QED BY <2>1, <2>3 DEF OneOpenSwitch
  <1> QED BY <1>1, ServeInvariant, PTL

(* A delivery that is observed can always take over: whatever calls ran while  *)
(* it came up, the only other current delivery is the one it replaces, and the *)
(* route is at no newer epoch (validateReserved, commitRouteSwitchTx).         *)
THEOREM ActivationStands == Spec => []ActivationIsNeverUndone
  <1>1. ASSUME ServeInv PROVE ActivationIsNeverUndone
    <2>1. ASSUME NEW h \in Handler, run[h].at = "observe" PROVE Activates(run[h].switch)
      <3>1. PICK r \in Switch : r = run[h].switch
            BY <1>1, <2>1, Observing
      <3>2. /\ Admitted(r) /\ ~Retiring(r) /\ r \in Delivery
            /\ \A e \in Delivery : row[e].epoch <= row[r].epoch
            BY <1>1, <2>1, <3>1, Observing DEF Delivery
      <3>3. ServeTypeOK /\ \A e \in Delivery : row[e].epoch \in Nat
            BY <1>1, TypeFacts DEF ServeInv
      <3>4. ASSUME NEW c \in Current, c # r PROVE c = row[r].prev
        <4>1. c \in Delivery
              BY DEF Current
        <4>2. row[r].op = "succeeded" => row[r].epoch < row[c].epoch
              BY <1>1, <3>2, <3>4, <4>1 DEF ServeInv, Lineage
        <4>3. row[r].op = "admitted"
              BY <3>2, <3>3, <4>1, <4>2 DEF Admitted
        <4> QED BY <1>1, <3>2, <4>1, <4>3 DEF ServeInv, Lineage
      <3>5. Current \subseteq Replaced(r) \cup {r}
            BY <3>4 DEF Replaced
      <3>6. route = None \/ row[r].epoch >= row[route].epoch
        <4>1. route \in Delivery \cup {None}
              BY <3>3, TypeParts
        <4> QED BY <3>2, <3>3, <4>1
      <3> QED BY <3>1, <3>5, <3>6 DEF Activates
    <2> QED BY <2>1 DEF ActivationIsNeverUndone
  <1> QED BY <1>1, ServeInvariant, PTL

(* Once the original reservation is confirmed as retired nothing of the        *)
(* lineage runs, and nothing in flight brings it up again (Retire,             *)
(* refuseClosedWorkspace).                                                     *)
THEOREM ClosedStaysEmpty == Spec => []ClosedIsEmpty
  <1>1. ASSUME ServeInv, action["retire"][Original] = "confirmed", NEW d \in Delivery
        PROVE  app[d] = "absent"
    <2>1. Fits(d) /\ action["retire"][d] \in Result
          BY <1>1, TypeFacts DEF ServeInv, Kind
    <2>2. closed /\ action["retire"][d] # "unknown"
          BY <1>1 DEF ServeInv, Closing, Unretired, Delivery
    <2>3. CASE Admitted(d)
      <3>1. action["retire"][d] = "confirmed"
            BY <1>1, <2>1, <2>2, <2>3 DEF ServeInv, Closing, Result
      <3> QED BY <2>1, <3>1 DEF Fits
    <2>4. CASE ~Admitted(d)
          BY <2>1, <2>4 DEF Fits
    <2> QED BY <2>3, <2>4
  <1>2. ServeInv => ClosedIsEmpty
        BY <1>1 DEF ClosedIsEmpty
  <1> QED BY <1>2, ServeInvariant, PTL

(* A delivery that cannot share its data holds the mount together with the     *)
(* writer it displaced only when another, failed switch over the same writer    *)
(* restores it (transitionCurrentWriter).                                       *)
THEOREM WriterIsDown == Spec => []DisplacedWriterIsDown
  <1>1. ASSUME ServeInv, NEW r \in Switch, NEW d, d = row[r].prev, d # None, Exclusive(r, d),
               HoldsMount(r), HoldsMount(d)
        PROVE  \E q \in Switch \ {r} : row[q].prev = d /\ action["resume"][q] # "none"
    <2>1. app[r] # "absent" /\ Fits(r)
          BY <1>1 DEF HoldsMount, ServeInv, Delivery
    <2>2. Down(d)
          BY <1>1, <2>1 DEF ServeInv, Mounts
    <2>3. PICK q \in Switch : row[q].prev = d /\ action["resume"][q] # "none"
          BY <1>1, <2>2 DEF Down
    <2>4. q # r
          BY <2>1, <2>3 DEF Fits
    <2> QED BY <2>3, <2>4
  <1>2. ServeInv => DisplacedWriterIsDown
        BY <1>1 DEF DisplacedWriterIsDown
  <1> QED BY <1>2, ServeInvariant, PTL
=============================================================================
