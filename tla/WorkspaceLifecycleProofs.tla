---------------------- MODULE WorkspaceLifecycleProofs ----------------------
(***************************************************************************)
(* Proofs about WorkspaceLifecycle for any number of replicas, attempts and  *)
(* faults. The argument is that of the lease: as long as no lease ended under *)
(* its worker, no two events were leased together and no request outlived its  *)
(* caller (~overtaken), one worker at a time is past the lease, so what it    *)
(* read of the key and of the row is still true when it acts on it.           *)
(***************************************************************************)
EXTENDS WorkspaceLifecycle, TLAPS

-----------------------------------------------------------------------------
(* The inductive invariant.                                                 *)

Gone == {"deleting", "deleted"}

\* A finished event has no lease, and only one event has one.
LeasesApart ==
    /\ \A k \in Kind : event[k].status = "none" => event[k].lease = None
    /\ ~overtaken => event["suspend"].lease = None \/ event["resume"].lease = None

\* The row, the key and what was recorded about the key agree; the key of a
\* Workspace that is not being deleted has no closer.
KeyAgrees ==
    /\ closer # "none" => ws \in Gone
    /\ ~overtaken /\ ws = "active" => key # "disabled"
    /\ ~overtaken /\ said = "disabled" /\ key = "active" => event["resume"].status # "none"

\* What a worker's pass entails: past the lease it has the lease; a suspension
\* that is about to take the key has taken the row; an answer it carries is what
\* the key still is.
Fits(w, p) ==
    /\ p.at = "suspend" => p.work = "suspend"
    /\ p.at \in {"confirm", "restore"} => p.work = "resume"
    /\ ~overtaken =>
         /\ p.at \in Leased => event[p.work].lease = w
         /\ p.work = "suspend" /\ p.at \in {"begin_read", "read", "begin_command", "call", "set"}
              => ws # "active"
         /\ p.work = "resume" /\ p.at \in {"mark", "confirm", "restore"}
              => key # "disabled" \/ ws \in Gone
         /\ p.work = "suspend" /\ (p.at = "mark" \/ (p.at = "checkpoint" /\ p.answer = "confirmed"))
              => key # "active"

IInv ==
    /\ LifecycleTypeOK /\ LeasesApart /\ KeyAgrees
    /\ \A w \in Worker : Fits(w, pass[w])

\* A launch that has just succeeded satisfies the invariant.
LEMMA InitIInv == Init => IInv
  <1> SUFFICES ASSUME Init PROVE IInv
      OBVIOUS
  <1> USE LifecycleAssumption DEF Init
  <1>1. LifecycleTypeOK
    <2>1. event \in [Kind -> [status : {"none", "open", "attention"},
                              attempts : 0..RecoveryLimit, lease : Worker \cup {None}]]
          BY DEF NoEvent
    <2>2. NoPass \in [at : {"idle", "take", "lease"} \cup Opening \cup Observing \cup Leased,
                      work : Kind, answer : Answer]
          BY DEF NoPass, Kind, Answer
    <2>3. flips \in 0..MaxFlips /\ lapses \in 0..MaxLapses /\ breaks \in 0..MaxBreaks
          OBVIOUS
    <2> QED BY <2>1, <2>2, <2>3 DEF LifecycleTypeOK
  <1>2. LeasesApart /\ KeyAgrees
        BY DEF LeasesApart, KeyAgrees, Kind, NoEvent
  <1>3. \A w \in Worker : Fits(w, pass[w])
        BY DEF Fits, NoPass, Leased
  <1> QED BY <1>1, <1>2, <1>3 DEF IInv

-----------------------------------------------------------------------------
(* How a worker moves.                                                      *)

Place == {"idle", "take", "lease"} \cup Opening \cup Observing \cup Leased
Pass == [at : Place, work : Kind, answer : Answer]

\* A pass goes on to another place with what it has.
LEMMA GotoFacts ==
    ASSUME LifecycleTypeOK, NEW w \in Worker, NEW place \in Place, Goto(w, place)
    PROVE  \E p \in Pass : /\ pass' = [pass EXCEPT ![w] = p]
                           /\ p.at = place /\ p.work = pass[w].work /\ p.answer = pass[w].answer
  <1> DEFINE p == [pass[w] EXCEPT !.at = place]
  <1>1. pass[w] \in Pass
        BY DEF LifecycleTypeOK, Pass, Place
  <1>2. p \in Pass /\ p.at = place /\ p.work = pass[w].work /\ p.answer = pass[w].answer
        BY <1>1 DEF Pass
  <1>3. pass' = [pass EXCEPT ![w] = p]
        BY DEF Goto
  <1> QED BY <1>2, <1>3

\* A pass that is over.
LEMMA RestFacts ==
    ASSUME NEW w \in Worker, Rest(w)
    PROVE  \E p \in Pass : pass' = [pass EXCEPT ![w] = p] /\ p.at = "idle" /\ p.work = "suspend"
  <1>1. NoPass \in Pass /\ NoPass.at = "idle" /\ NoPass.work = "suspend"
        BY DEF NoPass, Pass, Place, Kind, Answer
  <1> QED BY <1>1 DEF Rest

\* A pass that took up an event.
LEMMA TakeUpFacts ==
    ASSUME NEW w \in Worker, NEW k \in Kind, TakeUp(w, k)
    PROVE  \E p \in Pass : pass' = [pass EXCEPT ![w] = p] /\ p.at = "take" /\ p.work = k
  <1> DEFINE p == [NoPass EXCEPT !.at = "take", !.work = k]
  <1>1. p \in Pass /\ p.at = "take" /\ p.work = k
        BY DEF NoPass, Pass, Place, Kind, Answer
  <1> QED BY <1>1 DEF TakeUp

\* A pass with its answer: a confirmed recovery restores first.
LEMMA AnsweredFacts ==
    ASSUME LifecycleTypeOK, NEW w \in Worker, NEW a \in Answer, Answered(w, a)
    PROVE  \E p \in Pass :
              /\ pass' = [pass EXCEPT ![w] = p] /\ p.work = pass[w].work /\ p.answer = a
              /\ p.at = IF p.work = "resume" /\ a = "confirmed" THEN "restore" ELSE "checkpoint"
  <1> DEFINE place == IF pass[w].work = "resume" /\ a = "confirmed" THEN "restore" ELSE "checkpoint"
             p == [pass[w] EXCEPT !.answer = a, !.at = place]
  <1>1. pass[w] \in Pass /\ place \in Place
        BY DEF LifecycleTypeOK, Pass, Place, Leased
  <1>2. p \in Pass /\ p.at = place /\ p.work = pass[w].work /\ p.answer = a
        BY <1>1 DEF Pass
  <1>3. pass' = [pass EXCEPT ![w] = p]
        BY DEF Answered, Work
  <1> QED BY <1>2, <1>3

\* A step that only moves one worker, to where it fits.
LEMMA PassStep ==
    ASSUME IInv, NEW w \in Worker, NEW p \in Pass, Fits(w, p), pass' = [pass EXCEPT ![w] = p],
           guard' \in Worker \cup {None},
           UNCHANGED <<row, event, said, key, disabled, stray, closer, faults>>
    PROVE  IInv'
  <1>1. LifecycleTypeOK'
        BY DEF IInv, LifecycleTypeOK, row, faults, Pass, Place
  <1>2. LeasesApart' /\ KeyAgrees'
        BY DEF IInv, LeasesApart, KeyAgrees, row, faults
  <1>3. ASSUME NEW v \in Worker PROVE Fits(v, pass[v])'
    <2>1. pass'[v] = IF v = w THEN p ELSE pass[v]
          BY DEF IInv, LifecycleTypeOK
    <2>2. Fits(v, pass'[v])
          BY <2>1 DEF IInv
    <2> QED BY <2>2 DEF Fits, row, faults
  <1> QED BY <1>1, <1>2, <1>3 DEF IInv

\* A worker outside the leased places fits whatever the others do.
LEMMA OutsideFits ==
    ASSUME NEW w \in Worker, NEW p \in Pass, p.at \notin Leased
    PROVE  Fits(w, p)
  BY DEF Fits, Leased

\* While nothing overtook, one worker is past the lease.
LEMMA OneLeased ==
    ASSUME IInv, ~overtaken, NEW v \in Worker, NEW w \in Worker,
           pass[v].at \in Leased, pass[w].at \in Leased
    PROVE  v = w
  <1>1. event[pass[v].work].lease = v /\ event[pass[w].work].lease = w
        BY DEF IInv, Fits
  <1>2. pass[v].work \in Kind /\ pass[w].work \in Kind
        BY DEF IInv, LifecycleTypeOK
  <1> QED BY <1>1, <1>2, LifecycleAssumption DEF IInv, LeasesApart, Kind

\* The steps that only move a worker and may take or release the guard.
LEMMA MovingSteps ==
    ASSUME IInv, NEW w \in Worker,
           \/ SuspendExpired(w) \/ SuspendLost(w) \/ RecoverRestored(w)
           \/ \E k \in Kind : RunOnce(w, k)
           \/ ObserveResources(w) \/ ApplyLifecycle(w) \/ ReadStanding(w) \/ ReadKeyLifecycle(w)
           \/ CallFails(w) \/ SetManagedKeyLifecycle(w) \/ ReadbackKeyState(w)
           \/ ConfirmManagedKeyReadable(w)
    PROVE  IInv'
  <1>t. LifecycleTypeOK /\ Fits(w, pass[w]) /\ guard \in Worker \cup {None} /\ pass[w] \in Pass
        BY DEF IInv, LifecycleTypeOK, Pass, Place
  <1>g. Unguard(w) => guard' \in Worker \cup {None}
        BY <1>t DEF Unguard
  <1>1. ASSUME NEW c, NEW place \in Opening \cup Observing, Listed(w, c, place) PROVE IInv'
    <2>1. PICK p \in Pass : pass' = [pass EXCEPT ![w] = p] /\ p.at = place
          BY <1>t, <1>1, GotoFacts DEF Listed, Place
    <2>2. Fits(w, p)
          BY <2>1, OutsideFits DEF Leased, Opening, Observing
    <2> QED BY <1>t, <1>1, <2>1, <2>2, PassStep DEF Listed, gateway
  <1>2. CASE SuspendExpired(w) \/ SuspendLost(w) \/ RecoverRestored(w)
        BY <1>1, <1>2 DEF SuspendExpired, SuspendLost, RecoverRestored, Opening, Observing
  <1>3. ASSUME NEW k \in Kind, RunOnce(w, k) PROVE IInv'
    <2>1. PICK p \in Pass : pass' = [pass EXCEPT ![w] = p] /\ p.at = "take"
          BY <1>3, TakeUpFacts DEF RunOnce
    <2>2. Fits(w, p)
          BY <2>1, OutsideFits DEF Leased
    <2> QED BY <1>t, <1>3, <2>1, <2>2, PassStep DEF RunOnce, gateway
  <1>4. CASE ObserveResources(w)
    <2>1. \E p \in Pass : pass' = [pass EXCEPT ![w] = p]
                          /\ p.at \in {"idle", "open_lost", "open_restored"}
          BY <1>t, <1>4, GotoFacts, RestFacts DEF ObserveResources, Place, Opening
    <2>2. PICK p \in Pass : pass' = [pass EXCEPT ![w] = p] /\ p.at \notin Leased
          BY <2>1 DEF Leased
    <2> QED BY <1>t, <1>4, <2>2, OutsideFits, PassStep DEF ObserveResources, gateway
  <1>5. CASE ApplyLifecycle(w)
    <2>1. \E p \in Pass : pass' = [pass EXCEPT ![w] = p] /\ p.at \in {"idle", "lease"}
          BY <1>t, <1>5, GotoFacts, RestFacts DEF ApplyLifecycle, GotoIf, Place
    <2>2. PICK p \in Pass : pass' = [pass EXCEPT ![w] = p] /\ p.at \notin Leased
          BY <2>1 DEF Leased
    <2> QED BY <1>t, <1>5, <2>2, OutsideFits, PassStep DEF ApplyLifecycle, gateway
  <1>6. CASE ReadStanding(w)
    <2>1. /\ pass[w].at = "standing"
          /\ \/ pass[w].work = "suspend" /\ ws = "active" /\ Goto(w, "suspend")
             \/ ws = "suspended" /\ Goto(w, "begin_read")
             \/ Answered(w, "superseded")
          BY <1>t, <1>6 DEF ReadStanding, At, Work, Pass, Kind
    <2>2. \E p \in Pass :
             /\ pass' = [pass EXCEPT ![w] = p] /\ p.work = pass[w].work
             /\ \/ p.at = "suspend" /\ p.work = "suspend"
                \/ p.at = "begin_read" /\ ws = "suspended"
                \/ p.at = "checkpoint" /\ p.answer = "superseded"
          BY <1>t, <2>1, GotoFacts, AnsweredFacts DEF Place, Leased, Answer
    <2>3. PICK p \in Pass : pass' = [pass EXCEPT ![w] = p] /\ Fits(w, p)
          BY <1>t, <2>1, <2>2 DEF Fits, Leased
    <2> QED BY <1>t, <1>6, <2>3, PassStep DEF ReadStanding, gateway
  <1>7. CASE ReadKeyLifecycle(w)
    <2>1. /\ pass[w].at = "read"
          /\ \/ \E a \in {"unknown", "rejected", "revoked"} : Answered(w, a)
             \/ key = "disabled" /\ pass[w].work = "suspend" /\ Answered(w, "confirmed")
             \/ key = "active" /\ pass[w].work = "resume" /\ Goto(w, "confirm")
             \/ Goto(w, "begin_command")
          BY <1>t, <1>7 DEF ReadKeyLifecycle, At, Work, Desired
    <2>2. \E p \in Pass :
             /\ pass' = [pass EXCEPT ![w] = p] /\ p.work = pass[w].work
             /\ \/ p.at = "checkpoint" /\ p.answer \in {"unknown", "rejected", "revoked"}
                \/ p.at = "checkpoint" /\ key = "disabled"
                \/ p.at = "confirm" /\ key = "active" /\ p.work = "resume"
                \/ p.at = "begin_command"
          BY <1>t, <2>1, GotoFacts, AnsweredFacts DEF Place, Leased, Answer
    <2>3. PICK p \in Pass : pass' = [pass EXCEPT ![w] = p] /\ Fits(w, p)
          BY <1>t, <2>1, <2>2 DEF Fits, Leased
    <2> QED BY <1>t, <1>7, <2>3, PassStep DEF ReadKeyLifecycle, gateway
  <1>8. CASE CallFails(w)
    <2>1. pass[w].at \in Leased /\ \E a \in {"unknown", "rejected"} : Answered(w, a)
          BY <1>8 DEF CallFails, At, Leased
    <2>2. \E p \in Pass :
             /\ pass' = [pass EXCEPT ![w] = p] /\ p.work = pass[w].work
             /\ p.at = "checkpoint" /\ p.answer \in {"unknown", "rejected"}
          BY <1>t, <2>1, AnsweredFacts DEF Answer
    <2>3. PICK p \in Pass : pass' = [pass EXCEPT ![w] = p] /\ Fits(w, p)
          BY <1>t, <2>1, <2>2 DEF Fits
    <2> QED BY <1>g, <1>8, <2>3, PassStep DEF CallFails
  <1>9. CASE SetManagedKeyLifecycle(w)
    <2>1. /\ pass[w].at = "call" /\ guard' \in Worker \cup {None}
          /\ \/ \E a \in {"unknown", "rejected"} : Answered(w, a)
             \/ key = Desired(pass[w].work) /\ Goto(w, "mark")
             \/ Goto(w, "set")
          BY <1>t, <1>9 DEF SetManagedKeyLifecycle, At, Work
    <2>2. \E p \in Pass :
             /\ pass' = [pass EXCEPT ![w] = p] /\ p.work = pass[w].work
             /\ \/ p.at = "checkpoint" /\ p.answer \in {"unknown", "rejected"}
                \/ p.at = "mark" /\ key = Desired(p.work)
                \/ p.at = "set"
          BY <1>t, <2>1, GotoFacts, AnsweredFacts DEF Place, Leased, Answer
    <2>3. PICK p \in Pass : pass' = [pass EXCEPT ![w] = p] /\ Fits(w, p)
          BY <1>t, <2>1, <2>2 DEF Fits, Leased, Desired
    <2> QED BY <1>9, <2>1, <2>3, PassStep DEF SetManagedKeyLifecycle
  <1>10. CASE ReadbackKeyState(w)
    <2>1. /\ pass[w].at = "readback" /\ guard' \in Worker \cup {None}
          /\ \/ Answered(w, "rejected")
             \/ key = Desired(pass[w].work) /\ Goto(w, "mark")
          BY <1>t, <1>g, <1>10 DEF ReadbackKeyState, At, Work
    <2>2. \E p \in Pass :
             /\ pass' = [pass EXCEPT ![w] = p] /\ p.work = pass[w].work
             /\ \/ p.at = "checkpoint" /\ p.answer = "rejected"
                \/ p.at = "mark" /\ key = Desired(p.work)
          BY <1>t, <2>1, GotoFacts, AnsweredFacts DEF Place, Leased, Answer
    <2>3. PICK p \in Pass : pass' = [pass EXCEPT ![w] = p] /\ Fits(w, p)
          BY <1>t, <2>1, <2>2 DEF Fits, Leased, Desired
    <2> QED BY <1>10, <2>1, <2>3, PassStep DEF ReadbackKeyState
  <1>11. CASE ConfirmManagedKeyReadable(w)
    <2>1. /\ pass[w].at = "confirm" /\ pass[w].work = "resume"
          /\ \E a \in {"unknown", "rejected", "confirmed"} : Answered(w, a)
          BY <1>t, <1>11 DEF ConfirmManagedKeyReadable, At, Fits
    <2>2. \E p \in Pass :
             /\ pass' = [pass EXCEPT ![w] = p] /\ p.work = "resume"
             /\ p.at \in {"checkpoint", "restore"}
          BY <1>t, <2>1, AnsweredFacts DEF Answer
    <2>3. PICK p \in Pass : pass' = [pass EXCEPT ![w] = p] /\ Fits(w, p)
          BY <1>t, <2>1, <2>2 DEF Fits, Leased
    <2> QED BY <1>t, <1>11, <2>3, PassStep DEF ConfirmManagedKeyReadable, gateway
  <1> QED BY <1>2, <1>3, <1>4, <1>5, <1>6, <1>7, <1>8, <1>9, <1>10, <1>11

-----------------------------------------------------------------------------
(* The steps that change more than the worker's place.                      *)

\* Opening an event touches a slot nobody has leased.
LEMMA OpenStep ==
    ASSUME IInv, NEW w \in Worker, OpenLifecycleOperation(w)
    PROVE  IInv'
  <1>t. LifecycleTypeOK /\ pass[w] \in Pass
        BY DEF IInv, LifecycleTypeOK, Pass, Place
  <1>1. PICK k \in Kind :
           /\ \/ event' = event
              \/ event[k].status = "none" /\ event' = [event EXCEPT ![k] = [NoEvent EXCEPT !.status = "open"]]
           /\ TakeUp(w, k) \/ Rest(w)
        BY DEF OpenLifecycleOperation, Kind
  <1>2. PICK p \in Pass : pass' = [pass EXCEPT ![w] = p] /\ p.at \in {"idle", "take"}
        BY <1>1, TakeUpFacts, RestFacts
  <1>3. UNCHANGED <<row, said, gateway, closer, faults>>
        BY DEF OpenLifecycleOperation
  <1>4. \A l \in Kind : /\ event'[l].lease = event[l].lease
                        /\ event[l].status # "none" => event'[l].status # "none"
                        /\ event'[l].status = "none" => event[l].status = "none"
        BY <1>t, <1>1 DEF IInv, LeasesApart, LifecycleTypeOK, NoEvent
  <1>5. LifecycleTypeOK'
    <2>1. event' \in [Kind -> [status : {"none", "open", "attention"},
                               attempts : 0..RecoveryLimit, lease : Worker \cup {None}]]
          BY <1>t, <1>1, LifecycleAssumption DEF LifecycleTypeOK, NoEvent
    <2> QED BY <1>t, <1>2, <1>3, <2>1 DEF LifecycleTypeOK, row, gateway, faults, Pass, Place
  <1>6. LeasesApart' /\ KeyAgrees'
        BY <1>3, <1>4 DEF IInv, LeasesApart, KeyAgrees, row, gateway, faults, Kind
  <1>7. ASSUME NEW v \in Worker PROVE Fits(v, pass[v])'
    <2>1. CASE v = w
      <3>1. pass'[v] = p
            BY <1>t, <1>2, <2>1 DEF LifecycleTypeOK
      <3> QED BY <1>2, <3>1 DEF Fits, Leased
    <2>2. CASE v # w
      <3>1. pass'[v] = pass[v] /\ pass[v].work \in Kind /\ Fits(v, pass[v])
            BY <1>t, <1>2, <2>2 DEF IInv, LifecycleTypeOK
      <3> QED BY <1>3, <1>4, <3>1 DEF Fits, row, gateway, faults
    <2> QED BY <2>1, <2>2
  <1> QED BY <1>5, <1>6, <1>7 DEF IInv

\* The lease of a free event: its worker is the only one past the lease, or two
\* events are leased now and that is recorded.
LEMMA LeaseStep ==
    ASSUME IInv, NEW w \in Worker, LeaseLifecycle(w)
    PROVE  IInv'
  <1> DEFINE k == pass[w].work
             free == event[k].status # "none" /\ event[k].lease = None
  <1>t. LifecycleTypeOK /\ pass[w] \in Pass /\ k \in Kind
        BY DEF IInv, LifecycleTypeOK, Pass, Place
  <1>1. /\ event' = IF free THEN [event EXCEPT ![k].lease = w] ELSE event
        /\ overtaken' = (overtaken \/ (free /\ \E l \in Kind : event[l].lease # None))
        /\ IF free THEN Goto(w, "standing") ELSE Rest(w)
        /\ UNCHANGED <<row, said, gateway, closer, lapses, breaks>>
        BY DEF LeaseLifecycle, Work, GotoIf
  <1>2. PICK p \in Pass : /\ pass' = [pass EXCEPT ![w] = p]
                          /\ p.at = IF free THEN "standing" ELSE "idle"
                          /\ free => p.work = k
        BY <1>t, <1>1, GotoFacts, RestFacts DEF Place, Leased
  <1>3. \A l \in Kind : /\ event'[l].status = event[l].status
                        /\ event'[l].lease = IF free /\ l = k THEN w ELSE event[l].lease
        BY <1>t, <1>1 DEF LifecycleTypeOK
  <1>4. LifecycleTypeOK'
    <2>1. event' \in [Kind -> [status : {"none", "open", "attention"},
                               attempts : 0..RecoveryLimit, lease : Worker \cup {None}]]
          BY <1>t, <1>1 DEF LifecycleTypeOK
    <2>2. overtaken' \in BOOLEAN
          BY <1>t, <1>1 DEF LifecycleTypeOK
    <2>3. pass' \in [Worker -> Pass]
          BY <1>t, <1>2 DEF LifecycleTypeOK, Pass, Place
    <2> QED BY <1>t, <1>1, <2>1, <2>2, <2>3 DEF LifecycleTypeOK, row, gateway, Pass, Place
  <1>5. LeasesApart' /\ KeyAgrees'
    <2>2. ~overtaken' => ~overtaken
          BY <1>1
    <2>3. free /\ ~overtaken' => \A l \in Kind : event[l].lease = None
          BY <1>1
    <2>4. LeasesApart'
          BY <1>t, <1>3, <2>2, <2>3 DEF IInv, LeasesApart, Kind
    <2>5. UNCHANGED <<ws, said, key, closer>> /\ event'["resume"].status = event["resume"].status
          BY <1>1, <1>3 DEF row, gateway, Kind
    <2> QED BY <2>2, <2>4, <2>5 DEF IInv, KeyAgrees
  <1>6. ASSUME NEW v \in Worker PROVE Fits(v, pass[v])'
    <2>1. CASE v = w
      <3>1. pass'[v] = p
            BY <1>t, <1>2, <2>1 DEF LifecycleTypeOK
      <3> QED BY <1>t, <1>2, <1>3, <2>1, <3>1 DEF Fits, Leased
    <2>2. CASE v # w
      <3>1. pass'[v] = pass[v] /\ pass[v].work \in Kind /\ Fits(v, pass[v])
            BY <1>t, <1>2, <2>2 DEF IInv, LifecycleTypeOK
      <3>2. ~overtaken' => ~overtaken
            BY <1>1
      <3>3. ~overtaken' /\ pass[v].at \in Leased => event'[pass[v].work].lease = v
            BY <1>3, <3>1, <3>2, LifecycleAssumption DEF Fits
      <3> QED BY <1>1, <3>1, <3>2, <3>3 DEF Fits, row, gateway
    <2> QED BY <2>1, <2>2
  <1> QED BY <1>4, <1>5, <1>6 DEF IInv

\* A worker that writes the event it works on under its own lease, and keeps the
\* lease or rests.
LEMMA FencedStep ==
    ASSUME IInv, NEW w \in Worker, NEW p \in Pass, pass' = [pass EXCEPT ![w] = p], Fits(w, p),
           NEW k \in Kind, k = pass[w].work,
           event' \in [Kind -> [status : {"none", "open", "attention"},
                                attempts : 0..RecoveryLimit, lease : Worker \cup {None}]],
           \A l \in Kind \ {k} : event'[l] = event[l],
           \/ event' = event
           \/ /\ event[k].lease = w /\ event'[k].status # "none"
              /\ event'[k].lease = w \/ (event'[k].lease = None /\ p.at = "idle"),
           stray' \subseteq {"active", "disabled"}, guard' \in Worker \cup {None},
           breaks' \in 0..MaxBreaks,
           UNCHANGED <<row, said, key, disabled, closer, overtaken, lapses>>
    PROVE  IInv'
  <1>t. LifecycleTypeOK /\ pass[w] \in Pass
        BY DEF IInv, LifecycleTypeOK, Pass, Place
  <1>1. LifecycleTypeOK'
        BY <1>t DEF LifecycleTypeOK, row, Pass, Place
  <1>2. LeasesApart'
        BY DEF IInv, LeasesApart, Kind
  <1>3. KeyAgrees'
        BY DEF IInv, KeyAgrees, Kind, row
  <1>4. ASSUME NEW v \in Worker PROVE Fits(v, pass[v])'
    <2>1. CASE v = w
      <3>1. pass'[v] = p
            BY <1>t, <2>1 DEF LifecycleTypeOK
      <3>2. p.at \in Leased /\ ~overtaken => event'[p.work].lease = v
            BY <1>t, <2>1 DEF Fits, Leased, Pass
      <3> QED BY <2>1, <3>1, <3>2 DEF Fits, row
    <2>2. CASE v # w
      <3>1. pass'[v] = pass[v] /\ pass[v].work \in Kind /\ Fits(v, pass[v])
            BY <1>t, <2>2 DEF IInv, LifecycleTypeOK
      <3>2. pass[v].at \in Leased /\ ~overtaken => event'[pass[v].work].lease = v
            BY <2>2, <3>1 DEF Fits
      <3> QED BY <3>1, <3>2 DEF Fits, row
    <2> QED BY <2>1, <2>2
  <1> QED BY <1>1, <1>2, <1>3, <1>4 DEF IInv

\* Giving the lease back, or not having it.
LEMMA StopFacts ==
    ASSUME IInv, NEW w \in Worker, Stop(w)
    PROVE  /\ \E p \in Pass : pass' = [pass EXCEPT ![w] = p] /\ p.at = "idle" /\ Fits(w, p)
           /\ event' = IF event[pass[w].work].lease = w
                       THEN [event EXCEPT ![pass[w].work].lease = None] ELSE event
  <1>1. PICK p \in Pass : pass' = [pass EXCEPT ![w] = p] /\ p.at = "idle"
        BY RestFacts DEF Stop
  <1>2. Fits(w, p)
        BY <1>1, OutsideFits DEF Leased
  <1> QED BY <1>1, <1>2 DEF Stop, Fenced, Work

\* beginStep under the lease, or the end of a pass that lost it; a broken pass.
LEMMA BeginAndBreakSteps ==
    ASSUME IInv, NEW w \in Worker, BeginRead(w) \/ BeginCommand(w) \/ PassBreaks(w)
    PROVE  IInv'
  <1> DEFINE k == pass[w].work
  <1>t. /\ LifecycleTypeOK /\ pass[w] \in Pass /\ k \in Kind /\ Fits(w, pass[w])
        /\ guard \in Worker \cup {None} /\ stray \subseteq {"active", "disabled"}
        /\ breaks \in 0..MaxBreaks
        BY DEF IInv, LifecycleTypeOK, Pass, Place
  <1>h. event[k].lease = w => event[k].status # "none"
        BY <1>t, LifecycleAssumption DEF IInv, LeasesApart
  <1>e. event \in [Kind -> [status : {"none", "open", "attention"},
                            attempts : 0..RecoveryLimit, lease : Worker \cup {None}]]
        BY <1>t DEF LifecycleTypeOK
  <1>1. ASSUME Stop(w), stray' \subseteq {"active", "disabled"}, guard' \in Worker \cup {None},
               breaks' \in 0..MaxBreaks,
               UNCHANGED <<row, said, key, disabled, closer, overtaken, lapses>>
        PROVE  IInv'
    <2>1. PICK p \in Pass : pass' = [pass EXCEPT ![w] = p] /\ p.at = "idle" /\ Fits(w, p)
          BY <1>1, StopFacts
    <2>2. CASE event[k].lease = w
      <3>1. event' = [event EXCEPT ![k].lease = None]
            BY <1>1, <2>2, StopFacts
      <3>2. /\ event' \in [Kind -> [status : {"none", "open", "attention"},
                                    attempts : 0..RecoveryLimit, lease : Worker \cup {None}]]
            /\ \A l \in Kind \ {k} : event'[l] = event[l]
            /\ event'[k].lease = None /\ event'[k].status = event[k].status
            BY <1>t, <1>e, <3>1
      <3> QED BY <1>1, <1>t, <1>h, <2>1, <2>2, <3>2, FencedStep
    <2>3. CASE event[k].lease # w
      <3>1. event' = event
            BY <1>1, <2>3, StopFacts
      <3> QED BY <1>1, <1>t, <1>e, <2>1, <3>1, FencedStep
    <2> QED BY <2>2, <2>3
  <1>2. ASSUME NEW place \in Place, Goto(w, place), event[k].lease = w,
               event' = [event EXCEPT ![k].status = "open"],
               \A p \in Pass : p.at = place /\ p.work = k => Fits(w, p),
               UNCHANGED <<row, said, gateway, closer, faults>>
        PROVE  IInv'
    <2>1. PICK p \in Pass : /\ pass' = [pass EXCEPT ![w] = p]
                            /\ p.at = place /\ p.work = k
          BY <1>t, <1>2, GotoFacts
    <2>2. /\ event' \in [Kind -> [status : {"none", "open", "attention"},
                                  attempts : 0..RecoveryLimit, lease : Worker \cup {None}]]
          /\ \A l \in Kind \ {k} : event'[l] = event[l]
          /\ event'[k].lease = w /\ event'[k].status = "open"
          BY <1>t, <1>e, <1>2
    <2> QED BY <1>2, <1>t, <2>1, <2>2, FencedStep DEF gateway, faults
  <1>3. CASE BeginRead(w)
    <2>1. CASE Answered(w, "unknown") /\ event' = event
      <3>1. PICK p \in Pass : /\ pass' = [pass EXCEPT ![w] = p] /\ p.work = k
                              /\ p.at = "checkpoint" /\ p.answer = "unknown"
            BY <1>t, <2>1, AnsweredFacts DEF Answer
      <3>2. Fits(w, p)
            BY <1>t, <1>3, <3>1 DEF Fits, Leased, BeginRead, At
      <3> QED BY <1>t, <1>3, <2>1, <3>1, <3>2, PassStep DEF BeginRead, gateway
    <2>2. CASE Fenced(w) /\ event' = [event EXCEPT ![Work(w)].status = "open"] /\ Goto(w, "read")
      <3>1. \A p \in Pass : p.at = "read" /\ p.work = k => Fits(w, p)
            BY <1>t, <1>3 DEF Fits, Leased, BeginRead, At
      <3>2. "read" \in Place /\ event[k].lease = w
            BY <2>2 DEF Place, Leased, Fenced, Work
      <3> QED BY <1>2, <1>3, <2>2, <3>1, <3>2 DEF BeginRead, Work
    <2>3. CASE Stop(w)
          BY <1>1, <1>t, <1>3, <2>3 DEF BeginRead, gateway, faults
    <2> QED BY <1>3, <2>1, <2>2, <2>3 DEF BeginRead
  <1>4. CASE BeginCommand(w)
    <2>1. CASE Fenced(w) /\ event' = [event EXCEPT ![Work(w)].status = "open"] /\ Goto(w, "call")
      <3>1. \A p \in Pass : p.at = "call" /\ p.work = k => Fits(w, p)
            BY <1>t, <1>4 DEF Fits, Leased, BeginCommand, At
      <3>2. "call" \in Place /\ event[k].lease = w
            BY <2>1 DEF Place, Leased, Fenced, Work
      <3> QED BY <1>2, <1>4, <2>1, <3>1, <3>2 DEF BeginCommand, Work
    <2>2. CASE Stop(w)
          BY <1>1, <1>t, <1>4, <2>2 DEF BeginCommand, gateway, faults
    <2> QED BY <1>4, <2>1, <2>2 DEF BeginCommand
  <1>5. CASE PassBreaks(w)
    <2>1. /\ breaks' \in 0..MaxBreaks /\ guard' \in Worker \cup {None}
          /\ stray' \subseteq {"active", "disabled"}
          BY <1>5, <1>t, LifecycleAssumption DEF PassBreaks, Unguard, Desired
    <2>2. UNCHANGED <<row, said, key, disabled, closer, overtaken, lapses>>
          BY <1>5 DEF PassBreaks
    <2>3. CASE Stop(w)
          BY <1>1, <2>1, <2>2, <2>3
    <2>4. CASE event' = event /\ Rest(w)
      <3>1. PICK p \in Pass : pass' = [pass EXCEPT ![w] = p] /\ p.at = "idle"
            BY <2>4, RestFacts
      <3>2. Fits(w, p)
            BY <3>1, OutsideFits DEF Leased
      <3> QED BY <1>t, <1>e, <2>1, <2>2, <2>4, <3>1, <3>2, FencedStep
    <2> QED BY <1>5, <2>3, <2>4 DEF PassBreaks
  <1> QED BY <1>3, <1>4, <1>5

\* The steps of the leased worker on the row and on the key. While nothing
\* overtook it is alone, so no other pass carries what the step makes untrue.
LEMMA EffectSteps ==
    ASSUME IInv, NEW w \in Worker,
           SuspendWorkspace(w) \/ SetKeyState(w) \/ MarkManagedKey(w) \/ RestoreWorkspace(w)
    PROVE  IInv'
  <1>t. /\ LifecycleTypeOK /\ pass[w] \in Pass /\ Fits(w, pass[w])
        /\ guard \in Worker \cup {None}
        BY DEF IInv, LifecycleTypeOK, Pass, Place
  <1>l. pass[w].at \in Leased
        BY DEF SuspendWorkspace, SetKeyState, MarkManagedKey, RestoreWorkspace, At, Leased
  <1>a. ~overtaken => \A v \in Worker \ {w} : pass[v].at \notin Leased
        BY <1>l, OneLeased
  <1>o. overtaken' = overtaken /\ event' = event /\ said' = said /\ closer' = closer
        BY DEF SuspendWorkspace, SetKeyState, MarkManagedKey, RestoreWorkspace, faults
  <1>1. ASSUME NEW p \in Pass, pass' = [pass EXCEPT ![w] = p], Fits(w, p)',
               LifecycleTypeOK', KeyAgrees'
        PROVE  IInv'
    <2>1. LeasesApart'
          BY <1>o DEF IInv, LeasesApart
    <2>2. ASSUME NEW v \in Worker PROVE Fits(v, pass[v])'
      <3>1. CASE v = w
        <4>1. pass'[v] = p
              BY <1>t, <1>1, <3>1 DEF LifecycleTypeOK
        <4> QED BY <1>1, <3>1, <4>1 DEF Fits
      <3>2. CASE v # w
        <4>1. pass'[v] = pass[v] /\ Fits(v, pass[v])
              BY <1>t, <1>1, <3>2 DEF IInv, LifecycleTypeOK
        <4>2. ~overtaken => pass[v].at \notin Leased
              BY <1>a, <3>2
        <4> QED BY <1>o, <4>1, <4>2 DEF Fits, Leased
      <3> QED BY <3>1, <3>2
    <2> QED BY <1>1, <2>1, <2>2 DEF IInv
  <1>2. CASE SuspendWorkspace(w)
    <2>1. PICK p \in Pass : /\ pass' = [pass EXCEPT ![w] = p]
                            /\ p.at = "begin_read" /\ p.work = pass[w].work
          BY <1>2, <1>t, GotoFacts DEF SuspendWorkspace, Place, Leased
    <2>2. ws' = IF ws = "active" THEN "suspended" ELSE ws
          BY <1>2 DEF SuspendWorkspace
    <2>3. UNCHANGED <<paid, present, flips, gateway, lapses, breaks>>
          BY <1>2 DEF SuspendWorkspace, faults
    <2>4. LifecycleTypeOK'
          BY <1>t, <1>o, <2>1, <2>2, <2>3 DEF LifecycleTypeOK, gateway, Pass, Place
    <2>5. KeyAgrees'
          BY <1>o, <2>2, <2>3 DEF IInv, KeyAgrees, Gone, gateway
    <2>6. Fits(w, p)'
          BY <1>2, <1>t, <1>o, <2>1, <2>2 DEF Fits, SuspendWorkspace, At, Leased
    <2> QED BY <1>1, <2>1, <2>4, <2>5, <2>6
  <1>3. CASE SetKeyState(w)
    <2>1. PICK p \in Pass : /\ pass' = [pass EXCEPT ![w] = p]
                            /\ p.at = "readback" /\ p.work = pass[w].work
          BY <1>3, <1>t, GotoFacts DEF SetKeyState, Place, Leased
    <2>2. key' = key \/ (key # "revoked" /\ key' = Desired(pass[w].work))
          BY <1>3 DEF SetKeyState, Becomes, Work
    <2>3. UNCHANGED <<row, disabled, guard, stray, lapses, breaks>>
          BY <1>3 DEF SetKeyState, faults
    <2>4. LifecycleTypeOK'
          BY <1>t, <1>o, <2>1, <2>2, <2>3 DEF LifecycleTypeOK, row, Desired, Pass, Place
    <2>5. KeyAgrees'
      <3>1. ~overtaken => event[pass[w].work].lease = w /\ event[pass[w].work].status # "none"
            BY <1>t, <1>l, LifecycleAssumption DEF Fits, IInv, LeasesApart, Pass
      <3>2. ~overtaken /\ ws = "active" => key' # "disabled"
            BY <1>3, <1>t, <2>2 DEF IInv, KeyAgrees, Fits, Desired, SetKeyState, At, Pass, Kind
      <3>3. ~overtaken /\ said = "disabled" /\ key' = "active" => event["resume"].status # "none"
            BY <1>t, <2>2, <3>1 DEF IInv, KeyAgrees, Desired, Pass, Kind
      <3> QED BY <1>o, <2>3, <3>2, <3>3 DEF IInv, KeyAgrees, row
    <2>6. Fits(w, p)'
          BY <1>3, <1>t, <1>l, <1>o, <2>1 DEF Fits, Leased
    <2> QED BY <1>1, <2>1, <2>4, <2>5, <2>6
  <1>4. CASE MarkManagedKey(w)
    <2>1. PICK p \in Pass :
             /\ pass' = [pass EXCEPT ![w] = p] /\ p.work = pass[w].work
             /\ p.at = IF p.work = "suspend" THEN "checkpoint" ELSE "confirm"
          BY <1>4, <1>t, GotoFacts, AnsweredFacts DEF MarkManagedKey, Work, Place, Leased, Answer
    <2>2. /\ disabled' \in BOOLEAN /\ guard' \in Worker \cup {None}
          /\ UNCHANGED <<row, key, stray, lapses, breaks>>
          BY <1>4, <1>t DEF MarkManagedKey, Unguard, faults
    <2>3. LifecycleTypeOK'
          BY <1>t, <1>o, <2>1, <2>2 DEF LifecycleTypeOK, row, Pass, Place
    <2>4. KeyAgrees'
          BY <1>o, <2>2 DEF IInv, KeyAgrees, row
    <2>5. Fits(w, p)'
          BY <1>4, <1>t, <1>l, <1>o, <2>1, <2>2 DEF Fits, Leased, MarkManagedKey, At, row, Pass, Kind
    <2> QED BY <1>1, <2>1, <2>3, <2>4, <2>5
  <1>5. CASE RestoreWorkspace(w)
    <2>1. PICK p \in Pass : /\ pass' = [pass EXCEPT ![w] = p]
                            /\ p.at = "checkpoint" /\ p.work = pass[w].work
          BY <1>5, <1>t, GotoFacts DEF RestoreWorkspace, Place, Leased
    <2>2. ws' = IF ws = "suspended" THEN "active" ELSE ws
          BY <1>5 DEF RestoreWorkspace
    <2>3. UNCHANGED <<paid, present, flips, gateway, lapses, breaks>>
          BY <1>5 DEF RestoreWorkspace, faults
    <2>4. LifecycleTypeOK'
          BY <1>t, <1>o, <2>1, <2>2, <2>3 DEF LifecycleTypeOK, gateway, Pass, Place
    <2>5. pass[w].at = "restore" /\ pass[w].work = "resume"
          BY <1>5, <1>t DEF RestoreWorkspace, At, Fits
    <2>6. KeyAgrees'
          BY <1>t, <1>o, <2>2, <2>3, <2>5 DEF IInv, KeyAgrees, Fits, Gone, gateway
    <2>7. Fits(w, p)'
          BY <1>t, <1>l, <1>o, <2>1, <2>5 DEF Fits, Leased
    <2> QED BY <1>1, <2>1, <2>4, <2>6, <2>7
  <1> QED BY <1>2, <1>3, <1>4, <1>5

\* The report: a succeeded event is forgotten with what it recorded, any other is
\* counted and waits for the next pass or an operator.
LEMMA CheckpointStep ==
    ASSUME IInv, NEW w \in Worker, CheckpointLifecycle(w)
    PROVE  IInv'
  <1> DEFINE k == pass[w].work
             a == pass[w].answer
  <1>t. /\ LifecycleTypeOK /\ pass[w] \in Pass /\ k \in Kind /\ Fits(w, pass[w])
        BY DEF IInv, LifecycleTypeOK, Pass, Place
  <1>e. event \in [Kind -> [status : {"none", "open", "attention"},
                            attempts : 0..RecoveryLimit, lease : Worker \cup {None}]]
        BY <1>t DEF LifecycleTypeOK
  <1>r. UNCHANGED <<row, gateway, closer, faults>> /\ pass[w].at = "checkpoint"
        BY DEF CheckpointLifecycle, At
  <1>1. PICK p \in Pass : pass' = [pass EXCEPT ![w] = p] /\ p.at = "idle"
        BY RestFacts DEF CheckpointLifecycle
  <1>2. Fits(w, p)
        BY <1>1, OutsideFits DEF Leased
  <1>3. CASE event[k].lease = w /\ Succeeds(k, a)
    <2>1. /\ event' = [event EXCEPT ![k] = NoEvent]
          /\ said' = IF a = "confirmed" THEN Desired(k) ELSE "other"
          BY <1>3 DEF CheckpointLifecycle, Fenced, Work
    <2>2. /\ \A l \in Kind \ {k} : event'[l] = event[l]
          /\ event'[k].status = "none" /\ event'[k].lease = None
          BY <1>t, <1>e, <2>1 DEF NoEvent
    <2>3. LifecycleTypeOK'
      <3>1. event' \in [Kind -> [status : {"none", "open", "attention"},
                                 attempts : 0..RecoveryLimit, lease : Worker \cup {None}]]
        <4>1. NoEvent \in [status : {"none", "open", "attention"},
                           attempts : 0..RecoveryLimit, lease : Worker \cup {None}]
              BY LifecycleAssumption DEF NoEvent
        <4> QED BY <1>e, <2>1, <4>1
      <3>2. said' \in {"active", "disabled", "other"}
            BY <2>1 DEF Desired
      <3> QED BY <1>t, <1>r, <1>1, <3>1, <3>2 DEF LifecycleTypeOK, row, gateway, faults, Pass, Place
    <2>4. LeasesApart'
          BY <1>r, <1>t, <2>2 DEF IInv, LeasesApart, Kind, faults
    <2>5. KeyAgrees'
      <3>1. ASSUME ~overtaken, said' = "disabled", key = "active"
            PROVE  event'["resume"].status # "none"
        <4>1. a = "confirmed" /\ k = "suspend"
              BY <1>t, <2>1, <3>1 DEF Desired, Kind
        <4> QED BY <1>t, <1>r, <3>1, <4>1 DEF Fits
      <3> QED BY <1>r, <3>1 DEF IInv, KeyAgrees, row, gateway, faults
    <2>6. ASSUME NEW v \in Worker PROVE Fits(v, pass[v])'
      <3>1. CASE v = w
        <4>1. pass'[v] = p
              BY <1>t, <1>1, <3>1 DEF LifecycleTypeOK
        <4> QED BY <1>1, <4>1 DEF Fits, Leased
      <3>2. CASE v # w
        <4>1. pass'[v] = pass[v] /\ pass[v].work \in Kind /\ Fits(v, pass[v])
              BY <1>t, <1>1, <3>2 DEF IInv, LifecycleTypeOK
        <4>2. ~overtaken => pass[v].at \notin Leased
              BY <1>r, <3>2, OneLeased DEF Leased
        <4> QED BY <1>r, <4>1, <4>2 DEF Fits, Leased, faults
      <3> QED BY <3>1, <3>2
    <2> QED BY <2>3, <2>4, <2>5, <2>6 DEF IInv
  <1>4. CASE event[k].lease = w /\ ~Succeeds(k, a)
    <2> DEFINE c == Counted(event[k], a)
    <2>1. event' = [event EXCEPT ![k] = c] /\ said' = said
          BY <1>4 DEF CheckpointLifecycle, Fenced, Work
    <2>2. /\ c \in [status : {"open", "attention"}, attempts : 0..RecoveryLimit,
                    lease : Worker \cup {None}]
          /\ c.lease = None
      <3>1. event[k] \in [status : {"none", "open", "attention"}, attempts : 0..RecoveryLimit,
                          lease : Worker \cup {None}]
            BY <1>t, <1>e
      <3>2. (IF event[k].attempts < RecoveryLimit THEN event[k].attempts + 1 ELSE RecoveryLimit)
              \in 0..RecoveryLimit
            BY <3>1, LifecycleAssumption
      <3> QED BY <3>1, <3>2 DEF Counted
    <2> HIDE DEF c
    <2>3. /\ event' \in [Kind -> [status : {"none", "open", "attention"},
                                  attempts : 0..RecoveryLimit, lease : Worker \cup {None}]]
          /\ \A l \in Kind \ {k} : event'[l] = event[l]
          /\ event'[k].lease = None /\ event'[k].status # "none"
          BY <1>e, <1>t, <2>1, <2>2
    <2>4. /\ stray' \subseteq {"active", "disabled"} /\ guard' \in Worker \cup {None}
          /\ breaks' \in 0..MaxBreaks
          /\ UNCHANGED <<row, said, key, disabled, closer, overtaken, lapses>>
          BY <1>r, <1>t, <2>1 DEF gateway, faults, LifecycleTypeOK
    <2> QED BY <1>t, <1>1, <1>2, <1>4, <2>3, <2>4, FencedStep
  <1>5. CASE event[k].lease # w
    <2>1. event' = event /\ said' = said
          BY <1>5 DEF CheckpointLifecycle, Fenced, Work
    <2> QED BY <1>r, <1>t, <1>1, <1>2, <2>1, PassStep DEF gateway, LifecycleTypeOK
  <1> QED BY <1>3, <1>4, <1>5

\* The deletion, time, the provider and what arrives late: none of them moves a
\* worker, and each leaves true what the passes carry or records that it overtook.
LEMMA OtherSteps ==
    ASSUME IInv, Deletion \/ PeriodEnds \/ ResourcesChange \/ KeyIsRevoked \/ StrayArrives
                 \/ (\E k \in Kind : LeaseEnds(k)) \/ UNCHANGED vars
    PROVE  IInv'
  <1>t. LifecycleTypeOK /\ \A w \in Worker : Fits(w, pass[w]) /\ pass[w] \in Pass
        BY DEF IInv, LifecycleTypeOK, Pass, Place
  <1>1. ASSUME UNCHANGED <<pass, event, said>>, LifecycleTypeOK',
               overtaken => overtaken',
               ~overtaken' => /\ ws' # ws => ws' \in Gone
                              /\ key' # key => key' = "revoked" \/ (key' = "disabled" /\ ws \in Gone),
               ws \in Gone => ws' \in Gone,
               closer' # "none" => ws' \in Gone
        PROVE  IInv'
    <2>1. LeasesApart'
          BY <1>1 DEF IInv, LeasesApart
    <2>2. KeyAgrees'
          BY <1>1 DEF IInv, KeyAgrees, Gone
    <2>3. ASSUME NEW v \in Worker PROVE Fits(v, pass[v])'
          BY <1>1, <1>t DEF Fits, Gone
    <2> QED BY <1>1, <2>1, <2>2, <2>3 DEF IInv
  <1>2. CASE UNCHANGED vars
    <2>1. LifecycleTypeOK'
          BY <1>t, <1>2 DEF LifecycleTypeOK, vars, row, gateway, faults
    <2> QED BY <1>1, <1>2, <2>1 DEF vars, row, gateway, faults, IInv, KeyAgrees
  <1>3. CASE DeleteWorkspace \/ RecordDeletedWorkspace
    <2>0. ws' \in {"deleting", "deleted"}
          /\ UNCHANGED <<paid, present, flips, event, said, pass, gateway, closer, faults>>
          BY <1>3 DEF DeleteWorkspace, RecordDeletedWorkspace
    <2>1. LifecycleTypeOK'
          BY <1>t, <2>0 DEF LifecycleTypeOK, gateway, faults
    <2> QED BY <1>1, <1>3, <2>1 DEF DeleteWorkspace, RecordDeletedWorkspace, gateway, faults, Gone
  <1>4. CASE DisableDeletedWorkspaceKey \/ CloserSets \/ CloserReadsBack \/ CloserMarks \/ CloserFails
    <2>1. /\ UNCHANGED <<row, event, said, pass, guard, stray, faults>>
          /\ closer # "none" \/ ws \in Gone
          /\ closer' \in {"set", "readback", "mark", "confirmed", "rejected", "unknown"}
          /\ key' = key \/ key' = "disabled"
          /\ disabled' \in BOOLEAN
          BY <1>4, <1>t DEF DisableDeletedWorkspaceKey, CloserSets, CloserReadsBack, CloserMarks,
                            CloserFails, Closes, Becomes, Gone, LifecycleTypeOK
    <2>2. ws \in Gone
          BY <2>1 DEF IInv, KeyAgrees
    <2>3. LifecycleTypeOK'
          BY <1>t, <2>1 DEF LifecycleTypeOK, row, faults
    <2> QED BY <1>1, <2>1, <2>2, <2>3 DEF row, faults
  <1>5. CASE PeriodEnds \/ ResourcesChange \/ KeyIsRevoked
    <2>1. /\ UNCHANGED <<ws, event, said, pass, disabled, guard, stray, closer, faults>>
          /\ key' = key \/ key' = "revoked"
          /\ paid' \in BOOLEAN /\ present' \in BOOLEAN /\ flips' \in 0..MaxFlips
      <3>1. CASE PeriodEnds
            BY <3>1, <1>t DEF PeriodEnds, gateway, LifecycleTypeOK
      <3>2. CASE ResourcesChange
        <4>1. flips' \in 0..MaxFlips /\ present' \in BOOLEAN
              BY <3>2, <1>t, LifecycleAssumption DEF ResourcesChange, LifecycleTypeOK
        <4> QED BY <3>2, <1>t, <4>1 DEF ResourcesChange, gateway, LifecycleTypeOK
      <3>3. CASE KeyIsRevoked
            BY <3>3, <1>t DEF KeyIsRevoked, row, LifecycleTypeOK
      <3> QED BY <1>5, <3>1, <3>2, <3>3
    <2>2. LifecycleTypeOK'
          BY <1>t, <2>1 DEF LifecycleTypeOK, faults
    <2> QED BY <1>1, <2>1, <2>2 DEF faults, IInv, KeyAgrees
  <1>6. CASE StrayArrives
    <2>1. /\ UNCHANGED <<row, event, said, pass, disabled, guard, closer, lapses, breaks>>
          /\ overtaken' = TRUE /\ stray' \subseteq {"active", "disabled"}
          /\ key' \in {"active", "disabled", "revoked"}
          BY <1>6, <1>t DEF StrayArrives, Becomes, LifecycleTypeOK
    <2>2. LifecycleTypeOK'
          BY <1>t, <2>1 DEF LifecycleTypeOK, row
    <2> QED BY <1>1, <2>1, <2>2 DEF row, IInv, KeyAgrees
  <1>7. ASSUME NEW k \in Kind, LeaseEnds(k) PROVE IInv'
    <2> DEFINE w == event[k].lease
    <2>1. /\ w \in Worker
          /\ event' = [event EXCEPT ![k].lease = None]
          /\ UNCHANGED <<row, said, pass, gateway, closer, breaks>>
          BY <1>7, <1>t DEF LeaseEnds, LifecycleTypeOK
    <2>2. /\ overtaken' \in BOOLEAN /\ lapses' \in 0..MaxLapses
          /\ overtaken => overtaken'
          /\ ~overtaken' => ~(pass[w].work = k /\ pass[w].at \in Leased)
      <3>1. CASE pass[w].work = k /\ pass[w].at \in Leased
        <4>1. lapses < MaxLapses /\ lapses' = lapses + 1 /\ overtaken' = TRUE
              BY <1>7, <3>1 DEF LeaseEnds, At, Work
        <4>2. lapses' \in 0..MaxLapses
              BY <1>t, <4>1, LifecycleAssumption DEF LifecycleTypeOK
        <4> QED BY <4>1, <4>2
      <3>2. CASE ~(pass[w].work = k /\ pass[w].at \in Leased)
        <4>1. lapses' = lapses /\ overtaken' = overtaken
              BY <1>7, <3>2 DEF LeaseEnds, At, Work
        <4> QED BY <1>t, <3>2, <4>1 DEF LifecycleTypeOK
      <3> QED BY <3>1, <3>2
    <2>3. \A l \in Kind : /\ event'[l].status = event[l].status
                          /\ event'[l].lease = IF l = k THEN None ELSE event[l].lease
          BY <1>t, <2>1 DEF LifecycleTypeOK
    <2>4. LifecycleTypeOK'
      <3>1. event' \in [Kind -> [status : {"none", "open", "attention"},
                                 attempts : 0..RecoveryLimit, lease : Worker \cup {None}]]
            BY <1>t, <2>1 DEF LifecycleTypeOK
      <3> QED BY <1>t, <2>1, <2>2, <3>1 DEF LifecycleTypeOK, row, gateway
    <2>5. LeasesApart' /\ KeyAgrees'
          BY <2>1, <2>2, <2>3 DEF IInv, LeasesApart, KeyAgrees, Kind, row, gateway
    <2>6. ASSUME NEW v \in Worker PROVE Fits(v, pass[v])'
      <3>1. Fits(v, pass[v]) /\ pass[v].work \in Kind
            BY <1>t DEF Pass
      <3>2. ~overtaken' /\ pass[v].at \in Leased => event'[pass[v].work].lease = v
            BY <2>2, <2>3, <3>1 DEF Fits
      <3> QED BY <2>1, <2>2, <3>1, <3>2 DEF Fits, row, gateway
    <2> QED BY <2>4, <2>5, <2>6 DEF IInv
  <1> QED BY <1>2, <1>3, <1>4, <1>5, <1>6, <1>7 DEF Deletion

-----------------------------------------------------------------------------
(* What the runs check, for every instance.                                 *)

\* The invariant holds in every state of the specification.
LEMMA Invariance == Spec => []IInv
  <1>1. IInv /\ [Next]_vars => IInv'
        BY MovingSteps, OpenStep, LeaseStep, BeginAndBreakSteps, EffectSteps, CheckpointStep,
           OtherSteps DEF Next, Sweeps, Applies, Environment
  <1> QED BY <1>1, InitIInv, PTL DEF Spec

\* The variables keep their types: an event is never counted past its limit, and
\* what a pass carries is an event and an answer.
THEOREM TypeCorrect == Spec => []LifecycleTypeOK
  <1>1. IInv => LifecycleTypeOK
        BY DEF IInv
  <1> QED BY <1>1, Invariance, PTL

\* Whatever is lost, repeated or broken off, a Workspace that is offered has a
\* usable key, as long as no effect overtook another.
THEOREM AccessHasKey == Spec => []StandingHasKey
  <1>1. IInv => StandingHasKey
        BY DEF IInv, KeyAgrees, StandingHasKey
  <1> QED BY <1>1, Invariance, PTL

\* Under the same condition a key that was recorded as disabled is off until a
\* recovery has begun.
THEOREM SuspensionIsTrue == Spec => []SuspendedHasNoKey
  <1>1. IInv => SuspendedHasNoKey
        BY DEF IInv, KeyAgrees, SuspendedHasNoKey
  <1> QED BY <1>1, Invariance, PTL

\* And without any condition: no lifecycle event takes a Workspace back from its
\* deletion.
THEOREM DeletionIsNotUndone == Spec => DeletionEndsStanding
  <1> DEFINE keeps == /\ ws = "deleting" => ws' \in {"deleting", "deleted"}
                      /\ ws = "deleted" => ws' = "deleted"
  <1>1. ASSUME [Next]_vars PROVE [keeps]_ws
    <2>1. CASE \E w \in Worker : Sweeps(w)
          BY <2>1 DEF Sweeps, SuspendExpired, SuspendLost, RecoverRestored, RunOnce, Listed, row
    <2>2. CASE \E w \in Worker : Applies(w)
          BY <2>2 DEF Applies, ObserveResources, OpenLifecycleOperation, ApplyLifecycle,
             LeaseLifecycle, ReadStanding, SuspendWorkspace, BeginRead, ReadKeyLifecycle,
             BeginCommand, CallFails, SetManagedKeyLifecycle, SetKeyState, ReadbackKeyState,
             MarkManagedKey, ConfirmManagedKeyReadable, RestoreWorkspace, CheckpointLifecycle, row
    <2>3. CASE Deletion
          BY <2>3 DEF Deletion, DeleteWorkspace, DisableDeletedWorkspaceKey, CloserSets,
             CloserReadsBack, CloserMarks, CloserFails, RecordDeletedWorkspace, Closes, row
    <2>4. CASE Environment
          BY <2>4 DEF Environment, PeriodEnds, ResourcesChange, KeyIsRevoked, StrayArrives,
             LeaseEnds, PassBreaks, row
    <2>5. CASE UNCHANGED vars
          BY <2>5 DEF vars, row
    <2> QED BY <1>1, <2>1, <2>2, <2>3, <2>4, <2>5 DEF Next
  <1> QED BY <1>1, PTL DEF Spec, DeletionEndsStanding
=============================================================================
