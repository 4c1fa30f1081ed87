---------------------------- MODULE LockoutProofs ----------------------------
(***************************************************************************)
(* Theorems about Lockout, for any limit, window, number of workers and    *)
(* latency.  The bound is inductive as it stands: a request that passes    *)
(* the count has just seen fewer than MaxAttempts failures, one that       *)
(* records a failure leaves Past, and time and clearing only take away.    *)
(***************************************************************************)
EXTENDS Lockout, FiniteSetTheorems, TLAPS

FailedFinite == IsFiniteSet(failed)

Bounded == TypeOK /\ FailedFinite /\ FailuresBounded

LEMMA Finite ==
  ASSUME TypeOK, FailedFinite
  PROVE  /\ IsFiniteSet(Recent) /\ Cardinality(Recent) \in Nat
         /\ IsFiniteSet(Past) /\ Cardinality(Past) \in Nat
         /\ Cardinality(Past) <= Cardinality(Handlers) /\ Cardinality(Handlers) \in Nat
  <1>1. Recent \subseteq failed /\ Past \subseteq Handlers
    BY DEF Recent, Past
  <1> QED
    BY <1>1, FS_Subset, FS_CardinalityType, LockoutAssumption DEF FailedFinite

LEMMA GotoType ==
  ASSUME TypeOK, NEW h \in Handlers, NEW pc \in Pc, Goto(h, pc)
  PROVE  /\ req' \in [Handlers -> [pc: Pc, lag: Nat]]
         /\ req'[h].pc = pc
         /\ \A g \in Handlers \ {h} : req'[g] = req[g]
  BY DEF TypeOK, Goto

(* Fewer recent failures and requests past the count: the bound is kept.    *)
LEMMA BoundKept ==
  ASSUME TypeOK, FailedFinite, FailuresBounded, TypeOK', FailedFinite',
         Recent' \subseteq Recent, Past' \subseteq Past
  PROVE  FailuresBounded'
  <1>1. Cardinality(Recent') <= Cardinality(Recent) /\ Cardinality(Past') <= Cardinality(Past)
    BY Finite, FS_Subset
  <1>2. Cardinality(Recent') \in Nat /\ Cardinality(Past') \in Nat
    <2>1. IsFiniteSet(Recent') /\ IsFiniteSet(Past')
      BY Finite, FS_Subset
    <2> QED
      BY <2>1, FS_CardinalityType
  <1>3. MaxAttempts \in Nat
    BY LockoutAssumption
  <1> QED
    BY <1>1, <1>2, <1>3, Finite DEF FailuresBounded

LEMMA InitBounded == Init => Bounded
  <1> SUFFICES ASSUME Init PROVE Bounded
    OBVIOUS
  <1>1. TypeOK
    BY DEF Init, TypeOK, Idle, Pc
  <1>2. FailedFinite
    BY FS_EmptySet DEF Init, FailedFinite
  <1>3. Recent = {} /\ Past = {}
    BY DEF Init, Recent, Past, Idle
  <1>4. Cardinality(Handlers) \in Nat /\ MaxAttempts \in Nat \ {0}
    BY FS_CardinalityType, LockoutAssumption
  <1>5. FailuresBounded
    BY <1>3, <1>4, FS_EmptySet DEF FailuresBounded
  <1> QED
    BY <1>1, <1>2, <1>5 DEF Bounded

LEMMA CountBounded ==
  ASSUME Bounded, NEW h \in Handlers, Count(h)
  PROVE  Bounded'
  <1> DEFINE c == Cardinality(Counted(req[h].lag))
             pc == IF Locked(c) THEN "idle" ELSE "verify"
  <1> USE DEF Bounded
  <1>1. UNCHANGED <<failed, age>> /\ Goto(h, pc) /\ pc \in Pc
    BY DEF Count, Pc
  <1>2. /\ req' \in [Handlers -> [pc: Pc, lag: Nat]] /\ req'[h].pc = pc
        /\ \A g \in Handlers \ {h} : req'[g] = req[g]
    <2> HIDE DEF pc
    <2> QED
      BY <1>1, GotoType
  <1>3. TypeOK' /\ FailedFinite' /\ Recent' = Recent
    BY <1>1, <1>2 DEF TypeOK, FailedFinite, Recent
  <1>4. CASE Locked(c)
    <2>1. Past' \subseteq Past
      BY <1>2, <1>4 DEF Past
    <2> QED
      BY <1>3, <2>1, BoundKept
  <1>5. CASE ~Locked(c)
    <2>1. Recent \subseteq Counted(req[h].lag) /\ Counted(req[h].lag) \subseteq failed
      BY LockoutAssumption DEF Recent, Counted, TypeOK
    <2>2. IsFiniteSet(Counted(req[h].lag)) /\ Cardinality(Recent) <= c /\ c \in Nat
      BY <2>1, FS_Subset, FS_CardinalityType DEF FailedFinite
    <2>3. c < MaxAttempts
      BY <1>5, <2>2, LockoutAssumption DEF Locked
    <2>4. Cardinality(Recent) < MaxAttempts /\ Cardinality(Recent) \in Nat
      BY <2>2, <2>3, Finite, LockoutAssumption
    <2>5. Past' \subseteq Handlers
      BY DEF Past
    <2>6. Cardinality(Past') <= Cardinality(Handlers) /\ Cardinality(Past') \in Nat
      BY <2>5, FS_Subset, FS_CardinalityType, LockoutAssumption
    <2>7. FailuresBounded'
      BY <1>3, <2>4, <2>6, Finite, LockoutAssumption DEF FailuresBounded
    <2> QED
      BY <1>3, <2>7
  <1> QED
    BY <1>4, <1>5

LEMMA RecordBounded ==
  ASSUME Bounded, NEW h \in Handlers, Record(h)
  PROVE  Bounded'
  <1> USE DEF Bounded
  <1>1. PICK a \in Attempts \ failed :
          failed' = failed \cup {a} /\ age' = [age EXCEPT ![a] = 0]
    BY DEF Record
  <1>2. req[h].pc = "record" /\ Goto(h, "idle") /\ "idle" \in Pc
    BY DEF Record, Pc
  <1>3. /\ req' \in [Handlers -> [pc: Pc, lag: Nat]] /\ req'[h].pc = "idle"
        /\ \A g \in Handlers \ {h} : req'[g] = req[g]
    BY <1>2, GotoType
  <1>4. TypeOK'
    BY <1>1, <1>3 DEF TypeOK
  <1>5. FailedFinite' /\ Recent' \subseteq Recent \cup {a}
    BY <1>1, FS_AddElement DEF FailedFinite, Recent, TypeOK
  <1>6. h \in Past /\ Past' = Past \ {h}
    BY <1>2, <1>3 DEF Past
  <1>7. Cardinality(Past') = Cardinality(Past) - 1
    BY <1>6, Finite, FS_RemoveElement
  <1>8. Cardinality(Recent') <= Cardinality(Recent) + 1 /\ Cardinality(Recent') \in Nat
    <2>1. a \notin Recent
      BY <1>1 DEF Recent
    <2>2. IsFiniteSet(Recent \cup {a})
          /\ Cardinality(Recent \cup {a}) = Cardinality(Recent) + 1
      BY <2>1, Finite, FS_AddElement
    <2> QED
      BY <1>5, <2>2, FS_Subset, FS_CardinalityType
  <1>9. FailuresBounded'
    BY <1>7, <1>8, Finite, LockoutAssumption DEF FailuresBounded
  <1> QED
    BY <1>4, <1>5, <1>9

(* Every other step of a request leaves Past and the failures, or shrinks.  *)
LEMMA RestBounded ==
  ASSUME Bounded, NEW h \in Handlers,
         LoginStart(h) \/ Verify(h) \/ Clear(h) \/ Abort(h)
  PROVE  Bounded'
  <1> USE DEF Bounded
  <1>1. PICK pc \in Pc : /\ Goto(h, pc)
                         /\ pc \in {"verify", "record"} => req[h].pc = "verify"
    BY DEF LoginStart, Verify, Clear, Abort, Pc
  <1>2. (failed' = {} \/ failed' = failed) /\ age' = age
    BY DEF LoginStart, Verify, Clear, Abort
  <1>3. /\ req' \in [Handlers -> [pc: Pc, lag: Nat]] /\ req'[h].pc = pc
        /\ \A g \in Handlers \ {h} : req'[g] = req[g]
    BY <1>1, GotoType
  <1>4. TypeOK' /\ FailedFinite' /\ Recent' \subseteq Recent
    BY <1>2, <1>3, FS_EmptySet DEF TypeOK, FailedFinite, Recent
  <1>5. Past' \subseteq Past
    BY <1>1, <1>3 DEF Past
  <1> QED
    BY <1>4, <1>5, BoundKept

LEMMA TickBounded ==
  ASSUME Bounded, Tick
  PROVE  Bounded'
  <1> USE DEF Bounded
  <1>1. failed' \subseteq failed
    BY DEF Tick
  <1>2. age' \in [Attempts -> Nat]
    BY DEF Tick, TypeOK
  <1>3. ASSUME NEW h \in Handlers
        PROVE  Older(h) \in [pc: Pc, lag: Nat] /\ Older(h).pc = req[h].pc
    BY DEF Older, TypeOK
  <1>4. req' \in [Handlers -> [pc: Pc, lag: Nat]] /\ \A h \in Handlers : req'[h].pc = req[h].pc
    BY <1>3 DEF Tick
  <1>5. TypeOK' /\ Past' = Past
    BY <1>1, <1>2, <1>4 DEF TypeOK, Past
  <1>6. FailedFinite'
    BY <1>1, FS_Subset DEF FailedFinite
  <1>7. Recent' \subseteq Recent
    BY <1>1, LockoutAssumption DEF Recent, Tick, TypeOK
  <1> QED
    BY <1>5, <1>6, <1>7, BoundKept

LEMMA NextBounded == Bounded /\ [Next]_vars => Bounded'
  <1> SUFFICES ASSUME Bounded, [Next]_vars PROVE Bounded'
    OBVIOUS
  <1>1. ASSUME NEW h \in Handlers, LoginStart(h) \/ Progress(h) \/ Abort(h)
        PROVE  Bounded'
    BY <1>1, CountBounded, RecordBounded, RestBounded DEF Progress
  <1>2. CASE Tick
    BY <1>2, TickBounded
  <1>3. CASE UNCHANGED vars
    BY <1>3 DEF vars, Bounded, TypeOK, FailedFinite, FailuresBounded, Recent, Past
  <1> QED
    BY <1>1, <1>2, <1>3 DEF Next

LEMMA BoundedAlways == Spec => []Bounded
  <1> QED
    BY InitBounded, NextBounded, PTL DEF Spec

(* Every reachable state of the lockout is well typed (login).              *)
THEOREM TypeCorrect == Spec => []TypeOK
  <1>1. Bounded => TypeOK
    BY DEF Bounded
  <1> QED
    BY <1>1, BoundedAlways, PTL

(* The failures in a window exceed the limit by less than the number of     *)
(* requests that can run at once (login).                                   *)
THEOREM FailureBound == Spec => []FailuresBounded
  <1>1. Bounded => FailuresBounded
    BY DEF Bounded
  <1> QED
    BY <1>1, BoundedAlways, PTL

(* With one worker a window never holds more than loginMaxAttempts failures *)
(* (login).                                                                 *)
THEOREM SequentialLimit ==
  ASSUME NEW h0, Handlers = {h0}
  PROVE  Spec => []FailuresWithinLimit
  <1>1. Cardinality(Handlers) = 1
    BY FS_Singleton
  <1>2. Bounded => FailuresWithinLimit
    <2> SUFFICES ASSUME Bounded PROVE FailuresWithinLimit
      OBVIOUS
    <2> QED
      BY <1>1, Finite, LockoutAssumption DEF Bounded, FailuresBounded, FailuresWithinLimit
  <1> QED
    BY <1>2, BoundedAlways, PTL

-----------------------------------------------------------------------------
(* A lock is not prolonged: while the identifier is locked and no request   *)
(* is past the count, none gets past it and nothing is recorded, however    *)
(* many try (login is turned away before it can record a failure).          *)
LockedRecordsNothing ==
  [][Locked(Cardinality(Recent)) /\ Past = {} => Past' = {} /\ failed' \subseteq failed]_vars

(* A request counts every failure in the window, whenever it computed       *)
(* `since`.                                                                 *)
LEMMA CountsRecent ==
  ASSUME Bounded, NEW h \in Handlers, Locked(Cardinality(Recent))
  PROVE  Locked(Cardinality(Counted(req[h].lag)))
  <1> DEFINE counted == Counted(req[h].lag)
  <1>1. Recent \subseteq counted /\ counted \subseteq failed
    BY LockoutAssumption DEF Bounded, TypeOK, Recent, Counted
  <1>2. IsFiniteSet(counted)
    BY <1>1, FS_Subset DEF Bounded, FailedFinite
  <1> HIDE DEF counted
  <1>3. Cardinality(Recent) <= Cardinality(counted) /\ Cardinality(counted) \in Nat
    BY <1>1, <1>2, FS_Subset, FS_CardinalityType
  <1>4. Cardinality(Recent) \in Nat /\ MaxAttempts \in Nat
    BY Finite, LockoutAssumption DEF Bounded
  <1>5. Locked(Cardinality(counted))
    BY <1>3, <1>4 DEF Locked
  <1> QED
    BY <1>5 DEF counted

LEMMA LockedStep ==
  ASSUME Bounded, [Next]_vars, Locked(Cardinality(Recent)), Past = {}
  PROVE  Past' = {} /\ failed' \subseteq failed
  <1> USE DEF Bounded
  <1>1. \A h \in Handlers : req[h].pc \notin {"verify", "record"}
    BY DEF Past
  <1>2. ASSUME NEW h \in Handlers, LoginStart(h) \/ Count(h) \/ Clear(h) \/ Abort(h)
        PROVE  Past' = {} /\ failed' \subseteq failed
    <2>1. Goto(h, "idle") \/ Goto(h, "count")
      BY <1>2, CountsRecent DEF LoginStart, Count, Clear, Abort
    <2>2. req'[h].pc \in {"idle", "count"} /\ \A g \in Handlers \ {h} : req'[g] = req[g]
      BY <2>1, GotoType DEF Pc
    <2>3. failed' = failed \/ failed' = {}
      BY <1>2 DEF LoginStart, Count, Clear, Abort
    <2> QED
      BY <1>1, <2>2, <2>3 DEF Past
  <1>3. ASSUME NEW h \in Handlers, Verify(h) \/ Record(h) PROVE FALSE
    BY <1>1, <1>3 DEF Verify, Record
  <1>4. CASE Tick
    <2>1. \A h \in Handlers : req'[h].pc = req[h].pc
      BY <1>4 DEF Tick, Older, TypeOK
    <2> QED
      BY <1>1, <1>4, <2>1 DEF Tick, Past
  <1>5. CASE UNCHANGED vars
    BY <1>5 DEF vars, Past
  <1> QED
    BY <1>2, <1>3, <1>4, <1>5 DEF Next, Progress

(* What AutoUnlock rests on besides the passing of time: clients that keep  *)
(* trying cannot keep an identifier locked (login).                         *)
THEOREM LockNotProlonged == Spec => LockedRecordsNothing
  <1>1. Bounded /\ [Next]_vars =>
          [Locked(Cardinality(Recent)) /\ Past = {}
             => Past' = {} /\ failed' \subseteq failed]_vars
    BY LockedStep
  <1> QED
    BY <1>1, BoundedAlways, PTL DEF Spec, LockedRecordsNothing
=============================================================================
