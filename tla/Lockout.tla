------------------------------- MODULE Lockout -------------------------------
(***************************************************************************)
(* Account lockout: the check that opens login and the failures it counts, *)
(* for one identifier (every query is restricted to one identifier, so     *)
(* identifiers do not affect each other), under concurrent requests.       *)
(*                                                                         *)
(* Time is kept as ages: age[a] is how many ticks ago the failure a was    *)
(* recorded, and lag how many ticks ago a request computed `since`.  A     *)
(* failure too old for any request to count is dropped from failed; in the *)
(* table it stays, matching no query again.                                *)
(***************************************************************************)
EXTENDS Integers, FiniteSets

CONSTANTS
  Handlers,     \* workers: each serves one login at a time
  Attempts,     \* identities of recorded failures
  MaxAttempts,  \* loginMaxAttempts
  Window,       \* loginWindowMinutes, in ticks
  MaxLag,       \* bound: ticks between computing `since` and the count
  MayAbort      \* may a request die between two awaits?

ASSUME LockoutAssumption ==
  /\ MaxAttempts \in Nat \ {0} /\ Window \in Nat \ {0} /\ MaxLag \in Nat
  /\ MayAbort \in BOOLEAN
  /\ IsFiniteSet(Handlers) /\ Handlers # {}

VARIABLES
  failed,  \* failures recorded and not cleared
  age,     \* how long ago each was recorded
  req      \* each worker's current login

vars == <<failed, age, req>>

Pc == {"idle", "count", "verify", "record", "clear"}

Idle == [pc |-> "idle", lag |-> 0]

TypeOK ==
  /\ failed \subseteq Attempts
  /\ age \in [Attempts -> Nat]
  /\ req \in [Handlers -> [pc: Pc, lag: Nat]]

Init ==
  /\ failed = {}
  /\ age = [a \in Attempts |-> 0]
  /\ req = [h \in Handlers |-> Idle]

-----------------------------------------------------------------------------
Goto(h, pc) == req' = [req EXCEPT ![h] = [pc |-> pc, lag |-> 0]]

(* Mutant of Counted: the oldest tick of the window is left out. *)
CountedShort(lag) == {a \in failed : age[a] < Window + lag}

(* countRecentFailures for a `since` computed lag ticks ago. *)
Counted(lag) == {a \in failed : age[a] <= Window + lag}

(* since = now - loginWindowMinutes, before the first await of login. *)
LoginStart(h) ==
  /\ req[h].pc = "idle"
  /\ Goto(h, "count")
  /\ UNCHANGED <<failed, age>>

Locked(count) == count >= MaxAttempts

(* Mutant of Count: an attempt that is turned away counts as a failure. *)
CountRecords(h) ==
  /\ req[h].pc = "count"
  /\ Goto(h, IF Locked(Cardinality(Counted(req[h].lag))) THEN "record" ELSE "verify")
  /\ UNCHANGED <<failed, age>>

(* The count: a locked identifier is turned away, and nothing is recorded. *)
Count(h) ==
  /\ req[h].pc = "count"
  /\ Goto(h, IF Locked(Cardinality(Counted(req[h].lag))) THEN "idle" ELSE "verify")
  /\ UNCHANGED <<failed, age>>

(* findByEmail and the password check.  A wrong password or an unknown user *)
(* goes on to record a failure; the right password of a disabled or         *)
(* unverified account ends the request; otherwise failures are cleared.     *)
Verify(h) ==
  /\ req[h].pc = "verify"
  /\ \E next \in {"record", "idle", "clear"} : Goto(h, next)
  /\ UNCHANGED <<failed, age>>

Record(h) ==
  /\ req[h].pc = "record"
  /\ \E a \in Attempts \ failed :
       /\ failed' = failed \cup {a}
       /\ age' = [age EXCEPT ![a] = 0]
  /\ Goto(h, "idle")

Clear(h) ==
  /\ req[h].pc = "clear"
  /\ failed' = {}
  /\ Goto(h, "idle")
  /\ UNCHANGED age

Abort(h) ==
  /\ MayAbort
  /\ req[h].pc # "idle"
  /\ Goto(h, "idle")
  /\ UNCHANGED <<failed, age>>

(* Mutant of Older: `since` moves the wrong way. *)
OlderReversed(h) ==
  IF req[h].pc = "count" THEN [req[h] EXCEPT !.lag = @ - 1] ELSE req[h]

(* A tick makes everything older.  No request is outrun by more than MaxLag. *)
Older(h) == IF req[h].pc = "count" THEN [req[h] EXCEPT !.lag = @ + 1] ELSE req[h]

Horizon == Window + MaxLag

Tick ==
  /\ \A h \in Handlers : req[h].pc = "count" => req[h].lag < MaxLag
  /\ failed' = {a \in failed : age[a] < Horizon}
  /\ age' = [a \in Attempts |-> IF a \in failed' THEN age[a] + 1 ELSE 0]
  /\ req' = [h \in Handlers |-> Older(h)]

Progress(h) == Count(h) \/ Verify(h) \/ Record(h) \/ Clear(h)

Next ==
  \/ \E h \in Handlers : LoginStart(h) \/ Progress(h) \/ Abort(h)
  \/ Tick

Spec == Init /\ [][Next]_vars

(* Accepted requests run on and time passes; no client need ever log in, or *)
(* ever stop trying.                                                        *)
FairSpec == Spec /\ WF_vars(Tick) /\ \A h \in Handlers : WF_vars(Progress(h))

-----------------------------------------------------------------------------
Recent == {a \in failed : age[a] <= Window}

(* Requests that are past the count and may still record a failure. *)
Past == {h \in Handlers : req[h].pc \in {"verify", "record"}}

(* Within one window no more failures are recorded than the limit allows    *)
(* plus one for every other request that ran at the same time (login counts *)
(* first and records after the password check).                             *)
FailuresBounded ==
  Cardinality(Recent) + Cardinality(Past) < MaxAttempts + Cardinality(Handlers)

(* One login at a time: never more failures than loginMaxAttempts in a      *)
(* window (login).                                                          *)
FailuresWithinLimit == Cardinality(Recent) <= MaxAttempts

(* However often clients try, a locked identifier is let in again: its      *)
(* failures age out (login).                                                *)
AutoUnlock == Locked(Cardinality(Recent)) ~> ~Locked(Cardinality(Recent))
=============================================================================
