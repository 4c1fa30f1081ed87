------------------------------ MODULE MfaProofs ------------------------------
(***************************************************************************)
(* Theorems about Mfa, for any sets of secrets, recovery codes and workers *)
(* and any size of a batch of codes.                                       *)
(***************************************************************************)
EXTENDS Mfa, FiniteSetTheorems, TLAPS

RequestsOK == \A h \in Handlers : At(h, "recover") => req[h].code \in Codes

(* Only a code that was consumed has been accepted. *)
AcceptedOK ==
  \A c \in Codes : /\ codes[c] \in {"fresh", "live"} => accepted[c] = 0
                   /\ accepted[c] <= 1

Base == TypeOK /\ RequestsOK /\ AcceptedOK

LEMMA IdleType == Idle \in Request
  BY DEF Idle, Request, Pc, After

LEMMA BecomeType ==
  ASSUME TypeOK, NEW h \in Handlers, NEW r \in Request, Become(h, r)
  PROVE  /\ req' \in [Handlers -> Request]
         /\ req'[h] = r
         /\ \A g \in Handlers \ {h} : req'[g] = req[g]
  BY DEF TypeOK, Become

LEMMA GotoType ==
  ASSUME TypeOK, NEW h \in Handlers, NEW pc \in Pc, Goto(h, pc)
  PROVE  /\ req' \in [Handlers -> Request]
         /\ req'[h].pc = pc /\ req'[h].after = req[h].after
         /\ \A g \in Handlers \ {h} : req'[g] = req[g]
  BY DEF TypeOK, Goto, Request

LEMMA DoneType ==
  ASSUME TypeOK, NEW h \in Handlers, Done(h)
  PROVE  /\ req' \in [Handlers -> Request]
         /\ req'[h] = Idle /\ req'[h].pc = "idle"
         /\ \A g \in Handlers \ {h} : req'[g] = req[g]
  <1>1. Become(h, Idle)
    BY DEF Done
  <1>2. Idle.pc = "idle"
    BY DEF Idle
  <1> QED
    BY <1>1, <1>2, BecomeType, IdleType

(* The request that verifyCode sends on its way.                           *)
LEMMA VerifyCodeType ==
  ASSUME TypeOK, NEW h \in Handlers, NEW after \in After, VerifyCode(h, after)
  PROVE  /\ row.enabled /\ row.secret # None
         /\ req' \in [Handlers -> Request]
         /\ \/ req'[h].pc = after
            \/ req'[h].pc = "recover" /\ req'[h].code \in Codes /\ req'[h].after = after
         /\ \A g \in Handlers \ {h} : req'[g] = req[g]
  <1>1. row.enabled /\ row.secret # None
    BY DEF VerifyCode
  <1>2. CASE Become(h, [Idle EXCEPT !.pc = after])
    <2>1. [Idle EXCEPT !.pc = after] \in Request
      BY DEF Idle, Request, Pc, After
    <2>2. [Idle EXCEPT !.pc = after].pc = after
      BY DEF Idle
    <2> QED
      BY <1>1, <1>2, <2>1, <2>2, BecomeType
  <1>3. ASSUME NEW c \in Codes,
               Become(h, [Idle EXCEPT !.pc = "recover", !.code = c, !.after = after])
        PROVE  /\ req' \in [Handlers -> Request]
               /\ req'[h].pc = "recover" /\ req'[h].code \in Codes /\ req'[h].after = after
               /\ \A g \in Handlers \ {h} : req'[g] = req[g]
    <2> DEFINE r == [Idle EXCEPT !.pc = "recover", !.code = c, !.after = after]
    <2>1. r \in Request
      BY DEF Idle, Request, Pc, After
    <2>2. r.pc = "recover" /\ r.code = c /\ r.after = after
      BY DEF Idle
    <2> QED
      BY <1>3, <2>1, <2>2, BecomeType
  <1> QED
    BY <1>1, <1>2, <1>3 DEF VerifyCode

-----------------------------------------------------------------------------
(* Types, and recovery codes.                                              *)

(* A step that leaves the codes alone and sends no request to recover.     *)
LEMMA BaseKept ==
  ASSUME Base, TypeOK', UNCHANGED <<codes, accepted>>,
         \A g \in Handlers : req'[g].pc = "recover" => req'[g] = req[g] \/ req'[g].code \in Codes
  PROVE  Base'
  BY DEF Base, RequestsOK, AcceptedOK, At

LEMMA EnrolBase ==
  ASSUME Base, NEW h \in Handlers, BeginFind(h) \/ BeginStore(h) \/ ConfirmFind(h)
  PROVE  Base'
  <1> USE DEF Base
  <1>1. CASE BeginFind(h)
    <2>1. PICK s \in Secrets :
            /\ secrets' = [secrets EXCEPT ![s] = "shown"]
            /\ Become(h, [Idle EXCEPT !.pc = "store", !.secret = s])
      BY <1>1 DEF BeginFind
    <2> DEFINE r == [Idle EXCEPT !.pc = "store", !.secret = s]
    <2>2. r \in Request /\ r.pc = "store"
      BY DEF Idle, Request, Pc, After
    <2>3. /\ req' \in [Handlers -> Request] /\ req'[h].pc = "store"
          /\ \A g \in Handlers \ {h} : req'[g] = req[g]
      BY <2>1, <2>2, BecomeType
    <2>4. overlap' \in BOOLEAN
      BY <1>1 DEF BeginFind, Starts, TypeOK
    <2>5. TypeOK'
      BY <1>1, <2>1, <2>3, <2>4 DEF BeginFind, TypeOK
    <2> QED
      BY <1>1, <2>3, <2>5, BaseKept DEF BeginFind
  <1>2. CASE BeginStore(h)
    <2>1. Done(h)
      BY <1>2 DEF BeginStore
    <2>2. row' \in MfaRow
      BY <1>2 DEF BeginStore, TypeOK, Request, MfaRow
    <2>3. TypeOK'
      BY <1>2, <2>1, <2>2, DoneType DEF BeginStore, TypeOK
    <2> QED
      BY <1>2, <2>1, <2>3, DoneType, BaseKept DEF BeginStore
  <1>3. CASE ConfirmFind(h)
    <2> DEFINE r == [Idle EXCEPT !.pc = "enable"]
    <2>1. r \in Request /\ r.pc = "enable" /\ Become(h, r)
      BY <1>3 DEF ConfirmFind, Idle, Request, Pc, After
    <2>2. /\ req' \in [Handlers -> Request] /\ req'[h].pc = "enable"
          /\ \A g \in Handlers \ {h} : req'[g] = req[g]
      BY <2>1, BecomeType
    <2>3. overlap' \in BOOLEAN
      BY <1>3 DEF ConfirmFind, Starts, TypeOK
    <2>4. secrets' \in [Secrets -> {"fresh", "shown", "confirmed"}]
      BY <1>3 DEF ConfirmFind, TypeOK
    <2>5. TypeOK'
      BY <1>3, <2>2, <2>3, <2>4 DEF ConfirmFind, TypeOK
    <2> QED
      BY <1>3, <2>2, <2>5, BaseKept DEF ConfirmFind
  <1> QED
    BY <1>1, <1>2, <1>3

LEMMA ReplaceType ==
  ASSUME TypeOK, NEW batch \in SUBSET CodesIn("fresh"), codes' = Replace(batch)
  PROVE  /\ codes' \in [Codes -> CodeState]
         /\ \A c \in Codes : codes'[c] \in {"fresh", "live"} => codes[c] \in {"fresh", "live"}
         /\ Rows' = batch
  <1>1. codes' \in [Codes -> CodeState]
    BY DEF TypeOK, Replace, CodeState
  <1>2. \A c \in Codes : codes'[c] =
          IF c \in batch THEN "live"
          ELSE IF c \in Rows THEN "deleted" ELSE codes[c]
    BY DEF Replace
  <1>3. \A c \in Codes : codes[c] \in {"live", "consumed"} <=> c \in Rows
    BY DEF Rows, CodesIn
  <1>4. \A c \in batch : c \in Codes /\ codes[c] = "fresh"
    BY DEF CodesIn
  <1>5. \A c \in Codes : codes'[c] \in {"fresh", "live"} => codes[c] \in {"fresh", "live"}
    BY <1>2, <1>4
  <1>6. Rows' = batch
    BY <1>2, <1>3, <1>4 DEF Rows, CodesIn
  <1> QED
    BY <1>1, <1>5, <1>6

LEMMA CodesBase ==
  ASSUME Base, NEW h \in Handlers,
         ConfirmEnable(h) \/ ConfirmCodes(h) \/ DisableClear(h) \/ DisableDelete(h)
  PROVE  Base'
  <1> USE DEF Base
  <1>1. CASE ConfirmEnable(h)
    <2>1. Goto(h, "codes") /\ row' \in MfaRow
      BY <1>1 DEF ConfirmEnable, TypeOK, MfaRow
    <2>2. TypeOK'
      BY <1>1, <2>1, GotoType DEF ConfirmEnable, TypeOK, Pc
    <2> QED
      BY <1>1, <2>1, <2>2, GotoType, BaseKept DEF ConfirmEnable, Pc
  <1>2. CASE ConfirmCodes(h)
    <2>1. PICK batch \in SUBSET CodesIn("fresh") : codes' = Replace(batch)
      BY <1>2 DEF ConfirmCodes
    <2>2. Done(h) /\ UNCHANGED accepted
      BY <1>2 DEF ConfirmCodes
    <2>3. TypeOK'
      BY <1>2, <2>1, <2>2, DoneType, ReplaceType DEF ConfirmCodes, TypeOK
    <2>4. AcceptedOK'
      BY <2>1, <2>2, ReplaceType DEF AcceptedOK
    <2>5. RequestsOK'
      BY <2>2, DoneType DEF RequestsOK, At
    <2> QED
      BY <2>3, <2>4, <2>5
  <1>3. CASE DisableClear(h)
    <2>1. Goto(h, "delete") /\ row' \in MfaRow
      BY <1>3 DEF DisableClear, Off, MfaRow
    <2>2. TypeOK'
      BY <1>3, <2>1, GotoType DEF DisableClear, TypeOK, Pc
    <2> QED
      BY <1>3, <2>1, <2>2, GotoType, BaseKept DEF DisableClear, Pc
  <1>4. CASE DisableDelete(h)
    <2>1. Done(h) /\ UNCHANGED accepted
      BY <1>4 DEF DisableDelete
    <2>2. /\ codes' \in [Codes -> CodeState]
          /\ \A c \in Codes : codes'[c] \in {"fresh", "live"} => codes[c] \in {"fresh", "live"}
      BY <1>4 DEF DisableDelete, TypeOK, CodeState
    <2>3. TypeOK'
      BY <1>4, <2>1, <2>2, DoneType DEF DisableDelete, TypeOK
    <2>4. AcceptedOK'
      BY <2>1, <2>2 DEF AcceptedOK
    <2>5. RequestsOK'
      BY <2>1, DoneType DEF RequestsOK, At
    <2> QED
      BY <2>3, <2>4, <2>5
  <1> QED
    BY <1>1, <1>2, <1>3, <1>4

LEMMA RecoverBase ==
  ASSUME Base, NEW h \in Handlers, Recover(h)
  PROVE  /\ Base' /\ Rows' = Rows
         /\ req'[h].pc \in {"idle", req[h].after}
         /\ \A g \in Handlers \ {h} : req'[g] = req[g]
  <1> DEFINE c == req[h].code
             r == [Idle EXCEPT !.pc = req[h].after]
  <1> USE DEF Base
  <1>1. c \in Codes /\ req[h].after \in After
    BY DEF Recover, RequestsOK, At, TypeOK, Request
  <1>2. r \in Request /\ r.pc = req[h].after
    BY <1>1 DEF Idle, Request, Pc, After
  <1>3. Done(h) \/ Become(h, r)
    BY DEF Recover
  <1>4. /\ req' \in [Handlers -> Request]
        /\ req'[h].pc \in {"idle", req[h].after}
        /\ \A g \in Handlers \ {h} : req'[g] = req[g]
    BY <1>2, <1>3, DoneType, BecomeType
  <1>5. req'[h].pc # "recover"
    BY <1>1, <1>4 DEF After
  <1>6. CASE UNCHANGED <<codes, accepted>>
    <2>1. TypeOK'
      BY <1>4, <1>6 DEF Recover, TypeOK
    <2> QED
      BY <1>4, <1>5, <1>6, <2>1, BaseKept DEF Rows, CodesIn
  <1>7. CASE /\ codes[c] = "live"
             /\ codes' = [codes EXCEPT ![c] = "consumed"]
             /\ accepted' = [accepted EXCEPT ![c] = @ + 1]
    <2>1. accepted[c] = 0
      BY <1>1, <1>7 DEF AcceptedOK
    <2>2. TypeOK'
      BY <1>1, <1>4, <1>7 DEF Recover, TypeOK, CodeState
    <2>3. AcceptedOK'
      BY <1>1, <1>7, <2>1 DEF AcceptedOK, TypeOK
    <2>4. RequestsOK'
      BY <1>4, <1>5 DEF RequestsOK, At
    <2>5. Rows' = Rows
      BY <1>1, <1>7 DEF Rows, CodesIn, TypeOK
    <2> QED
      BY <1>4, <2>2, <2>3, <2>4, <2>5
  <1> QED
    BY <1>6, <1>7 DEF Recover, MayConsume

LEMMA VerifyBase ==
  ASSUME Base, NEW h \in Handlers, DisableFind(h) \/ CompleteFind(h)
  PROVE  Base'
  <1> USE DEF Base
  <1>1. PICK after \in After : VerifyCode(h, after)
    BY DEF DisableFind, CompleteFind, After
  <1>2. /\ req' \in [Handlers -> Request]
        /\ req'[h].pc = "recover" => req'[h].code \in Codes
        /\ \A g \in Handlers \ {h} : req'[g] = req[g]
    BY <1>1, VerifyCodeType DEF After
  <1>3. overlap' \in BOOLEAN
    BY DEF DisableFind, CompleteFind, Starts, TypeOK
  <1>4. TypeOK'
    BY <1>2, <1>3 DEF DisableFind, CompleteFind, TypeOK
  <1>5. UNCHANGED <<codes, accepted>>
    BY DEF DisableFind, CompleteFind
  <1>6. \A g \in Handlers : req'[g].pc = "recover" => req'[g] = req[g] \/ req'[g].code \in Codes
    BY <1>2
  <1> QED
    BY <1>4, <1>5, <1>6, BaseKept

LEMMA NextBase == Base /\ [Next]_vars => Base'
  <1> SUFFICES ASSUME Base, [Next]_vars PROVE Base'
    OBVIOUS
  <1>1. ASSUME NEW h \in Handlers, Abort(h) PROVE Base'
    <2>1. TypeOK'
      BY <1>1, DoneType DEF Abort, Base, TypeOK
    <2> QED
      BY <1>1, <2>1, DoneType, BaseKept DEF Abort, Base
  <1>2. CASE Login \/ Expire
    BY <1>2 DEF Login, Expire, Base, TypeOK, RequestsOK, AcceptedOK, At
  <1>3. CASE UNCHANGED vars
    BY <1>3 DEF vars, Base, TypeOK, RequestsOK, AcceptedOK, At
  <1> QED
    BY <1>1, <1>2, <1>3, EnrolBase, CodesBase, RecoverBase, VerifyBase DEF Next

LEMMA InitBase == Init => Base
  <1> SUFFICES ASSUME Init PROVE Base
    OBVIOUS
  <1>1. Off \in MfaRow /\ Idle.pc = "idle"
    BY DEF Off, MfaRow, Idle
  <1>2. TypeOK
    BY <1>1, IdleType DEF Init, TypeOK, CodeState
  <1>3. RequestsOK /\ AcceptedOK
    BY <1>1 DEF Init, RequestsOK, AcceptedOK, At
  <1> QED
    BY <1>2, <1>3 DEF Base

LEMMA BaseAlways == Spec => []Base
  BY InitBase, NextBase, PTL DEF Spec

(* Every reachable state is well typed.                                    *)
THEOREM TypeCorrect == Spec => []TypeOK
  <1>1. Base => TypeOK
    BY DEF Base
  <1> QED
    BY <1>1, BaseAlways, PTL

(* A recovery code is accepted at most once in every interleaving of logins *)
(* and disabling (verifyCode, recoveryCodes.consume).                       *)
THEOREM RecoveryCodesOnce == Spec => []RecoveryCodeOnce
  <1>1. Base => RecoveryCodeOnce
    BY DEF Base, AcceptedOK, RecoveryCodeOnce
  <1> QED
    BY <1>1, BaseAlways, PTL

-----------------------------------------------------------------------------
(* Enrolment requests that do not overlap.                                 *)

Alone == \A g, h \in Enrolling : g = h

(* What a request found still holds: nobody else writes the row.           *)
Steady(h) ==
  /\ At(h, "store") => ~row.enabled
  /\ At(h, "enable") => row.secret # None /\ secrets[row.secret] = "confirmed"
  /\ At(h, "codes") => row.enabled
  /\ At(h, "delete") => ~row.enabled

Orderly == ~overlap => /\ Alone
                       /\ \A h \in Handlers : Steady(h)
                       /\ EnabledIsConfirmed

Enrols(r) == \/ r.pc \in {"store", "enable", "codes", "clear", "delete"}
             \/ r.pc = "recover" /\ r.after = "clear"

LEMMA EnrollingMember == Enrolling = {h \in Handlers : Enrols(req[h])}
  BY DEF Enrolling, At, Enrols

(* Who enrols after a step that moves h only.                              *)
LEMMA AloneKept ==
  ASSUME Alone, NEW h \in Handlers, \A g \in Handlers \ {h} : req'[g] = req[g],
         h \in Enrolling' => h \in Enrolling \/ Enrolling = {}
  PROVE  Alone'
  <1>1. Enrolling' \subseteq Enrolling \cup {h}
    BY DEF Enrolling, At
  <1> QED
    BY <1>1 DEF Alone

(* A request that verified nothing of the row and only moves on.           *)
LEMMA OrderlyMove ==
  ASSUME Base, Orderly, NEW h \in Handlers,
         \A g \in Handlers \ {h} : req'[g] = req[g],
         UNCHANGED <<row, secrets, overlap>>,
         req'[h].pc \notin {"store", "enable", "codes", "delete"},
         h \in Enrolling' => h \in Enrolling
  PROVE  Orderly'
  <1> SUFFICES ASSUME ~overlap PROVE Alone' /\ (\A g \in Handlers : Steady(g)') /\ EnabledIsConfirmed'
    BY DEF Orderly
  <1>1. Alone'
    BY AloneKept DEF Orderly
  <1>2. ASSUME NEW g \in Handlers PROVE Steady(g)'
    BY DEF Orderly, Steady, At
  <1>3. EnabledIsConfirmed'
    BY DEF Orderly, EnabledIsConfirmed
  <1> QED
    BY <1>1, <1>2, <1>3

(* A step that starts an enrolment request: alone, or overlap is noted.    *)
LEMMA StartOrderly ==
  ASSUME Base, Orderly, NEW h \in Handlers,
         BeginFind(h) \/ ConfirmFind(h) \/ DisableFind(h)
  PROVE  Orderly'
  <1> SUFFICES ASSUME ~overlap' PROVE Alone' /\ (\A g \in Handlers : Steady(g)') /\ EnabledIsConfirmed'
    BY DEF Orderly
  <1>1. ~overlap /\ Enrolling = {}
    BY DEF BeginFind, ConfirmFind, DisableFind, Starts
  <1>2. Alone /\ EnabledIsConfirmed
    BY <1>1 DEF Orderly
  <1> USE DEF Base
  <1>3. CASE BeginFind(h)
    <2>1. PICK s \in Secrets :
            /\ secrets[s] = "fresh"
            /\ secrets' = [secrets EXCEPT ![s] = "shown"]
            /\ Become(h, [Idle EXCEPT !.pc = "store", !.secret = s])
      BY <1>3 DEF BeginFind
    <2> DEFINE r == [Idle EXCEPT !.pc = "store", !.secret = s]
    <2>2. r \in Request /\ r.pc = "store"
      BY DEF Idle, Request, Pc, After
    <2>3. /\ req'[h].pc = "store" /\ \A g \in Handlers \ {h} : req'[g] = req[g]
      BY <2>1, <2>2, BecomeType
    <2>4. ~row.enabled /\ row' = row
      BY <1>3 DEF BeginFind, MayEnrol
    <2>5. Alone'
      BY <1>1, <1>2, <2>3, AloneKept
    <2>6. ASSUME NEW g \in Handlers PROVE Steady(g)'
      <3>1. CASE g = h
        BY <2>3, <2>4, <3>1 DEF Steady, At
      <3>2. CASE g # h
        <4>1. req'[g].pc \notin {"store", "enable", "codes", "delete"}
          BY <1>1, <2>3, <3>2, EnrollingMember DEF Enrols
        <4> QED
          BY <4>1 DEF Steady, At
      <3> QED
        BY <3>1, <3>2
    <2>7. EnabledIsConfirmed'
      BY <2>4 DEF EnabledIsConfirmed
    <2> QED
      BY <2>5, <2>6, <2>7
  <1>4. CASE ConfirmFind(h)
    <2> DEFINE r == [Idle EXCEPT !.pc = "enable"]
    <2>1. r \in Request /\ r.pc = "enable" /\ Become(h, r)
      BY <1>4 DEF ConfirmFind, Idle, Request, Pc, After
    <2>2. /\ req'[h].pc = "enable" /\ \A g \in Handlers \ {h} : req'[g] = req[g]
      BY <2>1, BecomeType
    <2>3. /\ row.secret \in Secrets /\ row.secret # None /\ row' = row
          /\ secrets' = [secrets EXCEPT ![row.secret] = "confirmed"]
      BY <1>4 DEF ConfirmFind, TypeOK, MfaRow
    <2>4. secrets'[row.secret] = "confirmed"
      BY <2>3 DEF TypeOK
    <2>5. Alone'
      BY <1>1, <1>2, <2>2, AloneKept
    <2>6. ASSUME NEW g \in Handlers PROVE Steady(g)'
      <3>1. CASE g = h
        BY <2>2, <2>3, <2>4, <3>1 DEF Steady, At
      <3>2. CASE g # h
        <4>1. req'[g].pc \notin {"store", "enable", "codes", "delete"}
          BY <1>1, <2>2, <3>2, EnrollingMember DEF Enrols
        <4> QED
          BY <4>1 DEF Steady, At
      <3> QED
        BY <3>1, <3>2
    <2>7. EnabledIsConfirmed'
      BY <2>3, <2>4 DEF EnabledIsConfirmed
    <2> QED
      BY <2>5, <2>6, <2>7
  <1>5. CASE DisableFind(h)
    <2>1. /\ req'[h].pc \notin {"store", "enable", "codes", "delete"}
          /\ \A g \in Handlers \ {h} : req'[g] = req[g]
      BY <1>5, VerifyCodeType DEF DisableFind, After
    <2>2. UNCHANGED <<row, secrets>>
      BY <1>5 DEF DisableFind
    <2>3. Alone'
      BY <1>1, <1>2, <2>1, AloneKept
    <2>4. ASSUME NEW g \in Handlers PROVE Steady(g)'
      BY <1>1, <2>1, <2>2 DEF Orderly, Steady, At
    <2>5. EnabledIsConfirmed'
      BY <1>2, <2>2 DEF EnabledIsConfirmed
    <2> QED
      BY <2>3, <2>4, <2>5
  <1> QED
    BY <1>3, <1>4, <1>5

(* The step of the only enrolment request there is.                        *)
LEMMA OnlyOne ==
  ASSUME Base, Orderly, ~overlap, UNCHANGED overlap, NEW h \in Enrolling,
         \A g \in Handlers \ {h} : req'[g] = req[g],
         Steady(h)', EnabledIsConfirmed'
  PROVE  Orderly'
  <1>1. h \in Handlers /\ Alone
    BY DEF Enrolling, Orderly
  <1>2. Alone'
    BY <1>1, AloneKept
  <1>3. ASSUME NEW g \in Handlers PROVE Steady(g)'
    <2>1. CASE g # h
      <3>1. g \notin Enrolling /\ req'[g] = req[g]
        BY <1>1, <2>1 DEF Alone
      <3>2. ~Enrols(req[g])
        BY <3>1, EnrollingMember
      <3>3. req'[g].pc \notin {"store", "enable", "codes", "delete"}
        BY <3>1, <3>2 DEF Enrols
      <3> QED
        BY <3>3 DEF Steady, At
    <2> QED
      BY <2>1
  <1> QED
    BY <1>2, <1>3 DEF Orderly

LEMMA WriteOrderly ==
  ASSUME Base, Orderly, NEW h \in Handlers,
         \/ BeginStore(h) \/ ConfirmEnable(h) \/ ConfirmCodes(h)
         \/ DisableClear(h) \/ DisableDelete(h)
  PROVE  Orderly'
  <1> USE DEF Base
  <1>1. UNCHANGED <<secrets, overlap>>
    BY DEF BeginStore, ConfirmEnable, ConfirmCodes, DisableClear, DisableDelete
  <1> SUFFICES ASSUME ~overlap PROVE Orderly'
    BY <1>1 DEF Orderly
  <1>2. Steady(h) /\ EnabledIsConfirmed
    BY DEF Orderly
  <1>3. h \in Enrolling
    <2>1. req[h].pc \in {"store", "enable", "codes", "clear", "delete"}
      BY DEF BeginStore, ConfirmEnable, ConfirmCodes, DisableClear, DisableDelete, At
    <2>2. Enrols(req[h])
      BY <2>1 DEF Enrols
    <2> QED
      BY <2>2, EnrollingMember
  <1>4. CASE BeginStore(h)
    <2>1. ~row'.enabled
      BY <1>4 DEF BeginStore
    <2>2. Done(h)
      BY <1>4 DEF BeginStore
    <2>3. Steady(h)'
      BY <2>2, DoneType DEF Steady, At
    <2>4. EnabledIsConfirmed'
      BY <2>1 DEF EnabledIsConfirmed
    <2> QED
      BY <1>1, <1>3, <2>2, <2>3, <2>4, DoneType, OnlyOne
  <1>5. CASE ConfirmEnable(h)
    <2>1. row' = [row EXCEPT !.enabled = TRUE] /\ Goto(h, "codes")
      BY <1>5 DEF ConfirmEnable
    <2>2. row'.enabled /\ row'.secret = row.secret
      BY <2>1 DEF TypeOK, MfaRow
    <2>3. req'[h].pc = "codes" /\ \A g \in Handlers \ {h} : req'[g] = req[g]
      BY <2>1, GotoType DEF Pc
    <2>4. Steady(h)'
      BY <2>2, <2>3 DEF Steady, At
    <2>5. EnabledIsConfirmed'
      BY <1>1, <1>2, <1>5, <2>2 DEF ConfirmEnable, Steady, EnabledIsConfirmed
    <2> QED
      BY <1>1, <1>3, <2>3, <2>4, <2>5, OnlyOne
  <1>6. CASE ConfirmCodes(h) \/ DisableDelete(h)
    <2>1. Done(h) /\ UNCHANGED row
      BY <1>6 DEF ConfirmCodes, DisableDelete
    <2>2. Steady(h)'
      BY <2>1, DoneType DEF Steady, At
    <2>3. EnabledIsConfirmed'
      BY <1>1, <1>2, <2>1 DEF EnabledIsConfirmed
    <2> QED
      BY <1>1, <1>3, <2>1, <2>2, <2>3, DoneType, OnlyOne
  <1>7. CASE DisableClear(h)
    <2>1. row' = Off /\ Goto(h, "delete")
      BY <1>7 DEF DisableClear
    <2>2. ~row'.enabled
      BY <2>1 DEF Off
    <2>3. req'[h].pc = "delete" /\ \A g \in Handlers \ {h} : req'[g] = req[g]
      BY <2>1, GotoType DEF Pc
    <2>4. Steady(h)' /\ EnabledIsConfirmed'
      BY <2>2, <2>3 DEF Steady, At, EnabledIsConfirmed
    <2> QED
      BY <1>1, <1>3, <2>3, <2>4, OnlyOne
  <1> QED
    BY <1>4, <1>5, <1>6, <1>7

LEMMA NextOrderly == Base /\ Orderly /\ [Next]_vars => Orderly'
  <1> SUFFICES ASSUME Base, Orderly, [Next]_vars PROVE Orderly'
    OBVIOUS
  <1>1. ASSUME NEW h \in Handlers, Recover(h) PROVE Orderly'
    <2>1. /\ req'[h].pc \in {"idle", req[h].after}
          /\ \A g \in Handlers \ {h} : req'[g] = req[g]
      BY <1>1, RecoverBase
    <2>2. req[h].after \in {"clear", "idle"} /\ req[h].pc = "recover"
      BY <1>1 DEF Base, TypeOK, Request, After, Recover, At
    <2>3. Enrols(req'[h]) => Enrols(req[h])
      BY <2>1, <2>2 DEF Enrols
    <2>4. h \in Enrolling' => h \in Enrolling
      BY <2>3, EnrollingMember DEF Enrolling, At, Enrols
    <2>5. UNCHANGED <<row, secrets, overlap>>
      BY <1>1 DEF Recover
    <2> QED
      BY <2>1, <2>2, <2>4, <2>5, OrderlyMove
  <1>2. ASSUME NEW h \in Handlers, CompleteFind(h) PROVE Orderly'
    <2>1. /\ req'[h].pc = "idle" \/ (req'[h].pc = "recover" /\ req'[h].after = "idle")
          /\ \A g \in Handlers \ {h} : req'[g] = req[g]
      BY <1>2, VerifyCodeType DEF CompleteFind, After, Base
    <2>2. h \notin Enrolling'
      BY <2>1 DEF Enrolling, At
    <2>3. UNCHANGED <<row, secrets, overlap>>
      BY <1>2 DEF CompleteFind
    <2> QED
      BY <2>1, <2>2, <2>3, OrderlyMove
  <1>3. ASSUME NEW h \in Handlers, Abort(h) PROVE Orderly'
    <2>1. /\ req'[h].pc = "idle" /\ \A g \in Handlers \ {h} : req'[g] = req[g]
          /\ UNCHANGED <<row, secrets, overlap>>
      BY <1>3, DoneType DEF Abort, Base
    <2>2. h \notin Enrolling'
      BY <2>1 DEF Enrolling, At
    <2> QED
      BY <2>1, <2>2, OrderlyMove
  <1>4. CASE UNCHANGED <<row, secrets, req, overlap>>
    BY <1>4 DEF Orderly, Alone, Steady, Enrolling, EnabledIsConfirmed, At
  <1>5. CASE Login \/ Expire \/ UNCHANGED vars
    BY <1>4, <1>5 DEF Login, Expire, vars
  <1> QED
    BY <1>1, <1>2, <1>3, <1>5, StartOrderly, WriteOrderly DEF Next

LEMMA OrderlyAlways == Spec => []Orderly
  <1>1. Init => Orderly
    BY DEF Init, Orderly, Alone, Steady, Enrolling, EnabledIsConfirmed, At, Idle, Off
  <1> QED
    BY <1>1, NextOrderly, BaseAlways, PTL DEF Spec

(* While enrolment requests come one at a time the factor is on only with a *)
(* confirmed secret, wherever requests die (beginEnrollment,                *)
(* confirmEnrollment, disable).                                             *)
THEOREM ConfirmedEnrolment == Spec => []OrderlyEnrolment
  <1>1. Orderly => OrderlyEnrolment
    BY DEF Orderly, OrderlyEnrolment
  <1> QED
    BY <1>1, OrderlyAlways, PTL

(* The step property of StaysEnabled. *)
Stays ==
  row.enabled /\ ~row'.enabled /\ ~overlap => \E h \in Handlers : DisableClear(h)

(* While enrolment requests come one at a time the factor goes off only by *)
(* disable (beginEnrollment).                                              *)
THEOREM EnrolmentStays == Spec => StaysEnabled
  <1>1. ASSUME Base, Orderly, [Next]_vars PROVE Stays
    <2> SUFFICES ASSUME row.enabled, ~row'.enabled, ~overlap,
                        ~\E h \in Handlers : DisableClear(h)
                 PROVE  FALSE
      BY DEF Stays
    <2>1. ASSUME NEW h \in Handlers, BeginStore(h) PROVE FALSE
      BY <1>1, <2>1 DEF BeginStore, Orderly, Steady
    <2>2. ASSUME NEW h \in Handlers, ConfirmEnable(h) PROVE FALSE
      BY <1>1, <2>2 DEF ConfirmEnable, Base, TypeOK, MfaRow
    <2>3. CASE UNCHANGED row
      BY <2>3
    <2>4. ASSUME NEW h \in Handlers,
                 \/ BeginFind(h) \/ ConfirmFind(h) \/ ConfirmCodes(h) \/ DisableFind(h)
                 \/ DisableDelete(h) \/ CompleteFind(h) \/ Recover(h) \/ Abort(h)
          PROVE  FALSE
      BY <2>3, <2>4 DEF BeginFind, ConfirmFind, ConfirmCodes, DisableFind, DisableDelete,
                        CompleteFind, Recover, Abort
    <2>5. CASE Login \/ Expire \/ UNCHANGED vars
      BY <2>3, <2>5 DEF Login, Expire, vars
    <2> QED
      BY <1>1, <2>1, <2>2, <2>4, <2>5 DEF Next
  <1>2. Base /\ Orderly /\ [Next]_vars => [Stays]_vars
    BY <1>1
  <1> QED
    BY <1>2, BaseAlways, OrderlyAlways, PTL DEF Spec, StaysEnabled, Stays

-----------------------------------------------------------------------------
(* The batch of recovery codes.                                            *)

Rewriting == \E h \in Handlers : req[h].pc \in {"codes", "delete"}

RightCodes == Cardinality(Rows) = IF row.enabled THEN CodeCount ELSE 0

CodesOK == ~overlap /\ ~Rewriting => RightCodes

(* Who is about to write the codes, while nobody dies there, stays so until *)
(* it has: a step that ends a rewriting is ConfirmCodes or DisableDelete.   *)
LEMMA RewritingKept ==
  ASSUME {"codes", "delete"} \cap Fragile = {}, Base, [Next]_vars, Rewriting,
         ~\E h \in Handlers : ConfirmCodes(h) \/ DisableDelete(h)
  PROVE  Rewriting'
  <1> USE DEF Base
  <1>1. PICK g \in Handlers : req[g].pc \in {"codes", "delete"}
    BY DEF Rewriting
  <1>2. SUFFICES req'[g] = req[g]
    BY <1>1 DEF Rewriting
  <1>3. CASE UNCHANGED req
    BY <1>3
  <1>4. ASSUME NEW h \in Handlers, NEW r, Become(h, r), h # g
        PROVE  req'[g] = req[g]
    BY <1>4 DEF Become, TypeOK
  <1>5. ASSUME NEW h \in Handlers, BeginFind(h) \/ ConfirmFind(h) PROVE req'[g] = req[g]
    BY <1>1, <1>4, <1>5 DEF BeginFind, ConfirmFind, At
  <1>6. ASSUME NEW h \in Handlers, BeginStore(h) \/ Recover(h) PROVE req'[g] = req[g]
    BY <1>1, <1>4, <1>6 DEF BeginStore, Recover, Done, At
  <1>7. ASSUME NEW h \in Handlers, ConfirmEnable(h) \/ DisableClear(h) PROVE req'[g] = req[g]
    BY <1>1, <1>7, GotoType DEF ConfirmEnable, DisableClear, At, Pc
  <1>8. ASSUME NEW h \in Handlers, DisableFind(h) \/ CompleteFind(h) PROVE req'[g] = req[g]
    BY <1>1, <1>8, VerifyCodeType DEF DisableFind, CompleteFind, At, After
  <1>9. ASSUME NEW h \in Handlers, Abort(h) PROVE req'[g] = req[g]
    BY <1>1, <1>4, <1>9 DEF Abort, Done
  <1>10. CASE Login \/ Expire \/ UNCHANGED vars
    BY <1>3, <1>10 DEF Login, Expire, vars
  <1> QED
    BY <1>5, <1>6, <1>7, <1>8, <1>9, <1>10 DEF Next

LEMMA NextCodes ==
  ASSUME {"codes", "delete"} \cap Fragile = {}, Base, Orderly, CodesOK, [Next]_vars
  PROVE  CodesOK'
  <1> USE DEF Base
  <1> SUFFICES ASSUME ~overlap', ~Rewriting' PROVE RightCodes'
    BY DEF CodesOK
  <1>1. ~overlap
    BY DEF Next, BeginFind, BeginStore, ConfirmFind, ConfirmEnable, ConfirmCodes, DisableFind,
           DisableClear, DisableDelete, CompleteFind, Recover, Abort, Login, Expire, Starts, vars
  <1>2. \A h \in Handlers : Steady(h)
    BY <1>1 DEF Orderly
  <1>3. ASSUME NEW h \in Handlers, ConfirmCodes(h) PROVE RightCodes'
    <2>1. PICK batch \in SUBSET CodesIn("fresh") :
            Cardinality(batch) = CodeCount /\ codes' = Replace(batch)
      BY <1>3 DEF ConfirmCodes
    <2>2. Rows' = batch
      BY <2>1, ReplaceType
    <2>3. row.enabled /\ row' = row
      BY <1>2, <1>3 DEF ConfirmCodes, Steady
    <2> QED
      BY <2>1, <2>2, <2>3 DEF RightCodes
  <1>4. ASSUME NEW h \in Handlers, DisableDelete(h) PROVE RightCodes'
    <2>1. codes' = [c \in Codes |-> IF c \in Rows THEN "deleted" ELSE codes[c]]
      BY <1>4 DEF DisableDelete
    <2>2. Rows' = {}
      BY <2>1 DEF Rows, CodesIn
    <2>3. ~row.enabled /\ row' = row
      BY <1>2, <1>4 DEF DisableDelete, Steady
    <2> QED
      BY <2>2, <2>3, FS_EmptySet DEF RightCodes
  <1>5. CASE ~\E h \in Handlers : ConfirmCodes(h) \/ DisableDelete(h)
    <2>1. ~Rewriting /\ RightCodes
      BY <1>1, <1>5, RewritingKept DEF CodesOK
    <2>2. ASSUME NEW h \in Handlers, BeginStore(h) PROVE RightCodes'
      <3>1. ~row.enabled /\ ~row'.enabled /\ Rows' = Rows
        BY <1>2, <2>2 DEF BeginStore, Steady, Rows, CodesIn
      <3> QED
        BY <2>1, <3>1 DEF RightCodes
    <2>3. ASSUME NEW h \in Handlers, ConfirmEnable(h) \/ DisableClear(h) PROVE RightCodes'
      <3>1. req'[h].pc \in {"codes", "delete"}
        BY <2>3, GotoType DEF ConfirmEnable, DisableClear, Pc
      <3> QED
        BY <3>1 DEF Rewriting
    <2>4. CASE UNCHANGED row /\ Rows' = Rows
      BY <2>1, <2>4 DEF RightCodes
    <2>5. ASSUME NEW h \in Handlers, Recover(h) PROVE RightCodes'
      BY <2>4, <2>5, RecoverBase DEF Recover
    <2>6. ASSUME NEW h \in Handlers,
                 \/ BeginFind(h) \/ ConfirmFind(h) \/ DisableFind(h) \/ CompleteFind(h)
                 \/ Abort(h)
          PROVE  RightCodes'
      BY <2>4, <2>6 DEF BeginFind, ConfirmFind, DisableFind, CompleteFind, Abort, Rows, CodesIn
    <2>7. CASE Login \/ Expire \/ UNCHANGED vars
      BY <2>4, <2>7 DEF Login, Expire, vars, Rows, CodesIn
    <2> QED
      BY <1>5, <2>2, <2>3, <2>5, <2>6, <2>7 DEF Next
  <1> QED
    BY <1>3, <1>4, <1>5

(* While enrolment requests come one at a time and none dies with the codes *)
(* still to be written, the account has a full batch of recovery codes      *)
(* exactly when the factor is on (confirmEnrollment, disable).              *)
THEOREM CodesFollow ==
  ASSUME {"codes", "delete"} \cap Fragile = {}
  PROVE  Spec => []CodesFollowEnrolment
  <1>1. Init => CodesOK
    <2> SUFFICES ASSUME Init PROVE RightCodes
      BY DEF CodesOK
    <2>1. Rows = {} /\ ~row.enabled
      BY DEF Init, Rows, CodesIn, Off
    <2> QED
      BY <2>1, FS_EmptySet DEF RightCodes
  <1>2. Base /\ Orderly /\ CodesOK /\ [Next]_vars => CodesOK'
    BY NextCodes
  <1>3. CodesOK => CodesFollowEnrolment
    BY DEF CodesOK, CodesFollowEnrolment, Rewriting, RightCodes
  <1> QED
    BY <1>1, <1>2, <1>3, BaseAlways, OrderlyAlways, PTL DEF Spec

-----------------------------------------------------------------------------
(* Recovery codes that are of no more use.                                 *)

Gone(c) == codes[c] \in {"consumed", "deleted"}

(* A recovery code that was accepted, replaced or deleted stays so and is    *)
(* never accepted again, not even by a login or a disabling that was let in  *)
(* before (verifyCode, recoveryCodes.consume, replaceForUser, deleteForUser). *)
GoneCodesStay ==
  [][\A c \in Codes : Gone(c) => Gone(c)' /\ accepted'[c] = accepted[c]]_vars

LEMMA GoneKept ==
  ASSUME Base, [Next]_vars, NEW c \in Codes, Gone(c)
  PROVE  Gone(c)' /\ accepted'[c] = accepted[c]
  <1>1. codes[c] \in {"consumed", "deleted"} /\ c \notin CodesIn("fresh")
    BY DEF Gone, CodesIn
  <1>2. CASE UNCHANGED <<codes, accepted>>
    BY <1>1, <1>2 DEF Gone
  <1>3. ASSUME NEW h \in Handlers, ConfirmCodes(h)
        PROVE  Gone(c)' /\ accepted'[c] = accepted[c]
    <2>1. PICK batch \in SUBSET CodesIn("fresh") : codes' = Replace(batch)
      BY <1>3 DEF ConfirmCodes
    <2>2. codes'[c] \in {"consumed", "deleted"}
      BY <1>1, <2>1 DEF Replace
    <2> QED
      BY <1>3, <2>2 DEF ConfirmCodes, Gone
  <1>4. ASSUME NEW h \in Handlers, DisableDelete(h)
        PROVE  Gone(c)' /\ accepted'[c] = accepted[c]
    BY <1>1, <1>4 DEF DisableDelete, Gone
  <1>5. ASSUME NEW h \in Handlers, Recover(h)
        PROVE  Gone(c)' /\ accepted'[c] = accepted[c]
    <2>1. \/ UNCHANGED <<codes, accepted>>
          \/ /\ codes[req[h].code] = "live"
             /\ codes' = [codes EXCEPT ![req[h].code] = "consumed"]
             /\ accepted' = [accepted EXCEPT ![req[h].code] = @ + 1]
      BY <1>5 DEF Recover, MayConsume
    <2> QED
      BY <1>1, <1>2, <2>1 DEF Gone, Base, TypeOK
  <1>6. \/ UNCHANGED <<codes, accepted>>
        \/ \E h \in Handlers : ConfirmCodes(h) \/ DisableDelete(h) \/ Recover(h)
    BY DEF Next, vars, BeginFind, BeginStore, ConfirmFind, ConfirmEnable, DisableFind,
           DisableClear, CompleteFind, Abort, Login, Expire
  <1> QED
    BY <1>2, <1>3, <1>4, <1>5, <1>6

(* A recovery code accepted, replaced or deleted is never accepted again, in *)
(* every interleaving (verifyCode, recoveryCodes.consume, replaceForUser,   *)
(* deleteForUser).                                                          *)
THEOREM GoneCodes == Spec => GoneCodesStay
  <1>1. Base /\ [Next]_vars =>
          [\A c \in Codes : Gone(c) => Gone(c)' /\ accepted'[c] = accepted[c]]_vars
    BY GoneKept
  <1> QED
    BY <1>1, BaseAlways, PTL DEF Spec, GoneCodesStay
=============================================================================
