--------------------------------- MODULE Mfa ---------------------------------
(***************************************************************************)
(* The second factor of one account (every query is restricted to one user *)
(* id, so accounts do not affect each other): enrolment, its confirmation, *)
(* disabling, and the two-step login, by concurrent requests.              *)
(*                                                                         *)
(* An action is the code from one await to the next.  A secret stands for  *)
(* the TOTP seed, its ciphertext, and the codes an authenticator computes  *)
(* from it, which match that secret and no other.  A recovery code stands  *)
(* for itself and for its hash.                                            *)
(***************************************************************************)
EXTENDS Naturals, FiniteSets

CONSTANTS
  Secrets, Codes, None,
  CodeCount,  \* RECOVERY_CODE_COUNT
  Handlers,   \* workers: each serves one HTTP request at a time
  Fragile     \* the points between two awaits where a request may die

Pc == {"idle", "store", "enable", "codes", "recover", "clear", "delete"}

ASSUME MfaAssumption ==
  /\ None \notin Secrets
  /\ CodeCount \in Nat \ {0}
  /\ Fragile \subseteq Pc \ {"idle"}

VARIABLES
  row,        \* mfa_enabled and mfa_secret of the account
  codes,      \* what became of each recovery code
  secrets,    \* history: secrets generated, and secrets whose code was confirmed
  challenged, \* does the client hold an unexpired MFA challenge token?
  req,        \* what each worker's current request holds between two awaits
  accepted,   \* history: how often each recovery code was accepted
  overlap     \* history: have two enrolment requests been under way at once?

vars == <<row, codes, secrets, challenged, req, accepted, overlap>>

MfaRow == [enabled: BOOLEAN, secret: Secrets \cup {None}]
Off == [enabled |-> FALSE, secret |-> None]

(* live and consumed codes are rows of mfa_recovery_codes *)
CodeState == {"fresh", "live", "consumed", "deleted"}

(* Where a request goes once its recovery code is accepted: disable clears  *)
(* the enrolment, completeMfaLogin has no more to do here.                  *)
After == {"clear", "idle"}

Request == [pc: Pc, secret: Secrets \cup {None}, code: Codes \cup {None}, after: After]

Idle == [pc |-> "idle", secret |-> None, code |-> None, after |-> "idle"]

TypeOK ==
  /\ row \in MfaRow
  /\ codes \in [Codes -> CodeState]
  /\ secrets \in [Secrets -> {"fresh", "shown", "confirmed"}]
  /\ challenged \in BOOLEAN
  /\ req \in [Handlers -> Request]
  /\ accepted \in [Codes -> Nat]
  /\ overlap \in BOOLEAN

Init ==
  /\ row = Off
  /\ codes = [c \in Codes |-> "fresh"]
  /\ secrets = [s \in Secrets |-> "fresh"]
  /\ challenged = FALSE
  /\ req = [h \in Handlers |-> Idle]
  /\ accepted = [c \in Codes |-> 0]
  /\ overlap = FALSE

-----------------------------------------------------------------------------
At(h, pc) == req[h].pc = pc
Become(h, r) == req' = [req EXCEPT ![h] = r]
Goto(h, pc) == req' = [req EXCEPT ![h].pc = pc]
Done(h) == Become(h, Idle)

(* Requests that go on to write the enrolment or its codes. *)
Enrolling == {h \in Handlers :
                \/ req[h].pc \in {"store", "enable", "codes", "clear", "delete"}
                \/ At(h, "recover") /\ req[h].after = "clear"}

Starts == overlap' = (overlap \/ Enrolling # {})

CodesIn(state) == {c \in Codes : codes[c] = state}

Rows == CodesIn("live") \cup CodesIn("consumed")

(* Bound: a confirmation starts only if it will find fresh codes. *)
RoomForCodes ==
  Cardinality(CodesIn("fresh"))
    >= CodeCount * (1 + Cardinality({h \in Handlers : req[h].pc \in {"enable", "codes"}}))

-----------------------------------------------------------------------------
(* Mutant of MayEnrol: enrolment starts over whatever the account has. *)
MayEnrolAlways == TRUE

MayEnrol == ~row.enabled

BeginFind(h) ==
  /\ At(h, "idle") /\ MayEnrol
  /\ \E s \in Secrets :
       /\ secrets[s] = "fresh"
       /\ secrets' = [secrets EXCEPT ![s] = "shown"]
       /\ Become(h, [Idle EXCEPT !.pc = "store", !.secret = s])
  /\ Starts
  /\ UNCHANGED <<row, codes, challenged, accepted>>

(* Mutant of BeginStore: two columns swapped. *)
BeginStoreSwapped(h) ==
  /\ At(h, "store")
  /\ row' = [enabled |-> req[h].secret, secret |-> FALSE]
  /\ Done(h)
  /\ UNCHANGED <<codes, secrets, challenged, accepted, overlap>>

BeginStore(h) ==
  /\ At(h, "store")
  /\ row' = [enabled |-> FALSE, secret |-> req[h].secret]
  /\ Done(h)
  /\ UNCHANGED <<codes, secrets, challenged, accepted, overlap>>

-----------------------------------------------------------------------------
(* Mutant of ConfirmFind: any code will do. *)
ConfirmUnchecked(h) ==
  /\ At(h, "idle") /\ row.secret # None /\ RoomForCodes
  /\ Become(h, [Idle EXCEPT !.pc = "enable"])
  /\ Starts
  /\ UNCHANGED <<row, codes, secrets, challenged, accepted>>

(* confirmEnrollment with a code of the secret that the row held then. *)
ConfirmFind(h) ==
  /\ At(h, "idle") /\ row.secret # None /\ RoomForCodes
  /\ secrets' = [secrets EXCEPT ![row.secret] = "confirmed"]
  /\ Become(h, [Idle EXCEPT !.pc = "enable"])
  /\ Starts
  /\ UNCHANGED <<row, codes, challenged, accepted>>

ConfirmEnable(h) ==
  /\ At(h, "enable")
  /\ row' = [row EXCEPT !.enabled = TRUE]
  /\ Goto(h, "codes")
  /\ UNCHANGED <<codes, secrets, challenged, accepted, overlap>>

(* Mutant of Replace: the codes of the last enrolment are kept. *)
ReplaceAdds(batch) ==
  [c \in Codes |-> IF c \in batch THEN "live" ELSE codes[c]]

(* replaceForUser: one transaction deletes every row and inserts the batch. *)
Replace(batch) ==
  [c \in Codes |-> IF c \in batch THEN "live"
                   ELSE IF c \in Rows THEN "deleted" ELSE codes[c]]

ConfirmCodes(h) ==
  /\ At(h, "codes")
  /\ \E batch \in SUBSET CodesIn("fresh") : /\ Cardinality(batch) = CodeCount
                                            /\ codes' = Replace(batch)
  /\ Done(h)
  /\ UNCHANGED <<row, secrets, challenged, accepted, overlap>>

-----------------------------------------------------------------------------
(* verifyCode on the row that the caller read: a code of the secret is good *)
(* at once, anything else is tried as a recovery code.                      *)
VerifyCode(h, after) ==
  /\ row.enabled /\ row.secret # None
  /\ \/ Become(h, [Idle EXCEPT !.pc = after])
     \/ \E c \in Codes \ CodesIn("fresh") :
          Become(h, [Idle EXCEPT !.pc = "recover", !.code = c, !.after = after])

(* Mutant of MayConsume: a code that was consumed is accepted again. *)
MayConsumeAgain(c) == c \in Rows

MayConsume(c) == codes[c] = "live"

(* consume: an UPDATE that reports whether it found an unconsumed row. *)
Recover(h) ==
  /\ At(h, "recover")
  /\ LET c == req[h].code
     IN  \/ /\ MayConsume(c)
            /\ codes' = [codes EXCEPT ![c] = "consumed"]
            /\ accepted' = [accepted EXCEPT ![c] = @ + 1]
            /\ Become(h, [Idle EXCEPT !.pc = req[h].after])
         \/ ~MayConsume(c) /\ Done(h) /\ UNCHANGED <<codes, accepted>>
  /\ UNCHANGED <<row, secrets, challenged, overlap>>

-----------------------------------------------------------------------------
DisableFind(h) ==
  /\ At(h, "idle")
  /\ VerifyCode(h, "clear")
  /\ Starts
  /\ UNCHANGED <<row, codes, secrets, challenged, accepted>>

DisableClear(h) ==
  /\ At(h, "clear")
  /\ row' = Off
  /\ Goto(h, "delete")
  /\ UNCHANGED <<codes, secrets, challenged, accepted, overlap>>

(* deleteForUser *)
DisableDelete(h) ==
  /\ At(h, "delete")
  /\ codes' = [c \in Codes |-> IF c \in Rows THEN "deleted" ELSE codes[c]]
  /\ Done(h)
  /\ UNCHANGED <<row, secrets, challenged, accepted, overlap>>

-----------------------------------------------------------------------------
(* login, the password matched and the second factor on: the client gets a  *)
(* signed challenge, good for any number of tries until it expires.         *)
Login ==
  /\ row.enabled
  /\ challenged' = TRUE
  /\ UNCHANGED <<row, codes, secrets, req, accepted, overlap>>

Expire ==
  /\ challenged' = FALSE
  /\ UNCHANGED <<row, codes, secrets, req, accepted, overlap>>

(* completeMfaLogin, by an account that is active; with a good code it goes *)
(* on to open a session, which is outside this module.                      *)
CompleteFind(h) ==
  /\ At(h, "idle") /\ challenged
  /\ VerifyCode(h, "idle")
  /\ UNCHANGED <<row, codes, secrets, challenged, accepted, overlap>>

Abort(h) ==
  /\ req[h].pc \in Fragile
  /\ Done(h)
  /\ UNCHANGED <<row, codes, secrets, challenged, accepted, overlap>>

Next ==
  \/ \E h \in Handlers :
       \/ BeginFind(h) \/ BeginStore(h)
       \/ ConfirmFind(h) \/ ConfirmEnable(h) \/ ConfirmCodes(h)
       \/ DisableFind(h) \/ DisableClear(h) \/ DisableDelete(h)
       \/ CompleteFind(h) \/ Recover(h)
       \/ Abort(h)
  \/ Login \/ Expire

Spec == Init /\ [][Next]_vars

-----------------------------------------------------------------------------
(* A recovery code is accepted once, however logins and disabling race      *)
(* (verifyCode, recoveryCodes.consume).                                     *)
RecoveryCodeOnce == \A c \in Codes : accepted[c] <= 1

EnabledIsConfirmed == row.enabled => row.secret # None /\ secrets[row.secret] = "confirmed"

(* While enrolment requests come one at a time, and wherever they die, the  *)
(* second factor is on only with a secret whose code was confirmed          *)
(* (beginEnrollment, confirmEnrollment, disable).                           *)
OrderlyEnrolment == ~overlap => EnabledIsConfirmed

(* While enrolment requests come one at a time, a second factor that is on  *)
(* goes off only when disable has verified a code (beginEnrollment).        *)
StaysEnabled ==
  [][row.enabled /\ ~row'.enabled /\ ~overlap => \E h \in Handlers : DisableClear(h)]_vars

(* While enrolment requests come one at a time, none dying with the codes   *)
(* still to be written, an account has the full batch of recovery codes     *)
(* exactly when its second factor is on (confirmEnrollment, disable).       *)
CodesFollowEnrolment ==
  ~overlap /\ ~(\E h \in Handlers : req[h].pc \in {"codes", "delete"}) =>
    Cardinality(Rows) = IF row.enabled THEN CodeCount ELSE 0
=============================================================================
