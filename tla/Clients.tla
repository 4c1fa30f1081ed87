------------------------------ MODULE Clients ------------------------------
(***************************************************************************)
(* Sessions as their clients meet them: browsers, whose cookie jar holds   *)
(* the refresh token, and native clients, which keep the token themselves  *)
(* and send it in the body.  A client may have several calls under way     *)
(* (tabs, retries after a time-out); their answers arrive in any order or  *)
(* get lost.                                                               *)
(*                                                                         *)
(* A worker belongs to a call from its sending until its answer has        *)
(* arrived.  Calls that the routes refuse by themselves (no token, the     *)
(* CSRF guard) change nothing on either side and are left out.  Who may    *)
(* act for which account is left open: any client, a user or an            *)
(* administrator, may send any call of Sessions.  The clock stands still:  *)
(* a cookie is set later than its row expires, for the same number of      *)
(* days, so it never ends before the token it holds.                       *)
(***************************************************************************)
EXTENDS Sessions

CONSTANTS
  Clients,
  Native   \* the clients that are not browsers

ASSUME ClientsAssumption ==
  /\ Native \subseteq Clients
  /\ None \notin Clients

VARIABLES
  jar,     \* the refresh token each client holds
  call,    \* the call each worker belongs to, with its answer once there is one
  owner,   \* history: the client each token was answered to
  orderly, \* history: the clients that never did what Careful rules out
  spoiled  \* history: the tokens that the service took from their clients

clientVars == <<jar, call, owner, orderly, spoiled>>

NoCall == [client |-> None, answer |-> "none", tok |-> None]

ClientsInit ==
  /\ Init
  /\ jar = [c \in Clients |-> None]
  /\ call = [h \in Handlers |-> NoCall]
  /\ owner = [t \in Tokens |-> None]
  /\ orderly = Clients
  /\ spoiled = {}

-----------------------------------------------------------------------------
Waiting(c) == \E h \in Handlers : call[h].client = c

(* One call at a time, no answer missed, no old copy of a token presented,  *)
(* no login over a session whose token is still good.                       *)
Careful(c) == c \in orderly /\ ~Waiting(c)

(* The client sends a call that worker h takes; the answer may be there at  *)
(* once.                                                                    *)
Send(c, h, answer, careful) ==
  /\ call[h] = NoCall
  /\ call' = [call EXCEPT ![h] = [client |-> c, answer |-> answer, tok |-> None]]
  /\ orderly' = IF Careful(c) /\ careful THEN orderly ELSE orderly \ {c}
  /\ UNCHANGED <<jar, owner, spoiled>>

(* Mutant of Presented: only the body is read, as a native client sends it. *)
PresentedInBody(c, route) == IF c \in Native /\ route = "refresh" THEN jar[c] ELSE None

(* readRefreshToken: the cookie, or else the token of the body, which only  *)
(* the refresh route hands over.                                            *)
Presented(c, route) == IF c \in Native /\ route = "logout" THEN None ELSE jar[c]

(* POST /login and POST /mfa/verify, which end in the same sendSession. *)
Login(c, h) ==
  /\ LoginFind(h) \/ CompleteFind(h)
  /\ Send(c, h, "waiting", jar[c] = None \/ Spent(rt[jar[c]]))

(* POST /refresh, with the token the client holds, or with a copy of one it *)
(* was given before: a backup, or whoever stole it.                         *)
Refresh(c, h) ==
  /\ RefreshStart(h)
  /\ \/ req'[h].tok = Presented(c, "refresh") /\ Send(c, h, "waiting", TRUE)
     \/ owner[req'[h].tok] = c /\ Send(c, h, "waiting", FALSE)

(* POST /logout: the cookie is cleared whatever there was to revoke. *)
Logout(c, h) ==
  LET t == Presented(c, "logout")
  IN  \/ /\ LogoutFind(h)
         /\ req'[h].tok = t
         /\ Send(c, h, "waiting", TRUE)
      \/ /\ Accept(h, "logout")
         /\ t = None \/ (t # None /\ rt[t].revoked)
         /\ Send(c, h, "clear", TRUE)
         /\ UNCHANGED vars

(* The other routes of Sessions: no token is presented or set. *)
Account(c, h) ==
  /\ Start(h)
  /\ req'[h].pc \notin {"issue", "challenge", "find", "logout"}
  /\ Send(c, h, "waiting", TRUE)

(* Mutant of Reply: the refresh route forgets the cookie. *)
ReplyUnrotated(r, t) ==
  IF t # None /\ r.tok = None THEN "set" ELSE IF r.pc = "logout" THEN "clear" ELSE "keep"

(* The answer to the request that ends with record r, and perhaps with the  *)
(* new token t: an error leaves the cookie as it is.                        *)
Reply(r, t) ==
  IF t # None THEN "set" ELSE IF r.pc = "logout" THEN "clear" ELSE "keep"

(* What the next statement of a request takes from the clients: every token *)
(* of the account, or the one presented when refresh finds it disabled.     *)
Spoils(h) ==
  IF At(h, "revokeAll") THEN OfUser(rt, req[h].user)
  ELSE IF At(h, "user") /\ At(h, "revokeFamily")' THEN {req[h].tok} ELSE {}

Serve(h) ==
  /\ Progress(h)
  /\ LET new == Stored(rt') \ Stored(rt)
         t == IF new = {} THEN None ELSE CHOOSE s \in new : TRUE
     IN  /\ call' = IF At(h, "idle")' THEN [call EXCEPT ![h].answer = Reply(req[h], t),
                                                        ![h].tok = t]
                                      ELSE call
         /\ owner' = [s \in Tokens |-> IF s \in new THEN call[h].client ELSE owner[s]]
  /\ spoiled' = spoiled \cup Spoils(h)
  /\ UNCHANGED <<jar, orderly>>

Fail(h) ==
  /\ call' = [call EXCEPT ![h].answer = "keep"]
  /\ UNCHANGED <<jar, owner, orderly>>

(* A statement is refused, and the error handler answers 500.  When it was   *)
(* the INSERT, refresh has already consumed the token that the client holds. *)
Refuse(h) ==
  /\ Abort(h)
  /\ spoiled' = IF At(h, "issue") THEN spoiled \cup ({req[h].tok} \ {None}) ELSE spoiled
  /\ Fail(h)

(* So is one of those that login and completeMfaLogin run after the INSERT: *)
(* nobody gets the new token.                                               *)
RefuseLate(h) ==
  /\ req[h].tok = None
  /\ Issue(h)
  /\ Fail(h) /\ UNCHANGED spoiled

Missed(h) ==
  /\ call' = [call EXCEPT ![h] = NoCall]
  /\ orderly' = orderly \ {call[h].client}
  /\ UNCHANGED <<jar, owner, spoiled>>

(* The process dies under the request, and the connection with it. *)
Die(h) == Abort(h) /\ Missed(h)

Answered(h) == call[h].answer \in {"set", "keep", "clear"}

(* The answer gets lost, or the client no longer waits for it. *)
Lose(h) == Answered(h) /\ Missed(h) /\ UNCHANGED vars

(* setRefreshCookie and clearRefreshCookie take effect when the answer arrives. *)
Receive(h) ==
  /\ Answered(h)
  /\ LET c == call[h].client
     IN  jar' = CASE call[h].answer = "set" -> [jar EXCEPT ![c] = call[h].tok]
                  [] call[h].answer = "clear" -> [jar EXCEPT ![c] = None]
                  [] call[h].answer = "keep" -> jar
  /\ call' = [call EXCEPT ![h] = NoCall]
  /\ UNCHANGED <<vars, owner, orderly, spoiled>>

ClientsNext ==
  \E h \in Handlers :
    \/ \E c \in Clients : Login(c, h) \/ Refresh(c, h) \/ Logout(c, h) \/ Account(c, h)
    \/ Serve(h) \/ Refuse(h) \/ RefuseLate(h) \/ Die(h) \/ Lose(h) \/ Receive(h)

ClientsSpec == ClientsInit /\ [][ClientsNext]_<<vars, clientVars>>

-----------------------------------------------------------------------------
(* A client that makes one call at a time and misses no answer is taken for *)
(* a thief only over a token that the service took from it: revoked with    *)
(* all of its account's, refused as a disabled account's, or consumed by a  *)
(* refresh that was answered 500 (refresh and its reuse detection, and the   *)
(* cookie that its route sets).                                             *)
ThiefOrSpoiled ==
  \A h \in Handlers :
    At(h, "revokeFamily") /\ call[h].client \in orderly => req[h].tok \in spoiled

UsableElsewhere(c) == {t \in Stored(rt) : owner[t] = c /\ Unspent(t) /\ t # jar[c]}

(* Such a client, between two calls, holds the only usable token it was      *)
(* ever given; so once it has logged out there is none.                      *)
HoldsAll(c) == Careful(c) => UsableElsewhere(c) = {}

(* HoldsAll for browsers (login, refresh, logout and their cookie). *)
BrowsersHoldAll == \A c \in Clients \ Native : HoldsAll(c)

(* HoldsAll for every client: POST /logout revokes the current refresh token. *)
LogoutRevokes == \A c \in Clients : HoldsAll(c)
=============================================================================
