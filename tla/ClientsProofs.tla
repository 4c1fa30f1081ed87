--------------------------- MODULE ClientsProofs ---------------------------
(***************************************************************************)
(* Theorems about Clients, for any numbers of browsers, native clients,    *)
(* calls, users and tokens, every route of Sessions, answers in any order  *)
(* or lost, statements refused and requests that die anywhere.             *)
(*                                                                         *)
(* Clients takes only steps of Sessions, so every theorem of               *)
(* SessionsProofs holds of it, and its invariants Base and Lineage are     *)
(* used here as they stand.  What is added is whose token is whose.        *)
(***************************************************************************)
EXTENDS Clients, SessionsProofs

Answers == {"none", "waiting", "set", "keep", "clear"}

Call == [client: Clients \cup {None}, answer: Answers, tok: Tokens \cup {None}]

ClientsTypeOK ==
  /\ jar \in [Clients -> Tokens \cup {None}]
  /\ call \in [Handlers -> Call]
  /\ owner \in [Tokens -> Clients \cup {None}]
  /\ orderly \subseteq Clients

Presenting == {"find", "user", "consume", "issue", "revokeFamily", "logout"}

(* A worker runs a request for the call that waits for its answer; only an  *)
(* answer that sets the cookie carries a token.                             *)
Paired(h) ==
  /\ call[h].client = None <=> call[h].answer = "none"
  /\ req[h].pc = "idle" <=> call[h].answer # "waiting"
  /\ call[h].tok # None <=> call[h].answer = "set"
  /\ req[h].pc \notin Presenting => req[h].tok = None

Belongs(t, c) == t \in Stored(rt) /\ owner[t] = c

(* Sessions never cross from one client to another.                         *)
Owned ==
  /\ \A t \in Stored(rt) :
       /\ owner[rt[t].family] = owner[t]
       /\ origin[t].parent # None => owner[origin[t].parent] = owner[t]
  /\ \A t \in Tokens : t \notin Stored(rt) => owner[t] = None
  /\ \A c \in Clients : jar[c] # None => Belongs(jar[c], c)
  /\ \A h \in Handlers :
       /\ call[h].tok # None => Belongs(call[h].tok, call[h].client)
       /\ req[h].tok # None => Belongs(req[h].tok, call[h].client)

ClientsBase ==
  /\ ClientsTypeOK
  /\ \A h \in Handlers : Paired(h)
  /\ Owned

-----------------------------------------------------------------------------
(* What an orderly client holds.                                           *)

(* A token that its client may present: if it is spent, the service took it. *)
Good(t) == t # None /\ Spent(rt[t]) => t \in spoiled

(* The token the client holds once worker h's answer has arrived.           *)
Coming(c, h) ==
  CASE call[h].answer = "set" -> call[h].tok
    [] call[h].answer = "clear" -> None
    [] OTHER -> jar[c]

(* The request has consumed the token it was sent.                          *)
Redeemed(h) == req[h].pc = "issue" /\ req[h].tok # None

Usable(c) == {t \in Stored(rt) : owner[t] = c /\ ~Spent(rt[t])}

Held(c) == {jar[c]} \ {None}

(* The client's usable token, if any, while worker h serves its call.       *)
Due(c, h) ==
  IF call[h].answer = "set" THEN {call[h].tok}
  ELSE IF call[h].answer = "clear" \/ req[h].pc = "issue" THEN {}
  ELSE Held(c)

(* Those whose every usable token is known to them: a native client that    *)
(* may log out is answered without its token being revoked.                 *)
Keeps(c) == c \notin Native \/ "logout" \notin Flows

Fits(c, S) == Keeps(c) => Usable(c) \subseteq S

Served(c, h) ==
  /\ \A g \in Handlers : call[g].client = c => g = h
  /\ req[h].tok \in {None, jar[c]}
  /\ req[h].pc \in {"user", "consume"} => ~rt[req[h].tok].consumed
  /\ req[h].pc = "revokeFamily" => req[h].tok \in spoiled
  /\ Redeemed(h) => \A s \in Stored(rt) : origin[s].parent # req[h].tok
  /\ Redeemed(h) \/ Good(Coming(c, h))
  /\ Fits(c, Due(c, h))

Tidy(c) ==
  /\ ~Waiting(c) => Good(jar[c]) /\ Fits(c, Held(c))
  /\ \A h \in Handlers : call[h].client = c => Served(c, h)

(* No token of an orderly client has two successors: single use, which the  *)
(* table alone does not give (refresh).                                     *)
OrderlySingleUse ==
  \A s, t \in Stored(rt) :
    /\ owner[s] \in orderly
    /\ origin[s].parent = origin[t].parent
    /\ origin[s].parent # None
    => s = t

Tidiness ==
  /\ \A c \in orderly : Tidy(c)
  /\ OrderlySingleUse

-----------------------------------------------------------------------------
(* Clients takes only steps of Sessions.                                   *)

LEMMA ClientStep == [ClientsNext]_<<vars, clientVars>> => [Next]_vars
  <1> SUFFICES ASSUME [ClientsNext]_<<vars, clientVars>>, ~UNCHANGED vars
               PROVE  Next
    OBVIOUS
  <1>1. PICK h \in Handlers :
          \/ \E c \in Clients : Login(c, h) \/ Refresh(c, h) \/ Logout(c, h) \/ Account(c, h)
          \/ Serve(h) \/ Refuse(h) \/ RefuseLate(h) \/ Die(h) \/ Lose(h) \/ Receive(h)
    BY DEF ClientsNext
  <1>2. Start(h) \/ Progress(h) \/ Abort(h)
    BY <1>1 DEF Login, Refresh, Logout, Account, Serve, Refuse, RefuseLate, Die, Lose, Receive,
                Start, Progress, vars
  <1> QED
    BY <1>2 DEF Next

(* Whatever Sessions promises it promises in the presence of its clients    *)
(* (every route that ends in AuthService).                                  *)
THEOREM Composition == ClientsSpec => Spec
  <1>1. ClientsInit => Init
    BY DEF ClientsInit
  <1> QED
    BY <1>1, ClientStep, PTL DEF ClientsSpec, Spec

-----------------------------------------------------------------------------
(* What one step does to calls and owners.                                 *)

LEMMA SendType ==
  ASSUME ClientsTypeOK, NEW c \in Clients, NEW h \in Handlers,
         NEW a \in {"waiting", "clear"}, NEW careful, Send(c, h, a, careful)
  PROVE  /\ ClientsTypeOK'
         /\ call[h] = NoCall
         /\ call'[h] = [client |-> c, answer |-> a, tok |-> None]
         /\ \A g \in Handlers \ {h} : call'[g] = call[g]
         /\ UNCHANGED <<jar, owner, spoiled>>
         /\ orderly' \subseteq orderly
         /\ c \in orderly' => c \in orderly /\ ~Waiting(c) /\ careful
  BY DEF Send, ClientsTypeOK, Call, Answers, Careful

(* A request that inserts no row and is not over yet, or is.                *)
LEMMA ServeNoRow ==
  ASSUME ClientsTypeOK, NEW h \in Handlers, Serve(h), Stored(rt') = Stored(rt)
  PROVE  /\ ClientsTypeOK'
         /\ UNCHANGED <<jar, owner, orderly>>
         /\ \A g \in Handlers \ {h} : call'[g] = call[g]
         /\ call'[h].client = call[h].client
         /\ req'[h].pc # "idle" => call'[h] = call[h]
         /\ req'[h].pc = "idle"
              => /\ call'[h].answer = IF req[h].pc = "logout" THEN "clear" ELSE "keep"
                 /\ call'[h].tok = None
  <1>1. Stored(rt') \ Stored(rt) = {}
    OBVIOUS
  <1>2. call' = IF req'[h].pc = "idle"
                  THEN [call EXCEPT ![h].answer = Reply(req[h], None), ![h].tok = None]
                  ELSE call
    BY <1>1 DEF Serve, At
  <1>3. Reply(req[h], None) = IF req[h].pc = "logout" THEN "clear" ELSE "keep"
    BY DEF Reply
  <1>4. owner' = [s \in Tokens |-> owner[s]]
    BY <1>1 DEF Serve
  <1>5. UNCHANGED <<jar, owner, orderly>>
    BY <1>4 DEF Serve, ClientsTypeOK
  <1> QED
    BY <1>2, <1>3, <1>5 DEF ClientsTypeOK, Call, Answers

(* The request that inserts row t answers with it.                          *)
LEMMA ServeRow ==
  ASSUME ClientsTypeOK, NEW h \in Handlers, NEW t, Serve(h), Inserted(h, t),
         req'[h].pc = "idle"
  PROVE  /\ ClientsTypeOK'
         /\ UNCHANGED <<jar, orderly>>
         /\ \A g \in Handlers \ {h} : call'[g] = call[g]
         /\ call'[h].client = call[h].client
         /\ call'[h].answer = "set" /\ call'[h].tok = t
         /\ owner'[t] = call[h].client
         /\ \A s \in Tokens \ {t} : owner'[s] = owner[s]
  <1> DEFINE new == Stored(rt') \ Stored(rt)
             made == CHOOSE s \in new : TRUE
  <1>1. t \in Tokens /\ new = {t} /\ t # None
    BY NoneIsNoUser DEF Inserted
  <1>2. made = t
    BY <1>1
  <1>3. Reply(req[h], t) = "set"
    BY <1>1 DEF Reply
  <1>4. call' = [call EXCEPT ![h].answer = "set", ![h].tok = t]
    <2>1. call' = [call EXCEPT ![h].answer = Reply(req[h], made), ![h].tok = made]
      BY <1>1 DEF Serve, At
    <2> QED
      BY <1>2, <1>3, <2>1
  <1>5. owner' = [s \in Tokens |-> IF s \in new THEN call[h].client ELSE owner[s]]
    BY DEF Serve
  <1>6. UNCHANGED <<jar, orderly>>
    BY DEF Serve
  <1> HIDE DEF new
  <1> QED
    BY <1>1, <1>4, <1>5, <1>6 DEF ClientsTypeOK, Call, Answers

LEMMA FailType ==
  ASSUME ClientsTypeOK, NEW h \in Handlers, Fail(h)
  PROVE  /\ ClientsTypeOK'
         /\ call'[h].client = call[h].client
         /\ call'[h].answer = "keep" /\ call'[h].tok = call[h].tok
         /\ \A g \in Handlers \ {h} : call'[g] = call[g]
         /\ UNCHANGED <<jar, owner, orderly>>
  BY DEF Fail, ClientsTypeOK, Call, Answers

LEMMA MissedType ==
  ASSUME ClientsTypeOK, NEW h \in Handlers, Missed(h)
  PROVE  /\ ClientsTypeOK'
         /\ call'[h] = NoCall
         /\ \A g \in Handlers \ {h} : call'[g] = call[g]
         /\ UNCHANGED <<jar, owner, spoiled>>
         /\ orderly' = orderly \ {call[h].client}
  BY DEF Missed, ClientsTypeOK, Call, Answers, NoCall

-----------------------------------------------------------------------------
(* The request that a call becomes.                                        *)

Calls(c, h) == Login(c, h) \/ Refresh(c, h) \/ Logout(c, h) \/ Account(c, h)

(* The requests that present no token.                                      *)
LEMMA TokenlessStart ==
  ASSUME Base, NEW h \in Handlers,
         \/ LoginFind(h) \/ CompleteFind(h)
         \/ Start(h) /\ req'[h].pc \notin {"issue", "challenge", "find", "logout"}
  PROVE  /\ UNCHANGED <<rt, origin, ended>>
         /\ req[h].pc = "idle"
         /\ \A g \in Handlers \ {h} : req'[g] = req[g]
         /\ req'[h].pc # "idle" /\ req'[h].pc \notin Presenting \ {"issue"}
         /\ req'[h].tok = None
  <1> USE DEF Base, StoreTypeOK
  <1>1. CASE LoginFind(h)
    BY <1>1 DEF LoginFind, Accept, Become, Idle, Presenting
  <1>2. CASE CompleteFind(h)
    BY <1>2 DEF CompleteFind, Accept, Become, Idle, Presenting
  <1>3. CASE RefreshStart(h) \/ LogoutFind(h)
    <2>1. req'[h].pc \in {"find", "logout"}
      BY <1>3 DEF RefreshStart, LogoutFind, Become, Idle
    <2> QED
      BY <1>1, <1>2, <2>1
  <1>4. CASE ChangeFind(h)
    BY <1>4 DEF ChangeFind, Accept, Become, Idle, Presenting
  <1>5. CASE ResetFind(h)
    BY <1>5 DEF ResetFind, Accept, Become, Idle, Presenting
  <1>6. CASE VerifyFind(h)
    BY <1>6 DEF VerifyFind, Accept, Become, Idle, Presenting
  <1>7. CASE SetEnabledFind(h, "disable") \/ SetEnabledFind(h, "enable")
    BY <1>7 DEF SetEnabledFind, Accept, Become, Idle, Presenting
  <1> QED
    BY <1>1, <1>2, <1>3, <1>4, <1>5, <1>6, <1>7 DEF Start

LEMMA CallSent ==
  ASSUME Base, ClientsBase, NEW c \in Clients, NEW h \in Handlers, Calls(c, h)
  PROVE  /\ UNCHANGED <<rt, origin, ended>>
         /\ \A g \in Handlers \ {h} : req'[g] = req[g]
         /\ req[h].pc = "idle"
         /\ \/ /\ Send(c, h, "waiting", jar[c] = None \/ Spent(rt[jar[c]]))
               /\ req'[h].pc # "idle" /\ req'[h].pc \notin Presenting \ {"issue"}
               /\ req'[h].tok = None
            \/ /\ Send(c, h, "waiting", TRUE)
               /\ req'[h].pc # "idle" /\ req'[h].pc \notin Presenting
               /\ req'[h].tok = None
            \/ /\ Send(c, h, "waiting", TRUE)
               /\ req'[h].pc \in {"find", "logout"}
               /\ req'[h].tok = jar[c] /\ jar[c] \in Stored(rt)
            \/ /\ Send(c, h, "waiting", FALSE)
               /\ req'[h].pc = "find"
               /\ req'[h].tok \in Stored(rt) /\ owner[req'[h].tok] = c
            \/ /\ Send(c, h, "clear", TRUE)
               /\ "logout" \in Flows
               /\ UNCHANGED req
               /\ c \in Native \/ jar[c] = None \/ rt[jar[c]].revoked
  <1> USE DEF Base, StoreTypeOK
  <1>1. CASE Login(c, h)
    <2>1. /\ LoginFind(h) \/ CompleteFind(h)
          /\ Send(c, h, "waiting", jar[c] = None \/ Spent(rt[jar[c]]))
      BY <1>1 DEF Login
    <2> QED
      BY <2>1, TokenlessStart
  <1>2. CASE Account(c, h)
    <2>1. /\ Start(h) /\ Send(c, h, "waiting", TRUE)
          /\ req'[h].pc \notin {"issue", "challenge", "find", "logout"}
      BY <1>2 DEF Account
    <2> QED
      BY <2>1, TokenlessStart
  <1>3. CASE Refresh(c, h)
    <2>1. /\ RefreshStart(h)
          /\ \/ req'[h].tok = jar[c] /\ Send(c, h, "waiting", TRUE)
             \/ owner[req'[h].tok] = c /\ Send(c, h, "waiting", FALSE)
      BY <1>3 DEF Refresh, Presented
    <2>2. PICK t \in Stored(rt) :
            Become(h, [Idle EXCEPT !.pc = "find", !.tok = t, !.now = clock])
      BY <2>1 DEF RefreshStart
    <2>3. req'[h].pc = "find" /\ req'[h].tok = t
          /\ \A g \in Handlers \ {h} : req'[g] = req[g]
      BY <2>2 DEF Become, Idle
    <2> QED
      BY <2>1, <2>3 DEF RefreshStart, Accept
  <1>4. CASE Logout(c, h) /\ LogoutFind(h)
    <2>1. PICK t \in Stored(rt) : Become(h, [Idle EXCEPT !.pc = "logout", !.tok = t])
      BY <1>4 DEF LogoutFind
    <2>2. req'[h].pc = "logout" /\ req'[h].tok = t
          /\ \A g \in Handlers \ {h} : req'[g] = req[g]
      BY <2>1 DEF Become, Idle
    <2>3. req # req'
      BY <1>4, <2>2 DEF LogoutFind, Accept
    <2>4. Send(c, h, "waiting", TRUE) /\ req'[h].tok = Presented(c, "logout")
      BY <1>4, <2>3 DEF Logout, vars
    <2>5. t # None
      BY NoneIsNoUser DEF Stored
    <2>6. req'[h].tok = jar[c]
      BY <2>2, <2>4, <2>5 DEF Presented
    <2> QED
      BY <1>4, <2>2, <2>4, <2>6 DEF LogoutFind, Accept
  <1>5. CASE Logout(c, h) /\ ~LogoutFind(h)
    <2>1. /\ Accept(h, "logout") /\ Send(c, h, "clear", TRUE) /\ UNCHANGED vars
          /\ \/ Presented(c, "logout") = None
             \/ rt[Presented(c, "logout")].revoked
      BY <1>5 DEF Logout
    <2>2. c \in Native \/ jar[c] = None \/ rt[jar[c]].revoked
      BY <2>1 DEF Presented
    <2> QED
      BY <2>1, <2>2 DEF Accept, vars
  <1> QED
    BY <1>1, <1>2, <1>3, <1>4, <1>5 DEF Calls

-----------------------------------------------------------------------------
(* The statements of a request.                                            *)

LEMMA ServeWaiting ==
  ASSUME ClientsBase, NEW h \in Handlers, Progress(h)
  PROVE  /\ req[h].pc # "idle" /\ call[h].answer = "waiting"
         /\ call[h].client \in Clients /\ call[h].tok = None
  <1>1. /\ Paired(h)
        /\ call[h] \in Call
    BY DEF ClientsBase, ClientsTypeOK
  <1>2. req[h].pc # "idle"
    BY DEF Progress, At, Issue, SignChallenge, RefreshFind, RefreshUser, RefreshConsume,
           RefreshRevokeFamily, LogoutRevoke, SetPassword, ResetUpdate, RevokeAll,
           VerifyConsume, Activate, Disable, Enable
  <1> QED
    BY <1>1, <1>2 DEF Paired, Call

(* A statement of the routes that present no token.                         *)
Tokenless(h) ==
  \/ SignChallenge(h) \/ SetPassword(h) \/ ResetUpdate(h) \/ RevokeAll(h)
  \/ VerifyConsume(h) \/ Activate(h) \/ Disable(h) \/ Enable(h)

LEMMA TokenlessRequest ==
  ASSUME Base, ClientsBase, NEW h \in Handlers, Tokenless(h)
  PROVE  /\ \A g \in Handlers \ {h} : req'[g] = req[g]
         /\ req[h].pc \notin Presenting /\ req'[h].pc \notin Presenting
         /\ req'[h].tok = None /\ UNCHANGED origin
  <1> USE DEF Base
  <1>1. CASE SignChallenge(h) \/ RevokeAll(h) \/ Activate(h) \/ Enable(h)
    <2>1. Done(h) /\ UNCHANGED origin
      BY <1>1 DEF SignChallenge, RevokeAll, Activate, Enable
    <2>2. req[h].pc \notin Presenting
      BY <1>1 DEF SignChallenge, RevokeAll, Activate, Enable, At, Presenting
    <2> QED
      BY <2>1, <2>2, DoneType DEF Presenting
  <1>2. CASE SetPassword(h) \/ ResetUpdate(h) \/ VerifyConsume(h) \/ Disable(h)
    <2>1. /\ Goto(h, "revokeAll") \/ Goto(h, "activate")
          /\ UNCHANGED origin
      BY <1>2 DEF SetPassword, ResetUpdate, VerifyConsume, Disable
    <2>2. req[h].pc \notin Presenting /\ req[h].tok = None
      BY <1>2 DEF SetPassword, ResetUpdate, VerifyConsume, Disable, At, Presenting,
                  ClientsBase, Paired
    <2>3. "revokeAll" \in Pc \ Presenting /\ "activate" \in Pc \ Presenting
      BY DEF Pc, Presenting
    <2> QED
      BY <2>1, <2>2, <2>3, GotoType
  <1> QED
    BY <1>1, <1>2 DEF Tokenless

(* The record of a request after a statement that inserts no row.           *)
LEMMA ServeRequest ==
  ASSUME Base, ClientsBase, NEW h \in Handlers, Serve(h), ~Issue(h)
  PROVE  /\ \A g \in Handlers \ {h} : req'[g] = req[g]
         /\ \/ req'[h].pc \notin Presenting /\ req'[h].tok = None
            \/ /\ req'[h].tok = req[h].tok /\ req[h].tok # None
               /\ \/ /\ req[h].pc = "find"
                     /\ req'[h].pc = "user" /\ ~Spent(rt[req[h].tok])
                  \/ /\ req[h].pc = "find"
                     /\ req'[h].pc = "revokeFamily" /\ Spent(rt[req[h].tok])
                  \/ req[h].pc = "user" /\ req'[h].pc = "consume"
                  \/ /\ req[h].pc = "user"
                     /\ req'[h].pc = "revokeFamily" /\ req[h].tok \in spoiled'
                  \/ RefreshConsume(h) /\ req[h].pc = "consume" /\ req'[h].pc = "issue"
  <1> USE DEF Base, StoreTypeOK
  <1>1. CASE RefreshRevokeFamily(h) \/ LogoutRevoke(h)
    BY <1>1, DoneType DEF RefreshRevokeFamily, LogoutRevoke, Presenting
  <1>2. req[h].pc \in {"find", "user", "consume"} => req[h].tok # None
    BY NoneIsNoUser DEF RequestsOK, Grounded, Stored
  <1>3. CASE RefreshFind(h)
    <2> DEFINE t == req[h].tok
               verdict == Verdict(rt[t], req[h].now)
    <2>1. req[h].pc = "find"
      BY <1>3 DEF RefreshFind, At
    <2>2. \/ Done(h)
          \/ /\ verdict # "idle"
             /\ Become(h, [req[h] EXCEPT !.pc = verdict, !.user = rt[t].user,
                                          !.password = origin[t].password])
      BY <1>3 DEF RefreshFind
    <2>3. CASE Done(h)
      BY <2>1, <2>3, DoneType DEF Presenting
    <2>4. CASE ~Done(h)
      <3>1. req'[h].pc = verdict /\ req'[h].tok = t /\ verdict # "idle"
            /\ \A g \in Handlers \ {h} : req'[g] = req[g]
        BY <2>2, <2>4 DEF Become, Request
      <3>2. \/ verdict = "user" /\ ~Spent(rt[t])
            \/ verdict = "revokeFamily" /\ Spent(rt[t])
        BY <3>1 DEF Verdict
      <3> QED
        BY <1>2, <2>1, <3>1, <3>2
    <2> QED
      BY <2>3, <2>4
  <1>4. CASE RefreshUser(h)
    <2>1. req[h].pc = "user"
      BY <1>4 DEF RefreshUser, At
    <2>2. PICK pc \in {"revokeFamily", "consume"} : Goto(h, pc)
      BY <1>4 DEF RefreshUser
    <2>3. /\ req'[h].pc = pc /\ req'[h].tok = req[h].tok
          /\ \A g \in Handlers \ {h} : req'[g] = req[g]
      BY <2>2, GotoType DEF Pc
    <2>4. pc = "revokeFamily" => req[h].tok \in spoiled'
      BY <2>1, <2>3 DEF Serve, Spoils, At
    <2> QED
      BY <1>2, <2>1, <2>3, <2>4
  <1>5. CASE RefreshConsume(h)
    <2>1. req[h].pc = "consume" /\ Goto(h, "issue") /\ "issue" \in Pc
      BY <1>5 DEF RefreshConsume, At, Pc
    <2> QED
      BY <1>2, <1>5, <2>1, GotoType
  <1>6. CASE Tokenless(h)
    BY <1>6, TokenlessRequest
  <1> QED
    BY <1>1, <1>3, <1>4, <1>5, <1>6 DEF Serve, Progress, Tokenless

(* What a statement does to the table when it inserts no row: only refresh  *)
(* consumes, and the token it was sent; what it marks spent is a token of   *)
(* its own client, or one that the service takes from whoever holds it.     *)
LEMMA ServeMarks ==
  ASSUME Base, ClientsBase, NEW h \in Handlers, Serve(h), ~Issue(h)
  PROVE  /\ UNCHANGED origin /\ Stored(rt') = Stored(rt)
         /\ spoiled \subseteq spoiled'
         /\ \A s \in Tokens : rt'[s].family = rt[s].family
         /\ \A s \in Stored(rt) :
              /\ Spent(rt[s]) => Spent(rt'[s])
              /\ rt'[s].consumed # rt[s].consumed => RefreshConsume(h) /\ s = req[h].tok
              /\ \/ Spent(rt'[s]) => Spent(rt[s]) \/ s \in spoiled'
                 \/ /\ owner[s] = call[h].client
                    /\ req[h].pc \in {"consume", "revokeFamily", "logout"}
  <1> DEFINE t == req[h].tok
             f == rt[t].family
  <1>1. rt \in [Tokens -> Row]
    BY DEF Base, StoreTypeOK
  <1>2. Progress(h) /\ spoiled' = spoiled \cup Spoils(h)
    BY DEF Serve
  <1>3. CASE UNCHANGED <<rt, origin>>
    BY <1>2, <1>3
  <1>4. ASSUME NEW Picked, rt' = RevokeWhere(rt, Picked), UNCHANGED origin,
               \A s \in Stored(rt) : s \in Picked =>
                 \/ s \in spoiled'
                 \/ /\ owner[s] = call[h].client
                    /\ req[h].pc \in {"consume", "revokeFamily", "logout"}
        PROVE  /\ UNCHANGED origin /\ Stored(rt') = Stored(rt)
               /\ \A s \in Tokens : rt'[s].family = rt[s].family
               /\ \A s \in Stored(rt) :
                    /\ Spent(rt[s]) => Spent(rt'[s])
                    /\ rt'[s].consumed = rt[s].consumed
                    /\ \/ Spent(rt'[s]) => Spent(rt[s]) \/ s \in spoiled'
                       \/ /\ owner[s] = call[h].client
                          /\ req[h].pc \in {"consume", "revokeFamily", "logout"}
    <2>1. \A s \in Tokens : s \notin Picked => rt'[s] = rt[s]
      BY <1>4 DEF RevokeWhere
    <2> QED
      BY <1>1, <1>4, <2>1, RevokeWhereType DEF Stored, Spent
  <1>5. CASE RevokeAll(h)
    <2>1. /\ rt' = RevokeWhere(rt, OfUser(rt, req[h].user)) /\ UNCHANGED origin
          /\ OfUser(rt, req[h].user) \subseteq spoiled'
      BY <1>2, <1>5 DEF RevokeAll, RevokeAllForUser, Spoils
    <2> QED
      BY <1>2, <1>4, <2>1
  <1>6. CASE RefreshConsume(h) \/ RefreshRevokeFamily(h) \/ LogoutRevoke(h)
    <2>1. req[h].pc \in {"consume", "revokeFamily", "logout"}
      BY <1>6 DEF RefreshConsume, RefreshRevokeFamily, LogoutRevoke, At
    <2>2. t \in Stored(rt) /\ t \in Tokens /\ t # None
      BY <2>1, NoneIsNoUser DEF Base, RequestsOK, Grounded, Stored
    <2>3. owner[t] = call[h].client /\ owner[f] = owner[t]
      BY <2>2 DEF ClientsBase, Owned, Belongs
    <2>4. CASE RefreshConsume(h)
      <3>1. rt' = MarkConsumed(rt, t) /\ UNCHANGED origin
        BY <2>4 DEF RefreshConsume
      <3>2. \A s \in Tokens \ {t} : rt'[s] = rt[s]
        BY <1>1, <2>2, <3>1 DEF MarkConsumed
      <3>3. /\ Stored(rt') = Stored(rt)
            /\ \A s \in Tokens : rt'[s].family = rt[s].family
            /\ rt'[t].consumed
        BY <1>1, <2>2, <3>1, MarkConsumedType
      <3> QED
        BY <1>2, <2>1, <2>3, <2>4, <3>1, <3>2, <3>3 DEF Stored, Spent
    <2>5. CASE RefreshRevokeFamily(h)
      <3>1. rt' = RevokeWhere(rt, OfFamily(rt, f)) /\ UNCHANGED origin
        BY <2>5 DEF RefreshRevokeFamily, RevokeFamily
      <3>2. \A s \in Stored(rt) : s \in OfFamily(rt, f) => owner[s] = call[h].client
        BY <2>3 DEF OfFamily, ClientsBase, Owned
      <3> QED
        BY <1>2, <1>4, <2>1, <3>1, <3>2
    <2>6. CASE LogoutRevoke(h)
      <3>1. rt' = RevokeWhere(rt, {t}) /\ UNCHANGED origin
        BY <1>1, <2>2, <2>6, RevokeType DEF LogoutRevoke
      <3> QED
        BY <1>2, <1>4, <2>1, <2>3, <3>1
    <2> QED
      BY <1>6, <2>4, <2>5, <2>6
  <1>7. CASE SignChallenge(h) \/ RefreshFind(h) \/ RefreshUser(h) \/ SetPassword(h)
    BY <1>3, <1>7 DEF SignChallenge, RefreshFind, RefreshUser, SetPassword
  <1>8. CASE ResetUpdate(h) \/ VerifyConsume(h) \/ Activate(h) \/ Disable(h) \/ Enable(h)
    BY <1>3, <1>8 DEF ResetUpdate, VerifyConsume, Activate, Disable, Enable
  <1> QED
    BY <1>2, <1>5, <1>6, <1>7, <1>8 DEF Progress

-----------------------------------------------------------------------------
(* Whose token is whose.                                                   *)

(* A step that inserts no row and changes no owner.                         *)
LEMMA OwnedKept ==
  ASSUME ClientsBase, NEW h \in Handlers, Stored(rt') = Stored(rt),
         \A s \in Tokens : rt'[s].family = rt[s].family,
         UNCHANGED <<origin, owner>>, ClientsTypeOK', Paired(h)',
         \A c \in Clients : jar'[c] # None => Belongs(jar'[c], c),
         \A g \in Handlers \ {h} : call'[g] = call[g] /\ req'[g] = req[g],
         call'[h].tok # None => Belongs(call'[h].tok, call'[h].client),
         req'[h].tok # None => Belongs(req'[h].tok, call'[h].client)
  PROVE  ClientsBase'
  <1>1. ASSUME NEW t \in Stored(rt')
        PROVE  /\ owner'[rt'[t].family] = owner'[t]
               /\ origin'[t].parent # None => owner'[origin'[t].parent] = owner'[t]
    BY DEF ClientsBase, Owned, Stored
  <1>2. ASSUME NEW g \in Handlers
        PROVE  /\ Paired(g)'
               /\ (call[g].tok # None => Belongs(call[g].tok, call[g].client))'
               /\ (req[g].tok # None => Belongs(req[g].tok, call[g].client))'
    <2>1. CASE g = h
      BY <2>1 DEF Belongs
    <2>2. CASE g # h
      BY <2>2 DEF ClientsBase, Paired, Owned, Belongs
    <2> QED
      BY <2>1, <2>2
  <1>3. \A c \in Clients : (jar[c] # None => Belongs(jar[c], c))'
    BY DEF Belongs
  <1>4. \A t \in Tokens : t \notin Stored(rt') => owner'[t] = None
    BY DEF ClientsBase, Owned
  <1> QED
    BY <1>1, <1>2, <1>3, <1>4 DEF ClientsBase, Owned

LEMMA ServeKeepsBase ==
  ASSUME Base, ClientsBase, NEW h \in Handlers, Serve(h), ~Issue(h)
  PROVE  ClientsBase'
  <1>1. /\ UNCHANGED origin /\ Stored(rt') = Stored(rt)
        /\ \A s \in Tokens : rt'[s].family = rt[s].family
    BY ServeMarks
  <1>2. /\ ClientsTypeOK'
        /\ UNCHANGED <<jar, owner, orderly>>
        /\ \A g \in Handlers \ {h} : call'[g] = call[g]
        /\ call'[h].client = call[h].client
        /\ req'[h].pc # "idle" => call'[h] = call[h]
        /\ req'[h].pc = "idle" => /\ call'[h].answer \in {"clear", "keep"}
                                  /\ call'[h].tok = None
    BY <1>1, ServeNoRow DEF ClientsBase
  <1>3. /\ \A g \in Handlers \ {h} : req'[g] = req[g]
        /\ req'[h].tok # None => req'[h].tok = req[h].tok
        /\ req'[h].pc \notin Presenting => req'[h].tok = None
    BY ServeRequest DEF Presenting
  <1>4. call[h].answer = "waiting" /\ call[h].client \in Clients /\ call[h].tok = None
    BY ServeWaiting DEF Serve
  <1>5. Paired(h)'
    BY <1>2, <1>3, <1>4, ClientsAssumption DEF Paired
  <1>6. call'[h].tok = None
    BY <1>2, <1>4
  <1>7. req'[h].tok # None => Belongs(req'[h].tok, call'[h].client)
    BY <1>2, <1>3 DEF ClientsBase, Owned
  <1> QED
    BY <1>1, <1>2, <1>3, <1>5, <1>6, <1>7, OwnedKept DEF ClientsBase, Owned

(* The row that a request inserts, and whose it is: its client's, or        *)
(* nobody's when a login is answered 500 all the same.                      *)
Granted(h, t) ==
  /\ Inserted(h, t)
  /\ req[h].pc = "issue" /\ req'[h].pc = "idle" /\ req'[h].tok = None
  /\ \A g \in Handlers \ {h} : req'[g] = req[g] /\ call'[g] = call[g]
  /\ UNCHANGED <<jar, orderly>> /\ spoiled' = spoiled
  /\ call[h].answer = "waiting" /\ call[h].client \in Clients
  /\ call'[h].client = call[h].client
  /\ \A s \in Tokens \ {t} : owner'[s] = owner[s]
  /\ \/ /\ call'[h].answer = "set" /\ call'[h].tok = t
        /\ owner'[t] = call[h].client
     \/ /\ call'[h].answer = "keep" /\ call'[h].tok = None
        /\ owner'[t] = None /\ req[h].tok = None

LEMMA IssueGrants ==
  ASSUME Base, ClientsBase, NEW h \in Handlers, (Serve(h) /\ Issue(h)) \/ RefuseLate(h)
  PROVE  /\ \E t : Granted(h, t)
         /\ ClientsTypeOK'
  <1>1. Issue(h)
    BY DEF RefuseLate
  <1>2. PICK t : Inserted(h, t)
    BY <1>1, IssueRow
  <1>3. Done(h) /\ req[h].pc = "issue"
    BY <1>1, IssueRow
  <1>4. /\ req'[h].pc = "idle" /\ req'[h].tok = None
        /\ \A g \in Handlers \ {h} : req'[g] = req[g]
    BY <1>3, DoneType DEF Base
  <1>5. /\ call[h].answer = "waiting" /\ call[h].client \in Clients
        /\ call[h].tok = None
    BY <1>1, ServeWaiting DEF Progress
  <1>6. CASE Serve(h)
    <2>1. spoiled' = spoiled
      BY <1>3, <1>6 DEF Serve, Spoils, At
    <2>2. /\ ClientsTypeOK'
          /\ UNCHANGED <<jar, orderly>>
          /\ \A g \in Handlers \ {h} : call'[g] = call[g]
          /\ call'[h].client = call[h].client
          /\ call'[h].answer = "set" /\ call'[h].tok = t
          /\ owner'[t] = call[h].client
          /\ \A s \in Tokens \ {t} : owner'[s] = owner[s]
      BY <1>2, <1>4, <1>6, ServeRow DEF ClientsBase
    <2> QED
      BY <1>2, <1>3, <1>4, <1>5, <2>1, <2>2 DEF Granted
  <1>7. CASE RefuseLate(h)
    <2>1. req[h].tok = None /\ Fail(h) /\ UNCHANGED spoiled
      BY <1>7 DEF RefuseLate
    <2>2. /\ ClientsTypeOK'
          /\ call'[h].client = call[h].client
          /\ call'[h].answer = "keep" /\ call'[h].tok = call[h].tok
          /\ \A g \in Handlers \ {h} : call'[g] = call[g]
          /\ UNCHANGED <<jar, owner, orderly>>
      BY <2>1, FailType DEF ClientsBase
    <2>3. owner'[t] = None
      BY <1>2, <2>2 DEF Inserted, ClientsBase, Owned
    <2> QED
      BY <1>2, <1>3, <1>4, <1>5, <2>1, <2>2, <2>3 DEF Granted
  <1> QED
    BY <1>6, <1>7

LEMMA IssueKeepsBase ==
  ASSUME Base, Lineage, ClientsBase, NEW h \in Handlers,
         (Serve(h) /\ Issue(h)) \/ RefuseLate(h)
  PROVE  ClientsBase'
  <1> USE DEF Base, StoreTypeOK
  <1> DEFINE p == req[h].tok
             c == call[h].client
  <1>1. PICK t : Granted(h, t)
    BY IssueGrants
  <1>2. ClientsTypeOK'
    BY IssueGrants
  <1>3. /\ t \in Tokens /\ t \notin Stored(rt) /\ t # None /\ c # None
        /\ Stored(rt') = Stored(rt) \cup {t}
        /\ \A s \in Stored(rt) : /\ rt'[s] = rt[s] /\ origin'[s] = origin[s]
                                 /\ owner'[s] = owner[s]
        /\ origin'[t].parent = p
        /\ rt'[t].family = IF p = None THEN t ELSE rt[p].family
    BY <1>1, NoneIsNoUser, ClientsAssumption DEF Granted, Inserted, FamilyFor, Stored
  <1>4. /\ req'[h].pc = "idle" /\ req'[h].tok = None /\ call'[h].client = c
        /\ \A g \in Handlers \ {h} : req'[g] = req[g] /\ call'[g] = call[g]
        /\ UNCHANGED jar
        /\ \A s \in Tokens \ {t} : owner'[s] = owner[s]
    BY <1>1 DEF Granted
  <1>5. p # None => p \in Stored(rt) /\ owner[p] = c /\ owner'[t] = c
    BY <1>1 DEF ClientsBase, Owned, Belongs, Granted
  <1>6. ASSUME NEW s, NEW d, Belongs(s, d) PROVE Belongs(s, d)'
    BY <1>3, <1>6 DEF Belongs
  <1>7. ASSUME NEW g \in Handlers
        PROVE  /\ Paired(g)'
               /\ (call[g].tok # None => Belongs(call[g].tok, call[g].client))'
               /\ (req[g].tok # None => Belongs(req[g].tok, call[g].client))'
    <2>1. CASE g = h
      BY <1>1, <1>3, <2>1 DEF Granted, Paired, Belongs, Presenting
    <2>2. CASE g # h
      <3>1. Paired(g)'
        BY <1>4, <2>2 DEF ClientsBase, Paired
      <3> QED
        BY <1>4, <1>6, <2>2, <3>1 DEF ClientsBase, Owned
    <2> QED
      BY <2>1, <2>2
  <1>8. ASSUME NEW s \in Stored(rt')
        PROVE  /\ owner'[rt'[s].family] = owner'[s]
               /\ origin'[s].parent # None => owner'[origin'[s].parent] = owner'[s]
    <2>1. CASE s = t
      <3>1. p # None => rt[p].family \in Stored(rt) /\ owner[rt[p].family] = c
        BY <1>5 DEF RowsOK, ClientsBase, Owned
      <3> QED
        BY <1>3, <1>5, <2>1, <3>1
    <2>2. CASE s # t
      <3>1. s \in Stored(rt) /\ rt[s].family \in Stored(rt)
        BY <1>3, <2>2 DEF RowsOK
      <3>2. origin[s].parent # None => origin[s].parent \in Stored(rt)
        BY <3>1 DEF Lineage, LineageOK, Descended
      <3> QED
        BY <1>3, <3>1, <3>2 DEF ClientsBase, Owned
    <2> QED
      BY <2>1, <2>2
  <1>9. ASSUME NEW d \in Clients PROVE (jar[d] # None => Belongs(jar[d], d))'
    BY <1>4, <1>6 DEF ClientsBase, Owned
  <1>10. \A s \in Tokens : s \notin Stored(rt') => owner'[s] = None
    BY <1>3, <1>4 DEF ClientsBase, Owned
  <1> QED
    BY <1>2, <1>7, <1>8, <1>9, <1>10 DEF ClientsBase, Owned

LEMMA SendKeepsBase ==
  ASSUME Base, ClientsBase, NEW c \in Clients, NEW h \in Handlers, Calls(c, h)
  PROVE  ClientsBase'
  <1>1. PICK a \in {"waiting", "clear"}, careful \in BOOLEAN :
          /\ Send(c, h, a, careful)
          /\ a = "waiting" => /\ req'[h].pc # "idle"
                              /\ req'[h].pc \notin Presenting => req'[h].tok = None
                              /\ req'[h].tok # None => Belongs(req'[h].tok, c)
          /\ a = "clear" => UNCHANGED req
    <2>1. jar[c] # None => Belongs(jar[c], c)
      BY DEF ClientsBase, Owned
    <2>2. CASE /\ Send(c, h, "waiting", jar[c] = None \/ Spent(rt[jar[c]]))
               /\ req'[h].pc # "idle" /\ req'[h].tok = None
      <3> DEFINE careful == jar[c] = None \/ Spent(rt[jar[c]])
      <3>1. careful \in BOOLEAN
        OBVIOUS
      <3> HIDE DEF careful
      <3> QED
        BY <2>2, <3>1 DEF careful
    <2>3. CASE Send(c, h, "waiting", TRUE) /\ req'[h].pc # "idle" /\ req'[h].tok = None
      BY <2>3
    <2>4. CASE /\ Send(c, h, "waiting", TRUE) /\ req'[h].pc \in {"find", "logout"}
               /\ req'[h].tok = jar[c]
      BY <2>1, <2>4 DEF Presenting
    <2>5. CASE /\ Send(c, h, "waiting", FALSE) /\ req'[h].pc = "find"
               /\ req'[h].tok \in Stored(rt) /\ owner[req'[h].tok] = c
      BY <2>5 DEF Presenting, Belongs
    <2>6. CASE Send(c, h, "clear", TRUE) /\ UNCHANGED req
      BY <2>6
    <2> QED
      BY <2>2, <2>3, <2>4, <2>5, <2>6, CallSent
  <1>2. /\ UNCHANGED <<rt, origin>> /\ req[h].pc = "idle"
        /\ \A g \in Handlers \ {h} : req'[g] = req[g]
    BY CallSent
  <1>3. /\ ClientsTypeOK'
        /\ call'[h].client = c /\ call'[h].answer = a /\ call'[h].tok = None
        /\ \A g \in Handlers \ {h} : call'[g] = call[g]
        /\ UNCHANGED <<jar, owner>>
    <2>1. ClientsTypeOK /\ Send(c, h, a, careful)
      BY <1>1 DEF ClientsBase
    <2>2. /\ ClientsTypeOK'
          /\ call'[h] = [client |-> c, answer |-> a, tok |-> None]
          /\ \A g \in Handlers \ {h} : call'[g] = call[g]
          /\ UNCHANGED <<jar, owner>>
      BY <2>1, SendType
    <2> QED
      BY <2>2
  <1>4. c # None
    BY ClientsAssumption
  <1>5. req[h].tok = None
    BY <1>2 DEF ClientsBase, Paired, Presenting
  <1>6. Paired(h)'
    BY <1>1, <1>2, <1>3, <1>4, <1>5 DEF Paired
  <1>7. req'[h].tok # None => Belongs(req'[h].tok, c)
    BY <1>1, <1>5
  <1>8. \A d \in Clients : jar'[d] # None => Belongs(jar'[d], d)
    BY <1>3 DEF ClientsBase, Owned
  <1> QED
    BY <1>2, <1>3, <1>6, <1>7, <1>8, OwnedKept

(* The request that ends with a statement refused, with the process, or     *)
(* with its answer lost on the way.                                         *)
LEMMA EndedRequest ==
  ASSUME Base, ClientsBase, NEW h \in Handlers, Refuse(h) \/ Die(h) \/ Lose(h)
  PROVE  /\ UNCHANGED <<rt, origin, ended, jar, owner>>
         /\ req'[h].pc = "idle" /\ req'[h].tok = None
         /\ \A g \in Handlers \ {h} : req'[g] = req[g] /\ call'[g] = call[g]
         /\ ClientsTypeOK'
         /\ call'[h].tok = None
         /\ \/ /\ Refuse(h) /\ req[h].pc # "idle" /\ call[h].answer = "waiting"
               /\ call'[h].client = call[h].client /\ call'[h].answer = "keep"
               /\ orderly' = orderly
               /\ spoiled \subseteq spoiled'
               /\ Redeemed(h) => req[h].tok \in spoiled'
            \/ /\ call'[h] = NoCall /\ UNCHANGED spoiled
               /\ orderly' = orderly \ {call[h].client}
  <1>1. CASE Refuse(h)
    <2>1. Abort(h) /\ Fail(h)
      BY <1>1 DEF Refuse
    <2>2. req[h].pc # "idle" /\ Done(h) /\ UNCHANGED <<rt, origin, ended>>
      BY <2>1, FragileAssumption DEF Abort
    <2>3. /\ req'[h].pc = "idle" /\ req'[h].tok = None
          /\ \A g \in Handlers \ {h} : req'[g] = req[g]
      BY <2>2, DoneType DEF Base
    <2>4. call[h].answer = "waiting" /\ call[h].tok = None
      BY <2>2 DEF ClientsBase, Paired
    <2>5. /\ spoiled \subseteq spoiled'
          /\ Redeemed(h) => req[h].tok \in spoiled'
      BY <1>1 DEF Refuse, Redeemed, At
    <2> QED
      BY <1>1, <2>1, <2>2, <2>3, <2>4, <2>5, FailType DEF ClientsBase
  <1>2. CASE Die(h)
    <2>1. Done(h) /\ UNCHANGED <<rt, origin, ended>> /\ Missed(h)
      BY <1>2 DEF Die, Abort
    <2> QED
      BY <2>1, DoneType, MissedType DEF Base, ClientsBase, NoCall
  <1>3. CASE Lose(h)
    <2>1. req[h].pc = "idle" /\ UNCHANGED vars /\ Missed(h)
      BY <1>3 DEF Lose, Answered, ClientsBase, Paired
    <2>2. req[h].tok = None
      BY <2>1 DEF ClientsBase, Paired, Presenting
    <2> QED
      BY <2>1, <2>2, MissedType DEF vars, ClientsBase, NoCall
  <1> QED
    BY <1>1, <1>2, <1>3

LEMMA EndedKeepsBase ==
  ASSUME Base, ClientsBase, NEW h \in Handlers, Refuse(h) \/ Die(h) \/ Lose(h)
  PROVE  ClientsBase'
  <1>1. /\ UNCHANGED <<rt, origin, jar, owner>>
        /\ req'[h].pc = "idle" /\ req'[h].tok = None
        /\ \A g \in Handlers \ {h} : req'[g] = req[g] /\ call'[g] = call[g]
        /\ ClientsTypeOK'
        /\ call'[h].tok = None
        /\ \/ /\ call[h].answer = "waiting"
              /\ call'[h].client = call[h].client /\ call'[h].answer = "keep"
           \/ call'[h] = NoCall
    BY EndedRequest
  <1>2. Paired(h)'
    BY <1>1 DEF Paired, NoCall, ClientsBase
  <1>3. \A d \in Clients : jar'[d] # None => Belongs(jar'[d], d)
    BY <1>1 DEF ClientsBase, Owned
  <1> QED
    BY <1>1, <1>2, <1>3, OwnedKept

(* What the answer leaves the client with.                                  *)
LEMMA ReceiveType ==
  ASSUME ClientsBase, NEW h \in Handlers, Receive(h)
  PROVE  /\ ClientsTypeOK'
         /\ UNCHANGED <<vars, owner, orderly, spoiled>>
         /\ req[h].pc = "idle" /\ call[h].client \in Clients
         /\ call'[h] = NoCall
         /\ \A g \in Handlers \ {h} : call'[g] = call[g]
         /\ \A d \in Clients \ {call[h].client} : jar'[d] = jar[d]
         /\ jar'[call[h].client] = Coming(call[h].client, h)
  <1> USE DEF ClientsBase, ClientsTypeOK
  <1>1. /\ UNCHANGED <<vars, owner, orderly, spoiled>>
        /\ call[h].answer \in {"set", "keep", "clear"}
        /\ call' = [call EXCEPT ![h] = NoCall]
    BY DEF Receive, Answered
  <1>2. call[h] \in Call /\ Paired(h)
    OBVIOUS
  <1>3. call[h].client \in Clients /\ req[h].pc = "idle"
    BY <1>1, <1>2 DEF Call, Paired
  <1>4. jar' = [jar EXCEPT ![call[h].client] = Coming(call[h].client, h)]
    <2>1. CASE call[h].answer = "set"
      BY <2>1 DEF Receive, Coming
    <2>2. CASE call[h].answer = "clear"
      BY <2>2 DEF Receive, Coming
    <2>3. CASE call[h].answer = "keep"
      BY <1>3, <2>3 DEF Receive, Coming
    <2> QED
      BY <1>1, <2>1, <2>2, <2>3
  <1>5. Coming(call[h].client, h) \in Tokens \cup {None}
    BY <1>1, <1>2, <1>3 DEF Coming, Call
  <1>6. jar' \in [Clients -> Tokens \cup {None}]
    BY <1>4, <1>5
  <1>7. call' \in [Handlers -> Call]
    BY <1>1 DEF Call, NoCall, Answers
  <1> QED
    BY <1>1, <1>3, <1>4, <1>6, <1>7

LEMMA ReceiveKeepsBase ==
  ASSUME Base, ClientsBase, NEW h \in Handlers, Receive(h)
  PROVE  ClientsBase'
  <1>1. /\ ClientsTypeOK'
        /\ UNCHANGED <<vars, owner>>
        /\ req[h].pc = "idle" /\ call[h].client \in Clients
        /\ call'[h] = NoCall
        /\ \A g \in Handlers \ {h} : call'[g] = call[g]
        /\ \A d \in Clients \ {call[h].client} : jar'[d] = jar[d]
        /\ jar'[call[h].client] \in {call[h].tok, None, jar[call[h].client]}
    BY ReceiveType DEF Coming
  <1>2. UNCHANGED <<rt, origin, req>>
    BY <1>1 DEF vars
  <1>3. req[h].tok = None
    BY <1>1 DEF ClientsBase, Paired, Presenting
  <1>4. \A c \in Clients : jar'[c] # None => Belongs(jar'[c], c)
    BY <1>1 DEF ClientsBase, Owned
  <1>5. Paired(h)' /\ call'[h].tok = None
    BY <1>1, <1>2, <1>3 DEF Paired, NoCall
  <1> QED
    BY <1>1, <1>2, <1>3, <1>4, <1>5, OwnedKept

LEMMA ClientsBaseInit == ClientsInit => ClientsBase
  <1> SUFFICES ASSUME ClientsInit PROVE ClientsBase
    OBVIOUS
  <1> USE DEF ClientsInit, Init
  <1>1. ClientsTypeOK
    BY DEF ClientsTypeOK, Call, Answers, NoCall
  <1>2. \A h \in Handlers : Paired(h)
    BY DEF Paired, NoCall, Idle, Presenting
  <1>3. Owned
    BY DEF Owned, NoCall, Idle, Stored, NoRow
  <1> QED
    BY <1>1, <1>2, <1>3 DEF ClientsBase

LEMMA ClientsBaseNext ==
  Base /\ Lineage /\ ClientsBase /\ [ClientsNext]_<<vars, clientVars>> => ClientsBase'
  <1> SUFFICES ASSUME Base, Lineage, ClientsBase, [ClientsNext]_<<vars, clientVars>>
               PROVE  ClientsBase'
    OBVIOUS
  <1>1. ASSUME NEW h \in Handlers, NEW c \in Clients, Calls(c, h)
        PROVE  ClientsBase'
    BY <1>1, SendKeepsBase
  <1>2. ASSUME NEW h \in Handlers, Serve(h) \/ RefuseLate(h) PROVE ClientsBase'
    BY <1>2, IssueKeepsBase, ServeKeepsBase
  <1>3. ASSUME NEW h \in Handlers, Refuse(h) \/ Die(h) \/ Lose(h) PROVE ClientsBase'
    BY <1>3, EndedKeepsBase
  <1>4. ASSUME NEW h \in Handlers, Receive(h) PROVE ClientsBase'
    BY <1>4, ReceiveKeepsBase
  <1>5. CASE UNCHANGED <<vars, clientVars>>
    BY <1>5 DEF vars, clientVars, ClientsBase, ClientsTypeOK, Paired, Owned, Belongs, Stored
  <1> QED
    BY <1>1, <1>2, <1>3, <1>4, <1>5 DEF ClientsNext, Calls

LEMMA ClientsBaseAlways == ClientsSpec => [](Base /\ Lineage /\ ClientsBase)
  <1>1. ClientsSpec => []Base /\ []Lineage
    BY Composition, BaseAlways, LineageAlways
  <1> QED
    BY <1>1, ClientsBaseInit, ClientsBaseNext, PTL DEF ClientsSpec

-----------------------------------------------------------------------------
(* A step on behalf of one client leaves every other tidy.                 *)

Untouched(c) ==
  /\ \A s \in Stored(rt) :
       owner[s] = c =>
         /\ rt'[s].consumed = rt[s].consumed
         /\ Spent(rt'[s]) => Spent(rt[s]) \/ s \in spoiled'
  /\ Usable(c)' \subseteq Usable(c)
  /\ spoiled \subseteq spoiled'
  /\ \A s \in Stored(rt') :
       \/ s \in Stored(rt) /\ origin'[s] = origin[s]
       \/ origin'[s].parent # None => owner[origin'[s].parent] # c

(* A step that changes no row and no owner.                                 *)
LEMMA RowsUntouched ==
  ASSUME UNCHANGED <<rt, origin, owner>>, spoiled \subseteq spoiled', NEW c
  PROVE  Untouched(c)
  BY DEF Untouched, Usable, Stored

LEMMA OthersTidy ==
  ASSUME Base, ClientsBase, NEW c \in Clients, Tidy(c), NEW h \in Handlers,
         call[h].client # c, call'[h].client # c,
         \A g \in Handlers \ {h} : call'[g] = call[g] /\ req'[g] = req[g],
         jar'[c] = jar[c], Untouched(c)
  PROVE  Tidy(c)'
  <1>1. Waiting(c)' <=> Waiting(c)
    BY DEF Waiting
  <1>2. Held(c)' = Held(c) /\ Usable(c)' \subseteq Usable(c)
    BY DEF Held, Untouched
  <1>3. ASSUME NEW t, Good(t), t # None => Belongs(t, c)
        PROVE  t # None /\ Spent(rt'[t]) => t \in spoiled'
    BY <1>3 DEF Good, Belongs, Untouched
  <1>4. jar[c] # None => Belongs(jar[c], c)
    BY DEF ClientsBase, Owned
  <1>5. ~Waiting(c)' => Good(jar[c])' /\ Fits(c, Held(c))'
    BY <1>1, <1>2, <1>3, <1>4 DEF Tidy, Fits, Good, Keeps
  <1>6. ASSUME NEW g \in Handlers, call'[g].client = c
        PROVE  Served(c, g)'
    <2>1. g # h /\ call'[g] = call[g] /\ req'[g] = req[g]
      BY <1>6
    <2>2. Served(c, g) /\ call[g].client = c
      BY <1>6, <2>1 DEF Tidy
    <2>3. \A k \in Handlers : call'[k].client = c => k = g
      BY <2>2 DEF Served
    <2>4. Due(c, g)' = Due(c, g) /\ Coming(c, g)' = Coming(c, g)
      BY <1>2, <2>1 DEF Due, Coming
    <2>5. Fits(c, Due(c, g))'
      BY <1>2, <2>2, <2>4 DEF Served, Fits, Keeps
    <2>6. req[g].tok # None => Belongs(req[g].tok, c)
      BY <2>2 DEF ClientsBase, Owned
    <2>7. Redeemed(g)' => \A s \in Stored(rt') : origin'[s].parent # req[g].tok
      BY <2>1, <2>2, <2>6 DEF Redeemed, Served, Untouched, Belongs
    <2>8. Redeemed(g)' \/ Good(Coming(c, g))'
      <3>1. Coming(c, g) # None => Belongs(Coming(c, g), c)
        BY <1>4, <2>2 DEF Coming, ClientsBase, Owned
      <3>2. Redeemed(g)' <=> Redeemed(g)
        BY <2>1 DEF Redeemed
      <3> QED
        BY <1>3, <2>2, <2>4, <3>1, <3>2 DEF Served, Good
    <2>9. ASSUME req[g].pc \in {"user", "consume"}
          PROVE  ~rt'[req[g].tok].consumed
      <3>1. req[g].tok \in Stored(rt) /\ owner[req[g].tok] = c
        BY <2>6, <2>9, NoneIsNoUser DEF Belongs, Base, RequestsOK, Grounded, Stored
      <3> QED
        BY <2>2, <2>9, <3>1 DEF Served, Untouched
    <2>10. req[g].pc = "revokeFamily" => req[g].tok \in spoiled'
      BY <2>2 DEF Served, Untouched
    <2> QED
      BY <2>1, <2>2, <2>3, <2>5, <2>7, <2>8, <2>9, <2>10 DEF Served
  <1> QED
    BY <1>5, <1>6 DEF Tidy

(* The client that is served: its one call goes on.                         *)
LEMMA OwnTidy ==
  ASSUME NEW c, NEW h \in Handlers, call'[h].client = c, Served(c, h)',
         \A g \in Handlers : call'[g].client = c => g = h
  PROVE  Tidy(c)'
  BY DEF Tidy, Waiting

LEMMA NewCall ==
  ASSUME Base, ClientsBase, NEW c \in Clients, c \in orderly', c \in orderly, Tidy(c),
         NEW h \in Handlers, Calls(c, h)
  PROVE  Tidy(c)'
  <1>1. UNCHANGED <<rt, origin>> /\ req[h].pc = "idle"
    BY CallSent
  <1>2. PICK a \in {"waiting", "clear"}, careful \in BOOLEAN :
          /\ Send(c, h, a, careful)
          /\ \/ /\ a = "waiting" /\ (careful => jar[c] = None \/ Spent(rt[jar[c]]))
                /\ req'[h].pc # "idle" /\ req'[h].pc \notin Presenting \ {"issue"}
                /\ req'[h].tok = None
             \/ /\ a = "waiting" /\ req'[h].pc \notin Presenting /\ req'[h].pc # "idle"
                /\ req'[h].tok = None
             \/ /\ a = "waiting" /\ req'[h].pc \in {"find", "logout"}
                /\ req'[h].tok = jar[c]
             \/ /\ a = "clear" /\ req'[h].pc = "idle" /\ req'[h] = req[h]
                /\ "logout" \in Flows
                /\ c \in Native \/ jar[c] = None \/ rt[jar[c]].revoked
             \/ ~careful
    <2>1. CASE /\ Send(c, h, "waiting", jar[c] = None \/ Spent(rt[jar[c]]))
               /\ req'[h].pc # "idle" /\ req'[h].pc \notin Presenting \ {"issue"}
               /\ req'[h].tok = None
      <3> DEFINE careful == jar[c] = None \/ Spent(rt[jar[c]])
      <3>1. careful \in BOOLEAN /\ (careful => jar[c] = None \/ Spent(rt[jar[c]]))
        OBVIOUS
      <3>2. Send(c, h, "waiting", careful)
        BY <2>1
      <3> HIDE DEF careful
      <3> QED
        BY <2>1, <3>1, <3>2
    <2>2. CASE /\ Send(c, h, "waiting", TRUE)
               /\ req'[h].pc # "idle" /\ req'[h].pc \notin Presenting
               /\ req'[h].tok = None
      BY <2>2
    <2>3. CASE /\ Send(c, h, "waiting", TRUE)
               /\ req'[h].pc \in {"find", "logout"} /\ req'[h].tok = jar[c]
      BY <2>3
    <2>4. CASE Send(c, h, "waiting", FALSE)
      BY <2>4
    <2>5. CASE /\ Send(c, h, "clear", TRUE) /\ "logout" \in Flows /\ UNCHANGED req
               /\ c \in Native \/ jar[c] = None \/ rt[jar[c]].revoked
      BY <1>1, <2>5
    <2> QED
      BY <2>1, <2>2, <2>3, <2>4, <2>5, CallSent
  <1>3. /\ call'[h].client = c /\ call'[h].answer = a
        /\ \A g \in Handlers \ {h} : call'[g] = call[g]
        /\ UNCHANGED <<jar, owner, spoiled>>
        /\ ~Waiting(c) /\ careful
    <2>1. ClientsTypeOK /\ Send(c, h, a, careful)
      BY <1>2 DEF ClientsBase
    <2>2. /\ call'[h] = [client |-> c, answer |-> a, tok |-> None]
          /\ \A g \in Handlers \ {h} : call'[g] = call[g]
          /\ UNCHANGED <<jar, owner, spoiled>>
          /\ c \in orderly' => ~Waiting(c) /\ careful
      BY <2>1, SendType
    <2> QED
      BY <2>2
  <1>4. \A g \in Handlers : call'[g].client = c => g = h
    BY <1>3 DEF Waiting
  <1>5. /\ Fits(c, Held(c)) /\ Good(jar[c])
        /\ Usable(c)' = Usable(c) /\ Held(c)' = Held(c)
    BY <1>1, <1>3 DEF Tidy, Usable, Held, Stored
  <1>6. Good(jar[c])'
    BY <1>1, <1>3, <1>5 DEF Good
  <1>7. req[h].tok = None
    BY <1>1 DEF ClientsBase, Paired, Presenting
  <1>8. CASE a = "waiting" /\ req'[h].pc = "issue" /\ req'[h].tok = None
    <2>1. jar[c] = None \/ Spent(rt[jar[c]])
      BY <1>2, <1>3, <1>8 DEF Presenting
    <2>2. Due(c, h)' = {} /\ Coming(c, h)' = jar'[c]
      BY <1>3, <1>8 DEF Due, Coming
    <2>3. Keeps(c) => Usable(c) = {}
      BY <1>5, <2>1 DEF Fits, Held, Usable
    <2>4. Fits(c, Due(c, h))'
      BY <1>5, <2>2, <2>3 DEF Fits, Keeps
    <2>5. ~Redeemed(h)'
      BY <1>8 DEF Redeemed
    <2>6. Served(c, h)'
      BY <1>4, <1>6, <1>8, <2>2, <2>4, <2>5 DEF Served
    <2> QED
      BY <1>3, <1>4, <2>6, OwnTidy
  <1>9. CASE /\ a = "waiting" /\ req'[h].pc \notin {"issue", "user", "consume", "revokeFamily"}
             /\ req'[h].tok \in {None, jar[c]}
    <2>1. Due(c, h)' = Held(c) /\ Coming(c, h)' = jar'[c]
      BY <1>3, <1>5, <1>9 DEF Due, Coming
    <2>2. Fits(c, Due(c, h))'
      BY <1>5, <2>1 DEF Fits, Keeps
    <2>3. Served(c, h)'
      BY <1>3, <1>4, <1>6, <1>9, <2>1, <2>2 DEF Served, Redeemed
    <2> QED
      BY <1>3, <1>4, <2>3, OwnTidy
  <1>10. CASE a = "clear"
    <2>1. /\ req'[h].pc = "idle" /\ req'[h].tok = None /\ "logout" \in Flows
          /\ c \in Native \/ jar[c] = None \/ rt[jar[c]].revoked
      BY <1>2, <1>3, <1>7, <1>10
    <2>2. Due(c, h)' = {} /\ Coming(c, h)' = None
      BY <1>3, <1>10 DEF Due, Coming
    <2>3. Keeps(c) => Usable(c) = {}
      BY <1>5, <2>1 DEF Keeps, Held, Fits, Usable, Spent
    <2>4. Fits(c, Due(c, h))'
      BY <1>5, <2>2, <2>3 DEF Fits, Keeps
    <2>5. Served(c, h)'
      BY <1>4, <2>1, <2>2, <2>4 DEF Served, Good, Redeemed
    <2> QED
      BY <1>3, <1>4, <2>5, OwnTidy
  <1>11. CASE a = "waiting" /\ ~(req'[h].pc = "issue" /\ req'[h].tok = None)
    <2>1. /\ req'[h].pc \notin {"issue", "user", "consume", "revokeFamily"}
          /\ req'[h].tok \in {None, jar[c]}
      BY <1>2, <1>3, <1>11 DEF Presenting
    <2> QED
      BY <1>9, <1>11, <2>1
  <1> QED
    BY <1>8, <1>10, <1>11

LEMMA SendTidy ==
  ASSUME Base, ClientsBase, NEW c \in Clients, NEW h \in Handlers,
         Calls(c, h), NEW d \in orderly', \A e \in orderly : Tidy(e)
  PROVE  /\ Tidy(d)'
         /\ UNCHANGED <<rt, origin, owner>> /\ orderly' \subseteq orderly
  <1>1. /\ UNCHANGED <<rt, origin, ended>>
        /\ \A g \in Handlers \ {h} : req'[g] = req[g]
    BY CallSent
  <1>2. /\ call[h] = NoCall
        /\ call'[h].client = c
        /\ \A g \in Handlers \ {h} : call'[g] = call[g]
        /\ UNCHANGED <<jar, owner, spoiled>>
        /\ orderly' \subseteq orderly
    <2>1. PICK a \in {"waiting", "clear"}, careful \in BOOLEAN : Send(c, h, a, careful)
      <3> DEFINE late == jar[c] = None \/ Spent(rt[jar[c]])
      <3>1. late \in BOOLEAN
        OBVIOUS
      <3>2. \/ Send(c, h, "waiting", late)
            \/ Send(c, h, "waiting", TRUE) \/ Send(c, h, "waiting", FALSE)
            \/ Send(c, h, "clear", TRUE)
        BY CallSent
      <3> HIDE DEF late
      <3> QED
        BY <3>1, <3>2
    <2>2. ClientsTypeOK
      BY DEF ClientsBase
    <2>3. /\ call[h] = NoCall
          /\ call'[h] = [client |-> c, answer |-> a, tok |-> None]
          /\ \A g \in Handlers \ {h} : call'[g] = call[g]
          /\ UNCHANGED <<jar, owner, spoiled>>
          /\ orderly' \subseteq orderly
      BY <2>1, <2>2, SendType
    <2> QED
      BY <2>3
  <1>3. d \in orderly /\ d \in Clients /\ Tidy(d) /\ d # None
    BY <1>2, ClientsAssumption DEF ClientsBase, ClientsTypeOK
  <1>4. CASE d = c
    BY <1>1, <1>2, <1>3, <1>4, NewCall
  <1>5. CASE d # c
    <2>1. call[h].client # d /\ call'[h].client # d
      BY <1>2, <1>3, <1>5 DEF NoCall
    <2>2. Untouched(d)
      BY <1>1, <1>2, RowsUntouched
    <2> QED
      BY <1>1, <1>2, <1>3, <2>1, <2>2, OthersTidy
  <1> QED
    BY <1>4, <1>5

(* The request of a client that stays orderly was answered 500: what it had *)
(* consumed counts as taken by the service.                                 *)
LEMMA EndedTidy ==
  ASSUME Base, ClientsBase, NEW h \in Handlers, Refuse(h) \/ Die(h) \/ Lose(h),
         NEW d \in orderly', \A e \in orderly : Tidy(e)
  PROVE  Tidy(d)'
  <1> DEFINE c == call[h].client
  <1>1. /\ UNCHANGED <<rt, origin, jar, owner>>
        /\ req'[h].pc = "idle" /\ req'[h].tok = None
        /\ \A g \in Handlers \ {h} : req'[g] = req[g] /\ call'[g] = call[g]
        /\ \/ /\ call[h].answer = "waiting"
              /\ call'[h].client = c /\ call'[h].answer = "keep"
              /\ orderly' = orderly
              /\ spoiled \subseteq spoiled'
              /\ Redeemed(h) => req[h].tok \in spoiled'
           \/ /\ call'[h] = NoCall /\ UNCHANGED spoiled
              /\ orderly' = orderly \ {c}
    BY EndedRequest
  <1>2. d \in orderly /\ d \in Clients /\ Tidy(d) /\ d # None
    BY <1>1, ClientsAssumption DEF ClientsBase, ClientsTypeOK
  <1>3. CASE call'[h].client = d
    <2>1. /\ call[h].answer = "waiting" /\ c = d /\ call'[h].answer = "keep"
          /\ spoiled \subseteq spoiled'
          /\ Redeemed(h) => req[h].tok \in spoiled'
      BY <1>1, <1>2, <1>3 DEF NoCall
    <2>2. Served(d, h)
      BY <1>2, <2>1 DEF Tidy
    <2>3. Coming(d, h) = jar[d] /\ Coming(d, h)' = jar[d] /\ Due(d, h)' = Held(d)
      BY <1>1, <2>1 DEF Coming, Due, Held
    <2>4. Good(jar[d])'
      <3>1. CASE Redeemed(h)
        <4>1. req[h].tok = jar[d] /\ req[h].tok \in spoiled'
          BY <2>1, <2>2, <3>1 DEF Served, Redeemed
        <4> QED
          BY <1>1, <4>1 DEF Good
      <3>2. CASE ~Redeemed(h)
        <4>1. Good(jar[d])
          BY <2>2, <2>3, <3>2 DEF Served
        <4> QED
          BY <1>1, <2>1, <4>1 DEF Good
      <3> QED
        BY <3>1, <3>2
    <2>5. Usable(d)' = Usable(d) /\ Due(d, h) \subseteq Held(d)
      BY <1>1, <2>1 DEF Usable, Stored, Due
    <2>6. Fits(d, Due(d, h))'
      BY <2>2, <2>3, <2>5 DEF Served, Fits, Keeps
    <2>7. \A g \in Handlers : call'[g].client = d => g = h
      BY <1>1, <2>2 DEF Served
    <2>8. Good(Coming(d, h))'
      BY <1>1, <2>3, <2>4 DEF Good
    <2>9. Served(d, h)'
      BY <1>1, <2>6, <2>7, <2>8 DEF Served, Redeemed
    <2> QED
      BY <1>3, <2>7, <2>9, OwnTidy
  <1>4. CASE call'[h].client # d
    <2>1. c # d
      BY <1>1, <1>4
    <2>2. Untouched(d)
      BY <1>1, RowsUntouched
    <2> QED
      BY <1>1, <1>2, <1>4, <2>1, <2>2, OthersTidy
  <1> QED
    BY <1>3, <1>4

LEMMA ReceiveTidy ==
  ASSUME Base, ClientsBase, NEW h \in Handlers, Receive(h), NEW d \in orderly',
         \A e \in orderly : Tidy(e)
  PROVE  Tidy(d)'
  <1> DEFINE c == call[h].client
  <1>1. /\ UNCHANGED <<vars, owner, orderly, spoiled>>
        /\ req[h].pc = "idle" /\ c \in Clients
        /\ call'[h] = NoCall
        /\ \A g \in Handlers \ {h} : call'[g] = call[g]
        /\ \A e \in Clients \ {c} : jar'[e] = jar[e]
        /\ jar'[c] = Coming(c, h)
    BY ReceiveType
  <1>2. UNCHANGED <<rt, origin, req>>
    BY <1>1 DEF vars
  <1>3. d \in orderly /\ d \in Clients /\ Tidy(d) /\ d # None
    BY <1>1, ClientsAssumption DEF ClientsBase, ClientsTypeOK
  <1>4. call'[h].client # d /\ Usable(d)' = Usable(d)
    BY <1>1, <1>2, <1>3 DEF NoCall, Usable, Stored
  <1>5. CASE d # c
    <2>1. Untouched(d)
      BY <1>1, <1>2, RowsUntouched
    <2> QED
      BY <1>1, <1>2, <1>3, <1>4, <1>5, <2>1, OthersTidy
  <1>6. CASE d = c
    <2>1. Served(d, h)
      BY <1>3, <1>6 DEF Tidy
    <2>2. \A g \in Handlers : call'[g].client # d
      BY <1>1, <1>4, <1>6, <2>1 DEF Served
    <2>3. Good(jar[d])'
      BY <1>1, <1>2, <1>6, <2>1 DEF Served, Redeemed, Good
    <2>4. Held(d)' = Due(d, h)
      <3>1. call[h].answer = "set" => call[h].tok # None
        BY DEF ClientsBase, Paired
      <3> QED
        BY <1>1, <1>6, <3>1 DEF Held, Due, Coming
    <2>5. Fits(d, Held(d))'
      BY <1>4, <2>1, <2>4 DEF Served, Fits, Keeps
    <2> QED
      BY <2>2, <2>3, <2>5 DEF Tidy
  <1> QED
    BY <1>5, <1>6

(* What a served request leaves to the clients it is not for.               *)
LEMMA ServeUntouched ==
  ASSUME Base, ClientsBase, NEW h \in Handlers, Serve(h), ~Issue(h),
         NEW d \in Clients, call[h].client # d
  PROVE  Untouched(d)
  <1>1. /\ UNCHANGED origin /\ Stored(rt') = Stored(rt)
        /\ spoiled \subseteq spoiled'
        /\ \A s \in Stored(rt) :
             /\ Spent(rt[s]) => Spent(rt'[s])
             /\ rt'[s].consumed # rt[s].consumed => RefreshConsume(h) /\ s = req[h].tok
             /\ \/ Spent(rt'[s]) => Spent(rt[s]) \/ s \in spoiled'
                \/ owner[s] = call[h].client
    BY ServeMarks
  <1>2. UNCHANGED owner
    BY <1>1, ServeNoRow DEF ClientsBase
  <1>3. Usable(d)' \subseteq Usable(d)
    BY <1>1, <1>2 DEF Usable
  <1>4. ASSUME NEW s \in Stored(rt), owner[s] = d
        PROVE  rt'[s].consumed = rt[s].consumed
    <2>1. s # None
      BY NoneIsNoUser DEF Stored
    <2>2. req[h].tok # None => owner[req[h].tok] # d
      BY DEF ClientsBase, Owned, Belongs
    <2> QED
      BY <1>1, <1>4, <2>1, <2>2
  <1> QED
    BY <1>1, <1>3, <1>4 DEF Untouched

LEMMA GrantUntouched ==
  ASSUME Base, ClientsBase, NEW h \in Handlers, NEW t, Granted(h, t),
         NEW d \in Clients, call[h].client # d
  PROVE  Untouched(d)
  <1>1. /\ Stored(rt') = Stored(rt) \cup {t} /\ t \in Tokens \ Stored(rt)
        /\ origin'[t].parent = req[h].tok
        /\ \A s \in Stored(rt) : /\ rt'[s] = rt[s] /\ origin'[s] = origin[s]
                                 /\ owner'[s] = owner[s]
        /\ owner'[t] \in {call[h].client, None} /\ spoiled' = spoiled
    BY DEF Granted, Inserted, Stored
  <1>2. Usable(d)' \subseteq Usable(d)
    BY <1>1, ClientsAssumption DEF Usable
  <1>3. req[h].tok # None => owner[req[h].tok] # d
    BY DEF ClientsBase, Owned, Belongs
  <1> QED
    BY <1>1, <1>2, <1>3 DEF Untouched

(* The statements of the client's own request that neither consume, insert  *)
(* nor log out: what it holds stays what it holds.                          *)
LEMMA OwnQuiet ==
  ASSUME Base, ClientsBase, NEW h \in Handlers, Serve(h), NEW c,
         call[h].client = c, Served(c, h),
         ~Issue(h), ~RefreshConsume(h), ~LogoutRevoke(h)
  PROVE  Tidy(c)'
  <1> USE DEF Base, StoreTypeOK
  <1>1. /\ Stored(rt') = Stored(rt) /\ spoiled \subseteq spoiled'
        /\ \A s \in Stored(rt) :
             /\ Spent(rt[s]) => Spent(rt'[s])
             /\ rt'[s].consumed = rt[s].consumed
             /\ \/ Spent(rt'[s]) => Spent(rt[s]) \/ s \in spoiled'
                \/ req[h].pc \in {"consume", "revokeFamily", "logout"}
    BY ServeMarks
  <1>2. /\ UNCHANGED <<jar, owner, orderly>>
        /\ \A g \in Handlers \ {h} : call'[g] = call[g]
        /\ call'[h].client = c
        /\ req'[h].pc # "idle" => call'[h] = call[h]
        /\ req'[h].pc = "idle"
             => call'[h].answer = IF req[h].pc = "logout" THEN "clear" ELSE "keep"
    BY <1>1, ServeNoRow DEF ClientsBase
  <1>3. call[h].answer = "waiting" /\ c \in Clients
    BY ServeWaiting DEF Serve
  <1>4. req[h].pc \notin {"issue", "consume", "logout"}
    <2>1. CASE Tokenless(h)
      BY <2>1, TokenlessRequest DEF Presenting
    <2>2. CASE RefreshFind(h) \/ RefreshUser(h) \/ RefreshRevokeFamily(h)
      BY <2>2 DEF RefreshFind, RefreshUser, RefreshRevokeFamily, At
    <2> QED
      BY <2>1, <2>2 DEF Serve, Progress, Tokenless
  <1>5. Good(jar[c]) /\ Due(c, h) = Held(c)
    BY <1>3, <1>4 DEF Served, Redeemed, Coming, Due
  <1>6. req[h].pc \in {"find", "user", "revokeFamily"}
          => req[h].tok = jar[c] /\ jar[c] \in Stored(rt) /\ jar[c] # None
    BY NoneIsNoUser DEF Served, RequestsOK, Grounded, Stored
  <1>7. /\ \/ req'[h].pc \notin Presenting /\ req'[h].tok = None
           \/ /\ req'[h].tok = req[h].tok /\ req[h].tok = jar[c]
              /\ \/ /\ req[h].pc = "find"
                    /\ req'[h].pc = "user" /\ ~Spent(rt[jar[c]])
                 \/ /\ req[h].pc = "find"
                    /\ req'[h].pc = "revokeFamily" /\ Spent(rt[jar[c]])
                 \/ req[h].pc = "user" /\ req'[h].pc = "consume"
                 \/ /\ req[h].pc = "user"
                    /\ req'[h].pc = "revokeFamily" /\ jar[c] \in spoiled'
    BY <1>6, ServeRequest
  <1>8. Good(jar[c])'
    <2> SUFFICES ASSUME jar[c] # None, Spent(rt'[jar[c]]) PROVE jar[c] \in spoiled'
      BY <1>2 DEF Good
    <2>1. jar[c] \in Stored(rt)
      BY <1>3 DEF ClientsBase, Owned, Belongs
    <2>2. CASE req[h].pc = "revokeFamily"
      BY <1>1, <1>6, <2>2 DEF Served
    <2>3. CASE req[h].pc # "revokeFamily"
      BY <1>1, <1>4, <1>5, <2>1, <2>3 DEF Good
    <2> QED
      BY <2>2, <2>3
  <1>9. req'[h].pc \in {"user", "consume"} => ~rt'[req'[h].tok].consumed
    BY <1>1, <1>6, <1>7 DEF Served, Spent, Presenting
  <1>10. req'[h].pc = "revokeFamily" => req'[h].tok \in spoiled'
    BY <1>1, <1>5, <1>6, <1>7 DEF Good, Presenting
  <1>11. req'[h].pc # "issue" /\ req'[h].tok \in {None, jar[c]}
    BY <1>7 DEF Presenting
  <1>12. Coming(c, h)' = jar'[c] /\ Due(c, h)' = Held(c)
    BY <1>2, <1>3, <1>4, <1>11 DEF Coming, Due, Held
  <1>13. Usable(c)' \subseteq Usable(c)
    BY <1>1, <1>2 DEF Usable
  <1>14. Fits(c, Due(c, h))'
    BY <1>5, <1>12, <1>13 DEF Served, Fits, Keeps
  <1>15. \A g \in Handlers : call'[g].client = c => g = h
    BY <1>2 DEF Served
  <1>16. Served(c, h)'
    BY <1>2, <1>8, <1>9, <1>10, <1>11, <1>12, <1>14, <1>15 DEF Served, Redeemed
  <1> QED
    BY <1>2, <1>15, <1>16, OwnTidy

(* The consumed token was the only one due; nothing has come from it yet.   *)
LEMMA OwnConsume ==
  ASSUME Base, Lineage, ClientsBase, NEW h \in Handlers, Serve(h), NEW c,
         call[h].client = c, Served(c, h), RefreshConsume(h)
  PROVE  Tidy(c)'
  <1> DEFINE t == req[h].tok
  <1> USE DEF Base, StoreTypeOK
  <1>1. req[h].pc = "consume" /\ ~Issue(h)
    BY DEF RefreshConsume, Issue, At
  <1>2. t \in Stored(rt) /\ t \in Tokens /\ t # None
    BY <1>1, NoneIsNoUser DEF RequestsOK, Grounded, Stored
  <1>3. rt' = MarkConsumed(rt, t) /\ UNCHANGED origin /\ Goto(h, "issue")
    BY DEF RefreshConsume
  <1>4. /\ req'[h].pc = "issue" /\ req'[h].tok = t
        /\ Stored(rt') = Stored(rt)
        /\ rt'[t].consumed
        /\ \A s \in Tokens \ {t} : rt'[s] = rt[s]
    <2>1. "issue" \in Pc
      BY DEF Pc
    <2>2. \A s \in Tokens \ {t} : rt'[s] = rt[s]
      BY <1>2, <1>3 DEF MarkConsumed
    <2> QED
      BY <1>2, <1>3, <2>1, <2>2, GotoType, MarkConsumedType
  <1>5. /\ UNCHANGED <<jar, owner, orderly>>
        /\ \A g \in Handlers \ {h} : call'[g] = call[g]
        /\ call'[h] = call[h]
    BY <1>4, ServeNoRow DEF ClientsBase
  <1>6. call[h].answer = "waiting"
    BY ServeWaiting DEF Serve
  <1>7. t = jar[c] /\ Due(c, h) = {t} /\ Due(c, h)' = {}
    BY <1>1, <1>2, <1>4, <1>5, <1>6 DEF Served, Due, Held
  <1>8. Keeps(c) => Usable(c) \subseteq {t}
    BY <1>7 DEF Served, Fits
  <1>9. Usable(c)' \subseteq Usable(c) \ {t}
    <2> SUFFICES ASSUME NEW s \in Usable(c)' PROVE s \in Usable(c) \ {t}
      OBVIOUS
    <2>1. s \in Stored(rt) /\ owner[s] = c /\ ~Spent(rt'[s])
      BY <1>4, <1>5 DEF Usable
    <2>2. s # t /\ s \in Tokens
      BY <1>4, <2>1 DEF Spent, Stored
    <2> QED
      BY <1>4, <2>1, <2>2 DEF Usable
  <1>10. Fits(c, Due(c, h))'
    BY <1>7, <1>8, <1>9 DEF Fits, Keeps
  <1>11. \A s \in Stored(rt') : origin'[s].parent # t
    <2>1. ~rt[t].consumed
      BY <1>1 DEF Served
    <2> QED
      BY <1>2, <1>3, <1>4, <2>1 DEF Lineage, LineageOK, Descended
  <1>12. \A g \in Handlers : call'[g].client = c => g = h
    BY <1>5 DEF Served
  <1>13. Served(c, h)'
    BY <1>2, <1>4, <1>5, <1>7, <1>10, <1>11, <1>12 DEF Served, Redeemed
  <1> QED
    BY <1>5, <1>12, <1>13, OwnTidy

(* The new token is the only usable one and on its way to the client; or it *)
(* is nobody's, and the client still holds what it had.                     *)
LEMMA OwnIssue ==
  ASSUME Base, ClientsBase, NEW h \in Handlers, NEW t, Granted(h, t), NEW c \in Clients,
         call[h].client = c, Served(c, h)
  PROVE  Tidy(c)'
  <1>1. /\ Stored(rt') = Stored(rt) \cup {t} /\ t \in Tokens \ Stored(rt) /\ t # None
        /\ ~Spent(rt'[t])
        /\ \A s \in Stored(rt) : rt'[s] = rt[s] /\ owner'[s] = owner[s]
    BY NoneIsNoUser DEF Granted, Inserted, Stored
  <1>2. /\ req[h].pc = "issue" /\ req'[h].pc = "idle" /\ req'[h].tok = None
        /\ \A g \in Handlers \ {h} : call'[g] = call[g]
        /\ call'[h].client = c /\ call[h].answer = "waiting"
        /\ UNCHANGED jar /\ spoiled' = spoiled
        /\ \/ call'[h].answer = "set" /\ call'[h].tok = t /\ owner'[t] = c
           \/ call'[h].answer = "keep" /\ owner'[t] = None /\ req[h].tok = None
    BY DEF Granted
  <1>3. Keeps(c) => Usable(c) = {}
    BY <1>2 DEF Served, Fits, Due
  <1>4. Good(Coming(c, h))' /\ Fits(c, Due(c, h))'
    <2>1. CASE call'[h].answer = "set"
      <3>1. Coming(c, h)' = t /\ Due(c, h)' = {t} /\ Usable(c)' \subseteq Usable(c) \cup {t}
        BY <1>1, <1>2, <2>1 DEF Coming, Due, Usable
      <3> QED
        BY <1>1, <1>3, <3>1 DEF Good, Fits, Keeps
    <2>2. CASE call'[h].answer = "keep"
      <3>1. req[h].tok = None /\ owner'[t] = None /\ c # None
        BY <1>2, <2>2, ClientsAssumption
      <3>2. Usable(c)' \subseteq Usable(c)
        BY <1>1, <3>1 DEF Usable
      <3>3. Good(jar[c])
        BY <1>2, <3>1 DEF Served, Redeemed, Coming
      <3>4. Coming(c, h)' = jar[c]
        BY <1>2, <2>2 DEF Coming
      <3>5. jar[c] # None => rt'[jar[c]] = rt[jar[c]]
        BY <1>1 DEF ClientsBase, Owned, Belongs
      <3>6. Good(Coming(c, h))'
        BY <1>2, <3>3, <3>4, <3>5 DEF Good
      <3> QED
        BY <1>3, <3>2, <3>6 DEF Fits, Keeps
    <2> QED
      BY <1>2, <2>1, <2>2
  <1>5. \A g \in Handlers : call'[g].client = c => g = h
    BY <1>2 DEF Served
  <1>6. Served(c, h)'
    BY <1>2, <1>4, <1>5 DEF Served, Redeemed
  <1> QED
    BY <1>2, <1>5, <1>6, OwnTidy

(* The presented token was the only usable one, and is none any more.       *)
LEMMA OwnLogout ==
  ASSUME Base, ClientsBase, NEW h \in Handlers, Serve(h), NEW c,
         call[h].client = c, Served(c, h), LogoutRevoke(h)
  PROVE  Tidy(c)'
  <1> DEFINE t == req[h].tok
  <1> USE DEF Base, StoreTypeOK
  <1>1. req[h].pc = "logout" /\ ~Issue(h) /\ Done(h)
    BY DEF LogoutRevoke, Issue, At
  <1>2. t \in Stored(rt) /\ t \in Tokens /\ t # None
    BY <1>1, NoneIsNoUser DEF RequestsOK, Grounded, Stored
  <1>3. req'[h].pc = "idle" /\ req'[h].tok = None
    BY <1>1, DoneType
  <1>4. rt' = RevokeWhere(rt, {t}) /\ UNCHANGED origin
    BY <1>2, RevokeType DEF LogoutRevoke
  <1>5. /\ Stored(rt') = Stored(rt)
        /\ rt'[t].revoked
        /\ \A s \in Tokens \ {t} : rt'[s] = rt[s]
    <2>1. \A s \in Tokens \ {t} : rt'[s] = rt[s]
      BY <1>4 DEF RevokeWhere
    <2> QED
      BY <1>2, <1>4, <2>1, RevokeWhereType
  <1>6. /\ UNCHANGED <<jar, owner, orderly>>
        /\ \A g \in Handlers \ {h} : call'[g] = call[g]
        /\ call'[h].client = c
        /\ call'[h].answer = "clear"
    BY <1>1, <1>3, <1>5, ServeNoRow DEF ClientsBase
  <1>7. call[h].answer = "waiting"
    BY ServeWaiting DEF Serve
  <1>8. /\ t = jar[c] /\ Due(c, h) = {t}
        /\ Due(c, h)' = {} /\ Coming(c, h)' = None
    BY <1>1, <1>2, <1>6, <1>7 DEF Served, Due, Held, Coming
  <1>9. Keeps(c) => Usable(c) \subseteq {t}
    BY <1>8 DEF Served, Fits
  <1>10. Usable(c)' \subseteq Usable(c) \ {t}
    <2> SUFFICES ASSUME NEW s \in Usable(c)' PROVE s \in Usable(c) \ {t}
      OBVIOUS
    <2>1. s \in Stored(rt) /\ owner[s] = c /\ ~Spent(rt'[s])
      BY <1>5, <1>6 DEF Usable
    <2>2. s # t /\ s \in Tokens
      BY <1>5, <2>1 DEF Spent, Stored
    <2> QED
      BY <1>5, <2>1, <2>2 DEF Usable
  <1>11. Fits(c, Due(c, h))'
    BY <1>8, <1>9, <1>10 DEF Fits, Keeps
  <1>12. \A g \in Handlers : call'[g].client = c => g = h
    BY <1>6 DEF Served
  <1>13. Served(c, h)'
    BY <1>3, <1>8, <1>11, <1>12 DEF Served, Redeemed, Good
  <1> QED
    BY <1>6, <1>12, <1>13, OwnTidy

LEMMA ServeTidy ==
  ASSUME Base, Lineage, ClientsBase, NEW h \in Handlers, Serve(h), ~Issue(h),
         NEW d \in orderly', \A e \in orderly : Tidy(e)
  PROVE  Tidy(d)'
  <1>1. UNCHANGED <<jar, orderly>>
    BY DEF Serve
  <1>2. d \in orderly /\ d \in Clients /\ Tidy(d)
    BY <1>1 DEF ClientsBase, ClientsTypeOK
  <1>3. CASE call[h].client = d
    <2>1. Served(d, h)
      BY <1>2, <1>3 DEF Tidy
    <2> QED
      BY <1>3, <2>1, OwnQuiet, OwnConsume, OwnLogout
  <1>4. CASE call[h].client # d
    <2>1. /\ \A g \in Handlers \ {h} : call'[g] = call[g] /\ req'[g] = req[g]
          /\ call'[h].client = call[h].client
      BY ServeMarks, ServeNoRow, ServeRequest DEF ClientsBase
    <2>2. Untouched(d)
      BY <1>2, <1>4, ServeUntouched
    <2> QED
      BY <1>1, <1>2, <1>4, <2>1, <2>2, OthersTidy
  <1> QED
    BY <1>3, <1>4

LEMMA GrantTidy ==
  ASSUME Base, ClientsBase, NEW h \in Handlers, NEW t, Granted(h, t),
         NEW d \in orderly', \A e \in orderly : Tidy(e)
  PROVE  Tidy(d)'
  <1>1. /\ UNCHANGED <<jar, orderly>> /\ call'[h].client = call[h].client
        /\ \A g \in Handlers \ {h} : call'[g] = call[g] /\ req'[g] = req[g]
    BY DEF Granted
  <1>2. d \in orderly /\ d \in Clients /\ Tidy(d)
    BY <1>1 DEF ClientsBase, ClientsTypeOK
  <1>3. CASE call[h].client = d
    <2>1. Served(d, h)
      BY <1>2, <1>3 DEF Tidy
    <2> QED
      BY <1>2, <1>3, <2>1, OwnIssue
  <1>4. CASE call[h].client # d
    BY <1>1, <1>2, <1>4, GrantUntouched, OthersTidy
  <1> QED
    BY <1>3, <1>4

-----------------------------------------------------------------------------
(* Whose token has two successors: nobody's who is orderly.                *)

LEMMA SuccessorsKept ==
  ASSUME OrderlySingleUse, UNCHANGED <<origin, owner>>, Stored(rt') = Stored(rt),
         orderly' \subseteq orderly
  PROVE  OrderlySingleUse'
  BY DEF OrderlySingleUse

LEMMA GrantSingleUse ==
  ASSUME Base, Lineage, Tidiness, ClientsBase, NEW h \in Handlers, NEW t, Granted(h, t)
  PROVE  OrderlySingleUse'
  <1> DEFINE p == req[h].tok
             c == call[h].client
  <1>1. /\ Stored(rt') = Stored(rt) \cup {t} /\ t \notin Stored(rt)
        /\ origin'[t].parent = p
        /\ \A s \in Stored(rt) : owner'[s] = owner[s] /\ origin'[s] = origin[s]
        /\ req[h].pc = "issue" /\ orderly' = orderly
        /\ p # None => owner'[t] = c
    BY DEF Granted, Inserted, Stored
  <1>2. ASSUME NEW s \in Stored(rt), p # None, origin[s].parent = p
        PROVE  owner[s] \notin orderly /\ c \notin orderly
    <2>1. owner[p] = c /\ owner[s] = c
      BY <1>2 DEF ClientsBase, Owned, Belongs
    <2>2. c \notin orderly
      BY <1>1, <1>2 DEF Tidiness, Tidy, Served, Redeemed
    <2> QED
      BY <2>1, <2>2
  <1> SUFFICES ASSUME NEW q \in Stored(rt'), NEW r \in Stored(rt'),
                      owner'[q] \in orderly',
                      origin'[q].parent = origin'[r].parent, origin'[q].parent # None
               PROVE  q = r
    BY DEF OrderlySingleUse
  <1>3. CASE q \in Stored(rt) /\ r \in Stored(rt)
    BY <1>1, <1>3 DEF Tidiness, OrderlySingleUse
  <1>4. CASE q = t /\ r \in Stored(rt)
    BY <1>1, <1>2, <1>4
  <1>5. CASE q \in Stored(rt) /\ r = t
    BY <1>1, <1>2, <1>5
  <1> QED
    BY <1>1, <1>3, <1>4, <1>5

LEMMA TidinessInit == ClientsInit => Tidiness
  <1> SUFFICES ASSUME ClientsInit PROVE Tidiness
    OBVIOUS
  <1>1. Stored(rt) = {}
    BY DEF ClientsInit, Init, Stored, NoRow
  <1>2. ASSUME NEW c \in orderly PROVE Tidy(c)
    <2>1. jar[c] = None /\ c # None
      BY ClientsAssumption DEF ClientsInit
    <2>2. Fits(c, Held(c)) /\ Good(jar[c])
      BY <1>1, <2>1 DEF Fits, Held, Usable, Good
    <2>3. \A h \in Handlers : call[h].client # c
      BY <2>1 DEF ClientsInit, NoCall
    <2> QED
      BY <2>2, <2>3 DEF Tidy
  <1> QED
    BY <1>1, <1>2 DEF Tidiness, OrderlySingleUse

LEMMA TidinessNext ==
  Base /\ Lineage /\ ClientsBase /\ Tidiness /\ [ClientsNext]_<<vars, clientVars>>
    => Tidiness'
  <1> SUFFICES ASSUME Base, Lineage, ClientsBase, Tidiness,
                      [ClientsNext]_<<vars, clientVars>>
               PROVE  Tidiness'
    OBVIOUS
  <1> \A e \in orderly : Tidy(e)
    BY DEF Tidiness
  <1>1. ASSUME NEW h \in Handlers, NEW c \in Clients, Calls(c, h)
        PROVE  Tidiness'
    <2>1. \A d \in orderly' : /\ Tidy(d)'
                              /\ UNCHANGED <<rt, origin, owner>> /\ orderly' \subseteq orderly
      BY <1>1, SendTidy
    <2>2. CASE orderly' = {}
      BY <2>2 DEF Tidiness, OrderlySingleUse
    <2>3. CASE orderly' # {}
      BY <2>1, <2>3, SuccessorsKept DEF Tidiness, Stored
    <2> QED
      BY <2>2, <2>3
  <1>2. ASSUME NEW h \in Handlers, Serve(h), ~Issue(h) PROVE Tidiness'
    <2>1. UNCHANGED origin /\ Stored(rt') = Stored(rt)
      BY <1>2, ServeMarks
    <2>2. UNCHANGED <<owner, orderly>>
      BY <1>2, <2>1, ServeNoRow DEF ClientsBase
    <2> QED
      BY <1>2, <2>1, <2>2, ServeTidy, SuccessorsKept DEF Tidiness
  <1>3. ASSUME NEW h \in Handlers, (Serve(h) /\ Issue(h)) \/ RefuseLate(h)
        PROVE  Tidiness'
    <2>1. PICK t : Granted(h, t)
      BY <1>3, IssueGrants
    <2> QED
      BY <2>1, GrantTidy, GrantSingleUse DEF Tidiness
  <1>4. ASSUME NEW h \in Handlers, Refuse(h) \/ Die(h) \/ Lose(h) PROVE Tidiness'
    <2>1. \A d \in orderly' : Tidy(d)'
      BY <1>4, EndedTidy
    <2>2. UNCHANGED <<rt, origin, owner>> /\ orderly' \subseteq orderly
      BY <1>4, EndedRequest
    <2> QED
      BY <2>1, <2>2, SuccessorsKept DEF Tidiness, Stored
  <1>5. ASSUME NEW h \in Handlers, Receive(h) PROVE Tidiness'
    <2>1. \A d \in orderly' : Tidy(d)'
      BY <1>5, ReceiveTidy
    <2>2. UNCHANGED <<rt, origin, owner, orderly>>
      BY <1>5, ReceiveType DEF vars
    <2> QED
      BY <2>1, <2>2, SuccessorsKept DEF Tidiness, Stored
  <1>6. CASE UNCHANGED <<vars, clientVars>>
    BY <1>6 DEF vars, clientVars, Tidiness, Tidy, Served, Waiting, Fits, Held, Due, Good,
                Coming, Redeemed, Usable, Stored, Keeps, OrderlySingleUse
  <1> QED
    BY <1>1, <1>2, <1>3, <1>4, <1>5, <1>6 DEF ClientsNext, Calls

LEMMA TidinessAlways == ClientsSpec => [](ClientsBase /\ Tidiness)
  BY ClientsBaseAlways, TidinessInit, TidinessNext, PTL DEF ClientsSpec

-----------------------------------------------------------------------------
(* A client that makes one call at a time and misses no answer is taken for *)
(* a thief only over a token that the service took from it, whatever the    *)
(* others do and wherever their requests die (refresh and its reuse         *)
(* detection, every route that revokes tokens, the error handler).          *)
THEOREM BlamedForCause == ClientsSpec => []ThiefOrSpoiled
  <1>1. Tidiness => ThiefOrSpoiled
    BY DEF Tidiness, Tidy, Served, ThiefOrSpoiled, At
  <1> QED
    BY <1>1, TidinessAlways, PTL

(* Its refresh tokens are redeemed once, though the table has no constraint *)
(* that says so and other clients' tokens may be redeemed twice (refresh    *)
(* reads the row, and consumes it two awaits later).                        *)
THEOREM OrderlyOnce == ClientsSpec => []OrderlySingleUse
  <1>1. Tidiness => OrderlySingleUse
    BY DEF Tidiness
  <1> QED
    BY <1>1, TidinessAlways, PTL

LEMMA KeepersHold ==
  ASSUME ClientsBase, Tidiness, NEW c \in Clients, Keeps(c)
  PROVE  HoldsAll(c)
  <1> SUFFICES ASSUME c \in orderly, ~Waiting(c) PROVE UsableElsewhere(c) = {}
    BY DEF HoldsAll, Careful
  <1>1. Fits(c, Held(c))
    BY DEF Tidiness, Tidy
  <1>2. Usable(c) \subseteq {jar[c]}
    BY <1>1 DEF Fits, Held
  <1> QED
    BY <1>2 DEF UsableElsewhere, Usable, Unspent

(* A browser with one call at a time and no answer missed has the only      *)
(* usable token it was ever given in its cookie, so none once it has logged *)
(* out (login, refresh, logout and the cookie they set or clear).           *)
THEOREM BrowsersHold == ClientsSpec => []BrowsersHoldAll
  <1>1. ClientsBase /\ Tidiness => BrowsersHoldAll
    BY KeepersHold DEF BrowsersHoldAll, Keeps
  <1> QED
    BY <1>1, TidinessAlways, PTL

(* The same of every client, native ones too, as long as nobody calls       *)
(* POST /logout: that route alone leaves a native client's token usable.    *)
THEOREM WithoutLogout ==
  ASSUME "logout" \notin Flows
  PROVE  ClientsSpec => []LogoutRevokes
  <1>1. ClientsBase /\ Tidiness => LogoutRevokes
    BY KeepersHold DEF LogoutRevokes, Keeps
  <1> QED
    BY <1>1, TidinessAlways, PTL
=============================================================================
