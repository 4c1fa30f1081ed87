--------------------------- MODULE SessionLedger ---------------------------
(***************************************************************************)
(* What a client may rely on about refresh tokens, however requests        *)
(* interleave and wherever they die: the history of tokens as a ledger     *)
(* that knows no tables and no requests.                                   *)
(*                                                                         *)
(* A token opens a family of its own, or succeeds a token of its family    *)
(* that is spent.  It is usable when it is entered, spent some time later  *)
(* and for good.  A worker gives a token at most one successor.  A family  *)
(* that is closed has no usable token, and gets no other token.            *)
(***************************************************************************)
CONSTANTS Tokens, Handlers, None

VARIABLES
  state,   \* of each token: absent, usable or spent
  family,  \* the token that opened the token's family
  parent,  \* the token it was exchanged for, None if it opened its family
  by,      \* the worker that entered it
  closed   \* the families that are closed

vars == <<state, family, parent, by, closed>>

Entered == {t \in Tokens : state[t] # "absent"}

Init ==
  /\ state = [t \in Tokens |-> "absent"]
  /\ family = [t \in Tokens |-> None]
  /\ parent = [t \in Tokens |-> None]
  /\ by = [t \in Tokens |-> None]
  /\ closed = {}

Enter(t, f, p, h) ==
  /\ state[t] = "absent"
  /\ state' = [state EXCEPT ![t] = "usable"]
  /\ family' = [family EXCEPT ![t] = f]
  /\ parent' = [parent EXCEPT ![t] = p]
  /\ by' = [by EXCEPT ![t] = h]
  /\ UNCHANGED closed

(* A login.  The token is new, and no family that is closed is its own. *)
Open(t, h) == t \notin closed /\ Enter(t, t, None, h)

(* A refresh. *)
Succeed(t, p, h) ==
  /\ state[p] = "spent"
  /\ family[p] \notin closed
  /\ ~\E s \in Entered : parent[s] = p /\ by[s] = h
  /\ Enter(t, family[p], p, h)

(* Tokens are spent, and families closed, by refresh, logout, reuse          *)
(* detection and the operations that revoke all a user has.                  *)
Retire ==
  /\ state' \in [Tokens -> {"absent", "usable", "spent"}]
  /\ \A t \in Tokens : \/ state'[t] = state[t]
                       \/ state[t] = "usable" /\ state'[t] = "spent"
  /\ closed \subseteq closed'
  /\ \A f \in closed' \ closed, t \in Entered :
       family[t] = f => state'[t] = "spent"
  /\ UNCHANGED <<family, parent, by>>

Next ==
  \/ Retire
  \/ \E t \in Tokens, h \in Handlers :
       Open(t, h) \/ \E p \in Tokens : Succeed(t, p, h)

Spec == Init /\ [][Next]_vars

-----------------------------------------------------------------------------
(* What a client may conclude from the ledger alone: a family that is closed *)
(* stays without a usable token, a token that was exchanged is spent, what   *)
(* it was exchanged for is of its family, and no worker exchanged it twice   *)
(* (login, refresh, logout).                                                 *)
Promise ==
  /\ \A t \in Entered : family[t] \in closed => state[t] = "spent"
  /\ \A t \in Entered : parent[t] # None =>
       /\ parent[t] \in Tokens
       /\ state[parent[t]] = "spent" /\ family[parent[t]] = family[t]
  /\ \A s, t \in Entered :
       parent[s] # None /\ parent[s] = parent[t] /\ by[s] = by[t] => s = t
=============================================================================
