------------------------------- MODULE Escrow -------------------------------
(***************************************************************************)
(* What a request vault promises, whatever the request is (an order, a     *)
(* deposit, a withdrawal).  Tokens arrive in the vault and belong to       *)
(* nobody; a request that is opened takes a share of the tokens nobody     *)
(* owns; when the request is settled that share leaves the vault, all of   *)
(* it and nothing else, once; and each step is atomic although the         *)
(* transaction behind it runs through several contracts, foreign callbacks *)
(* and rollbacks.  Foreign code may send tokens to the vault meanwhile:    *)
(* they arrive with the step if it succeeds and are sent back if it fails. *)
(*                                                                         *)
(* The module has no code of its own: OrderBook implements it, and so does *)
(* each of the two vaults of LiquidityPool.                                *)
(***************************************************************************)
EXTENDS Sums

CONSTANTS
  MaxRequests,   \* how many requests are ever opened
  Tokens,        \* the tokens a vault can hold
  Wnt            \* the wrapped native token, in which execution fees are paid

VARIABLES
  status,        \* status[k]: "none", "open", "executed" or "cancelled"
  held,          \* held[k][t]: what the vault holds of token t for request k
  vault,         \* vault[t]: what the vault holds of token t
  incoming       \* incoming[t]: what was sent to the vault during the step in
                 \* progress

vars == <<status, held, vault, incoming>>

Requests == 1..MaxRequests
Nothing == [t \in Tokens |-> 0]

HeldOf(t) == Total([k \in Requests |-> held[k][t]], MaxRequests)
Unowned(t) == vault[t] - HeldOf(t)

Init ==
  /\ status = [k \in Requests |-> "none"]
  /\ held = [k \in Requests |-> Nothing]
  /\ vault = Nothing
  /\ incoming = Nothing

\* Tokens are sent to the vault.
Receive ==
  /\ \A t \in Tokens : vault'[t] >= vault[t]
  /\ UNCHANGED <<status, held, incoming>>

\* Tokens are sent to the vault while a step is in progress,
Bring ==
  /\ \A t \in Tokens : incoming'[t] >= incoming[t]
  /\ UNCHANGED <<status, held, vault>>

\* and sent back because it fails.
Undo ==
  /\ incoming' = Nothing
  /\ UNCHANGED <<status, held, vault>>

\* A step is completed in which exactly paid[t] of each token t leaves.
Complete(paid) ==
  /\ \A t \in Tokens : vault'[t] = vault[t] + incoming[t] - paid[t]
  /\ incoming' = Nothing

\* A request is opened with some of the tokens that nobody owns.
Open(k) ==
  /\ status[k] = "none"
  /\ status' = [status EXCEPT ![k] = "open"]
  /\ held' = [held EXCEPT ![k] = held'[k]]
  /\ \A t \in Tokens : held'[k][t] \in 0..Unowned(t)
  /\ UNCHANGED <<vault, incoming>>

\* The owner adds wrapped native tokens to an open request.
TopUp(k) ==
  /\ status[k] = "open"
  /\ held' = [held EXCEPT ![k][Wnt] = held'[k][Wnt]]
  /\ held'[k][Wnt] - held[k][Wnt] \in 0..Unowned(Wnt)
  /\ UNCHANGED <<status, vault, incoming>>

\* An open request pays for a failed attempt and stays open: what leaves the
\* vault is what it holds less.
Charge(k) ==
  /\ status[k] = "open"
  /\ held' = [held EXCEPT ![k][Wnt] = held'[k][Wnt]]
  /\ held'[k][Wnt] \in 0..held[k][Wnt]
  /\ Complete([t \in Tokens |-> held[k][t] - held'[k][t]])
  /\ UNCHANGED status

\* All that is held for an open request leaves the vault, at once, and nothing
\* else does.
Settle(k, how) ==
  /\ status[k] = "open"
  /\ status' = [status EXCEPT ![k] = how]
  /\ held' = [held EXCEPT ![k] = Nothing]
  /\ Complete(held[k])

\* A request the protocol opens and settles in one step takes nothing.
Force(k) ==
  /\ status[k] = "none"
  /\ status' = [status EXCEPT ![k] = "executed"]
  /\ Complete(Nothing)
  /\ UNCHANGED held

Next ==
  \/ Receive \/ Bring \/ Undo
  \/ \E k \in Requests :
       \/ Open(k) \/ TopUp(k) \/ Charge(k) \/ Force(k)
       \/ \E how \in {"executed", "cancelled"} : Settle(k, how)

Spec == Init /\ [][Next]_vars
=============================================================================
