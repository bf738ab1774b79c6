--------------------------- MODULE EscrowPromise ---------------------------
(***************************************************************************)
(* What an escrow promises its users, with no listings, locks, jobs or     *)
(* requests: a deal is opened, then either called off or paid for, and     *)
(* only a paid deal moves coins, once.  A user's wealth is the whole of    *)
(* the wallet, locked or not.                                              *)
(***************************************************************************)
EXTENDS Integers

CONSTANTS Users, Deals, InitWealth

VARIABLES
  stage,    \* how far each deal is
  deal,     \* who buys, who sells and how much, fixed when the deal is opened
  wealth    \* what each user owns

promiseVars == <<stage, deal, wealth>>

Init ==
  /\ stage = [t \in Deals |-> "none"]
  /\ deal \in [Deals -> [buyer : {0}, seller : {0}, amount : {0}]]
  /\ wealth = [u \in Users |-> InitWealth]

Open(t) ==
  /\ stage[t] = "none"
  /\ stage' = [stage EXCEPT ![t] = "open"]
  /\ \A s \in Deals \ {t} : deal'[s] = deal[s]
  /\ deal'[t].buyer \in Users /\ deal'[t].seller \in Users \ {deal'[t].buyer}
  /\ deal'[t].amount > 0
  /\ UNCHANGED wealth

Pay(t) ==
  /\ stage[t] = "open"
  /\ stage' = [stage EXCEPT ![t] = "paid"]
  /\ UNCHANGED <<deal, wealth>>

CallOff(t) ==
  /\ stage[t] = "open"
  /\ stage' = [stage EXCEPT ![t] = "off"]
  /\ UNCHANGED <<deal, wealth>>

\* One side pays the fees: the seller on top of the amount, or the buyer out
\* of it.  Nobody else's wealth moves.
Settle(t) ==
  LET d == deal[t]
      given    == wealth[d.seller] - wealth'[d.seller]
      received == wealth'[d.buyer] - wealth[d.buyer]
  IN  /\ stage[t] = "paid"
      /\ stage' = [stage EXCEPT ![t] = "done"]
      /\ \A u \in Users \ {d.buyer, d.seller} : wealth'[u] = wealth[u]
      /\ \/ given >= d.amount /\ received = d.amount
         \/ given = d.amount /\ received \in 1..d.amount
      /\ UNCHANGED deal

Next == \E t \in Deals : Open(t) \/ Pay(t) \/ CallOff(t) \/ Settle(t)
Spec == Init /\ [][Next]_promiseVars

=============================================================================
