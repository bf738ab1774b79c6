----------------------------- MODULE ChainProofs -----------------------------
(***************************************************************************)
(* What is true of a call to a chain, as Services runs it: sending an      *)
(* amount keeps its promise for any number of endpoints and whatever the   *)
(* wallets hold, and reading the deposits of an address is exact for a     *)
(* chain, pages, chunks and limits of any length.                          *)
(***************************************************************************)
EXTENDS Services, SumTheorems, SequenceTheorems, FiniteSetTheorems, TLAPS

-----------------------------------------------------------------------------
(* ChainTransfer: a broadcast that may have been executed is never         *)
(* followed by a second one in the same attempt, and an attempt starts     *)
(* over only when what was paid is known to have been lost.                *)

\* Requests that come after the broadcast.
After == {"confirm", "answer", "receipt", "settle"}

\* A plan broadcasts once, asks before and waits after, and ends by waiting or
\* by delegating.
GoodPlan(c, p) ==
  /\ Len(p) \in Nat \ {0}
  /\ \A i, j \in 1..Len(p) : p[i] = "send" /\ p[j] = "send" => i = j
  /\ \A i, j \in 1..Len(p) : p[i] = "send" /\ p[j] \notin After \cup {"send"} => j < i
  /\ c.net # "tron" => \E i \in 1..Len(p) : p[i] = "send"
  /\ p[Len(p)] \in After \cup {"delegate"}
  /\ c.net = "evm" => p[Len(p)] = "receipt"
  /\ c.op = "account" => p[1] = "exists"

LEMMA PlansAreGood == ASSUME NEW c \in Transfer!Calls PROVE GoodPlan(c, Transfer!Plan(c))
<1>1. /\ c.op \in {"withdraw", "sweep", "gas", "account"} /\ c.net \in Transfer!Networks /\ c.token \in BOOLEAN
      /\ c.op = "account" => c.net = "sol"
  BY DEF Transfer!Calls, Transfer!Networks
<1>2. CASE c.op = "account"
  BY <1>1, <1>2 DEF GoodPlan, After, Transfer!Plan, Transfer!AccountFor
<1>3. CASE c.op = "withdraw" /\ c.net = "sol"
  BY <1>1, <1>3 DEF GoodPlan, After, Transfer!Plan, Transfer!SolWithdraw, Transfer!SolWithdrawToken
<1>4. CASE c.op = "withdraw" /\ c.net = "evm"
  BY <1>1, <1>4 DEF GoodPlan, After, Transfer!Plan, Transfer!EvmWithdraw
<1>5. CASE c.op = "withdraw" /\ c.net = "tron"
  BY <1>1, <1>5 DEF GoodPlan, After, Transfer!Plan, Transfer!TronWithdraw
<1>6. CASE c.op = "sweep" /\ c.net = "sol"
  BY <1>1, <1>6 DEF GoodPlan, After, Transfer!Plan, Transfer!SolSweep
<1>7. CASE c.op = "sweep" /\ c.net = "evm"
  BY <1>1, <1>7 DEF GoodPlan, After, Transfer!Plan, Transfer!EvmSweep
<1>8. CASE c.op = "sweep" /\ c.net = "tron"
  BY <1>1, <1>8 DEF GoodPlan, After, Transfer!Plan, Transfer!TronSweep
<1>9. CASE c.op = "gas" /\ c.net = "sol"
  BY <1>1, <1>9 DEF GoodPlan, After, Transfer!Plan, Transfer!SolGas
<1>10. CASE c.op = "gas" /\ c.net = "evm"
  BY <1>1, <1>10 DEF GoodPlan, After, Transfer!Plan, Transfer!EvmGas
<1>11. CASE c.op = "gas" /\ c.net = "tron"
  BY <1>1, <1>11 DEF GoodPlan, After, Transfer!Plan, Transfer!TronGas
<1>12. QED BY <1>1, <1>2, <1>3, <1>4, <1>5, <1>6, <1>7, <1>8, <1>9, <1>10, <1>11 DEF Transfer!Networks

-----------------------------------------------------------------------------
\* While a call is under way, what was paid is what was lost, and the payment
\* of the current attempt; an attempt that has not broadcast has lost nothing.
Sending ==
  /\ paid = unseen + (IF last = "executed" THEN 1 ELSE 0)
  /\ last # "lost" => \A i \in 1..Len(Transfer!Plan(call)) : Transfer!Plan(call)[i] = "send" => (last = "none" <=> at <= i)
  /\ (\A i \in 1..Len(Transfer!Plan(call)) : Transfer!Plan(call)[i] # "send") => last = "none"
  /\ call.op = "account" => at = 1 \/ create

TransferInv ==
  /\ call \in Transfer!Calls /\ at \in 1..Len(Transfer!Plan(call)) /\ create \in BOOLEAN
  /\ last \in {"none", "executed", "failed", "lost"}
  /\ paid \in Nat /\ unseen \in Nat
  /\ result \in {"none", "hash", "null", "error"}
  /\ result = "none" => Sending

PromiseStep == Transfer!Promise!Next \/ UNCHANGED Transfer!Promise!vars

\* A call that ends without a hash, or with one it may return, keeps the promise.
LEMMA CallEndsKeeps ==
  ASSUME TransferInv, result = "none", NEW r \in {"hash", "null", "error"}, Transfer!Ends(r), UNCHANGED <<paid, unseen>>,
         r = "hash" /\ call.net = "evm" => last = "executed"
  PROVE  TransferInv' /\ PromiseStep
<1>1. TransferInv' BY DEF TransferInv, Transfer!Ends, Transfer!callVars
<1>2. Transfer!Promise!Return(r) BY DEF TransferInv, Sending, Transfer!Ends, Transfer!callVars, Transfer!Promise!Return
<1>3. QED BY <1>1, <1>2 DEF PromiseStep, Transfer!Promise!Next

\* Going on to the next request of a plan, at any place but the broadcast.
LEMMA PlanGoesOn ==
  ASSUME TransferInv, result = "none", last # "lost", Transfer!Plan(call)[at] # "send", at < Len(Transfer!Plan(call)), at' = at + 1,
         UNCHANGED <<call, last, result, paid, unseen>>, create' \in BOOLEAN,
         call.op = "account" => create'
  PROVE  TransferInv' /\ PromiseStep
<1>1. GoodPlan(call, Transfer!Plan(call)) BY PlansAreGood DEF TransferInv
<1>2. Transfer!Plan(call)' = Transfer!Plan(call) BY DEF Transfer!Plan
<1>3. at' \in 1..Len(Transfer!Plan(call)) BY <1>1 DEF TransferInv, GoodPlan
<1>4. Sending' BY <1>1, <1>2, <1>3 DEF TransferInv, Sending, GoodPlan
<1>5. QED BY <1>2, <1>3, <1>4 DEF TransferInv, PromiseStep, Transfer!Promise!vars

LEMMA AdvanceKeeps ==
  ASSUME TransferInv, result = "none", last # "lost", Transfer!Plan(call)[at] \notin {"send", "exists"}, Transfer!Advance,
         UNCHANGED <<paid, unseen>>, Transfer!Plan(call)[at] = "receipt" => last = "executed"
  PROVE  TransferInv' /\ PromiseStep
<1>1. GoodPlan(call, Transfer!Plan(call)) BY PlansAreGood DEF TransferInv
<1>2. CASE at < Len(Transfer!Plan(call))
  <2>1. call.op = "account" => create BY <1>1 DEF TransferInv, Sending, GoodPlan
  <2>2. at' = at + 1 /\ UNCHANGED <<call, url, scaled, create, last, result>> BY <1>2 DEF Transfer!Advance
  <2>3. QED BY <1>2, <2>1, <2>2, PlanGoesOn DEF TransferInv
<1>3. CASE ~(at < Len(Transfer!Plan(call)))
  <2>1. at = Len(Transfer!Plan(call)) BY <1>1, <1>3 DEF TransferInv, GoodPlan
  <2>2. call.net = "evm" => last = "executed" BY <1>1, <2>1 DEF GoodPlan
  <2>3. Transfer!Ends("null") \/ Transfer!Ends("hash") BY <1>3 DEF Transfer!Advance
  <2>4. QED BY <2>2, <2>3, CallEndsKeeps
<1>4. QED BY <1>2, <1>3

\* A request that throws when nothing was paid in this attempt, or when its
\* error is swallowed.
LEMMA RequestKeeps ==
  ASSUME TransferInv, result = "none", Transfer!Throws, UNCHANGED <<paid, unseen>>,
         last = "executed" => Transfer!Swallowed
  PROVE  TransferInv' /\ PromiseStep
<1>1. GoodPlan(call, Transfer!Plan(call)) BY PlansAreGood DEF TransferInv
<1>2. CASE Transfer!Ends("null") \/ Transfer!Ends("error") BY <1>2, CallEndsKeeps
<1>3. CASE ~(Transfer!Ends("null") \/ Transfer!Ends("error"))
  <2>1. ~Transfer!Swallowed /\ at' = 1 /\ create' = FALSE /\ last' = "none" /\ UNCHANGED <<call, result>>
    BY <1>3 DEF Transfer!Throws
  <2>2. Transfer!Plan(call)' = Transfer!Plan(call) BY <2>1 DEF Transfer!Plan
  <2>3. paid = unseen BY <2>1 DEF TransferInv, Sending
  <2>4. 1 \in 1..Len(Transfer!Plan(call)) /\ \A i \in 1..Len(Transfer!Plan(call)) : 1 <= i BY <1>1 DEF GoodPlan
  <2>5. Sending' BY <2>1, <2>2, <2>3, <2>4 DEF Sending, TransferInv
  <2>6. QED BY <2>1, <2>2, <2>4, <2>5 DEF TransferInv, PromiseStep, Transfer!Promise!vars
<1>4. QED BY <1>2, <1>3

\* Nothing was paid in an attempt that has still to broadcast.
LEMMA NothingPaidBefore ==
  ASSUME TransferInv, result = "none", last # "lost", Transfer!Plan(call)[at] \notin After
  PROVE  last = "none" /\ paid = unseen
<1>1. GoodPlan(call, Transfer!Plan(call)) BY PlansAreGood DEF TransferInv
<1>2. CASE \E i \in 1..Len(Transfer!Plan(call)) : Transfer!Plan(call)[i] = "send"
  <2>1. PICK i \in 1..Len(Transfer!Plan(call)) : Transfer!Plan(call)[i] = "send" BY <1>2
  <2>2. at <= i BY <1>1, <2>1 DEF GoodPlan, TransferInv
  <2>3. QED BY <2>1, <2>2 DEF TransferInv, Sending
<1>3. CASE \A i \in 1..Len(Transfer!Plan(call)) : Transfer!Plan(call)[i] # "send" BY <1>3 DEF TransferInv, Sending
<1>4. QED BY <1>2, <1>3

\* A request before the broadcast goes on, starts over or ends the call.
LEMMA BeforeKeeps ==
  ASSUME TransferInv, result = "none", last # "lost", Transfer!Plan(call)[at] \notin After \cup {"send", "exists"},
         UNCHANGED <<paid, unseen>>, Transfer!Advance \/ Transfer!Throws \/ Transfer!Ends("null")
  PROVE  TransferInv' /\ PromiseStep
<1>1. last = "none" BY NothingPaidBefore
<1>2. CASE Transfer!Advance BY <1>2, AdvanceKeeps DEF After
<1>3. CASE Transfer!Throws BY <1>1, <1>3, RequestKeeps
<1>4. CASE Transfer!Ends("null") BY <1>4, CallEndsKeeps
<1>5. QED BY <1>2, <1>3, <1>4

\* A request before the broadcast after which something is created or guessed.
LEMMA SkipKeeps ==
  ASSUME TransferInv, result = "none", last # "lost", Transfer!Plan(call)[at] \in {"decimals", "receiver", "exists"},
         at' = at + 1, UNCHANGED <<call, last, result, paid, unseen>>,
         create' = TRUE \/ (create' = create /\ Transfer!Plan(call)[at] # "exists")
  PROVE  TransferInv' /\ PromiseStep
<1>1. GoodPlan(call, Transfer!Plan(call)) BY PlansAreGood DEF TransferInv
<1>2. at < Len(Transfer!Plan(call)) BY <1>1 DEF TransferInv, GoodPlan, After
<1>3. call.op = "account" => create' BY <1>1 DEF TransferInv, Sending, GoodPlan
<1>4. QED BY <1>2, <1>3, PlanGoesOn DEF TransferInv

LEMMA SendKeeps ==
  ASSUME TransferInv, Transfer!Send
  PROVE  TransferInv' /\ PromiseStep
<1>1. GoodPlan(call, Transfer!Plan(call)) BY PlansAreGood DEF TransferInv
<1>2. Transfer!Plan(call)[at] = "send" /\ result = "none" /\ last # "lost" BY DEF Transfer!Send, Transfer!Step
<1>3. last = "none" /\ paid = unseen BY <1>2, NothingPaidBefore DEF After
<1>4. at < Len(Transfer!Plan(call)) BY <1>1, <1>2 DEF TransferInv, GoodPlan, After
<1>5. Transfer!Plan(call)' = Transfer!Plan(call) BY DEF Transfer!Plan, Transfer!Send
<1>6. at' = at + 1 /\ UNCHANGED <<call, create, result, unseen>> BY DEF Transfer!Send
<1>7. \/ last' = "executed" /\ paid' = paid + 1
      \/ last' = "failed" /\ paid' = paid
  BY DEF Transfer!Send, Transfer!Executes, Transfer!chain
<1>8. call.op = "account" => create BY <1>1, <1>2 DEF TransferInv, Sending, GoodPlan
<1>9. Sending' BY <1>1, <1>2, <1>3, <1>4, <1>5, <1>6, <1>7, <1>8 DEF Sending, TransferInv, GoodPlan
<1>10. TransferInv' BY <1>4, <1>5, <1>6, <1>7, <1>9 DEF TransferInv
<1>11. Transfer!Promise!Pay \/ UNCHANGED Transfer!Promise!vars
  BY <1>2, <1>3, <1>6, <1>7 DEF TransferInv, Transfer!Promise!Pay, Transfer!Promise!vars
<1>12. QED BY <1>10, <1>11 DEF PromiseStep, Transfer!Promise!Next

\* A broadcast the caller does not hear of.
LEMMA SendUnseenKeeps ==
  ASSUME TransferInv, Transfer!SendUnseen
  PROVE  TransferInv' /\ PromiseStep
<1>1. Transfer!Plan(call)[at] = "send" /\ result = "none" /\ last # "lost" BY DEF Transfer!SendUnseen, Transfer!Step
<1>2. last = "none" /\ paid = unseen BY <1>1, NothingPaidBefore DEF After
<1>3. /\ paid' = paid + 1 /\ unseen' = unseen + 1 /\ last' = "lost"
      /\ UNCHANGED <<call, at, create, result>>
  BY DEF Transfer!SendUnseen, Transfer!Executes, Transfer!Lost
<1>4. Transfer!Plan(call)' = Transfer!Plan(call) BY <1>3 DEF Transfer!Plan
<1>5. GoodPlan(call, Transfer!Plan(call)) BY PlansAreGood DEF TransferInv
<1>6. Sending' BY <1>1, <1>2, <1>3, <1>4, <1>5 DEF TransferInv, Sending
<1>7. TransferInv' BY <1>3, <1>4, <1>6 DEF TransferInv
<1>8. Transfer!Promise!Pay BY <1>1, <1>2, <1>3 DEF TransferInv, Transfer!Promise!Pay
<1>9. QED BY <1>7, <1>8 DEF PromiseStep, Transfer!Promise!Next

LEMMA WaitUnseenKeeps ==
  ASSUME TransferInv, NEW s, Transfer!WaitUnseen(s)
  PROVE  TransferInv' /\ PromiseStep
<1>1. result = "none" /\ last = "executed" /\ paid = unseen + 1 BY DEF Transfer!WaitUnseen, Transfer!Step, TransferInv, Sending
<1>2. /\ unseen' = unseen + 1 /\ last' = "lost"
      /\ UNCHANGED <<call, at, create, result, paid>>
  BY DEF Transfer!WaitUnseen, Transfer!Lost, Transfer!chain
<1>3. Transfer!Plan(call)' = Transfer!Plan(call) BY <1>2 DEF Transfer!Plan
<1>4. \E i \in 1..Len(Transfer!Plan(call)) : Transfer!Plan(call)[i] = "send" BY <1>1 DEF TransferInv, Sending
<1>5. Sending' BY <1>1, <1>2, <1>3, <1>4 DEF TransferInv, Sending
<1>6. TransferInv' BY <1>2, <1>3, <1>5 DEF TransferInv
<1>7. Transfer!Promise!Unseen BY <1>1, <1>2 DEF TransferInv, Transfer!Promise!Unseen
<1>8. QED BY <1>6, <1>7 DEF PromiseStep, Transfer!Promise!Next

\* What follows the broadcast throws only if nothing was paid, or its error is
\* swallowed.
LEMMA AfterKeeps ==
  ASSUME TransferInv, result = "none", last # "lost", Transfer!Plan(call)[at] \in After, UNCHANGED <<paid, unseen>>,
         \/ Transfer!Advance /\ (Transfer!Plan(call)[at] = "receipt" => last = "executed")
         \/ Transfer!Throws /\ (last = "executed" => call.op = "account" /\ Transfer!Plan(call)[at] = "settle")
  PROVE  TransferInv' /\ PromiseStep
<1>1. GoodPlan(call, Transfer!Plan(call)) BY PlansAreGood DEF TransferInv
<1>2. CASE Transfer!Advance /\ (Transfer!Plan(call)[at] = "receipt" => last = "executed") BY <1>2, AdvanceKeeps DEF After
<1>3. CASE Transfer!Throws /\ (last = "executed" => call.op = "account" /\ Transfer!Plan(call)[at] = "settle")
  <2>1. last = "executed" => Transfer!Swallowed BY <1>1, <1>3 DEF Transfer!Swallowed, GoodPlan, TransferInv, Sending
  <2>2. QED BY <1>3, <2>1, RequestKeeps
<1>4. QED BY <1>2, <1>3

LEMMA TransferKeeps ==
  ASSUME TransferInv, [Transfer!Next]_(Transfer!vars)
  PROVE  TransferInv' /\ PromiseStep
<1>1. CASE Transfer!Read
  BY <1>1, BeforeKeeps DEF Transfer!Read, Transfer!Request, Transfer!Step, Transfer!chain, After
<1>2. CASE Transfer!Decimals
  BY <1>2, BeforeKeeps, SkipKeeps DEF Transfer!Decimals, Transfer!Request, Transfer!Step, Transfer!chain, After
<1>3. CASE Transfer!Holds
  BY <1>3, BeforeKeeps DEF Transfer!Holds, Transfer!Request, Transfer!Step, Transfer!chain, After
<1>4. CASE Transfer!MaybeHolds
  BY <1>4, BeforeKeeps DEF Transfer!MaybeHolds, Transfer!Request, Transfer!Step, Transfer!chain, After
<1>5. CASE Transfer!Receiver
  BY <1>5, BeforeKeeps, SkipKeeps DEF Transfer!Receiver, Transfer!Create, Transfer!Request, Transfer!Step, Transfer!chain, After
<1>6. CASE Transfer!Exists
  BY <1>6, CallEndsKeeps, SkipKeeps DEF Transfer!Exists, Transfer!Create, Transfer!Request, Transfer!Step, Transfer!chain
<1>7. CASE Transfer!RentPaid
  BY <1>7, BeforeKeeps DEF Transfer!RentPaid, Transfer!Request, Transfer!Step, Transfer!chain, After
<1>8. CASE Transfer!PaysFee
  BY <1>8, BeforeKeeps DEF Transfer!PaysFee, Transfer!Request, Transfer!Step, Transfer!chain, After
<1>9. CASE Transfer!Simulate
  BY <1>9, BeforeKeeps DEF Transfer!Simulate, Transfer!Request, Transfer!Step, Transfer!chain, After
<1>10. CASE Transfer!Known
  BY <1>10, BeforeKeeps DEF Transfer!Known, Transfer!Request, Transfer!Step, Transfer!chain, After
<1>11. CASE Transfer!Supports
  BY <1>11, BeforeKeeps DEF Transfer!Supports, Transfer!Step, Transfer!chain, After
<1>12. CASE Transfer!Delegate
  BY <1>12, BeforeKeeps DEF Transfer!Delegate, Transfer!Request, Transfer!Step, Transfer!chain, After
<1>13. CASE Transfer!EnsureGas
  <2>1. Transfer!Step("gas") /\ UNCHANGED <<paid, unseen>> /\ (Transfer!Advance \/ Transfer!Throws) BY <1>13 DEF Transfer!EnsureGas
  <2>2. QED BY <2>1, BeforeKeeps DEF Transfer!Step, After
<1>14. CASE Transfer!Send BY <1>14, SendKeeps
<1>15. CASE Transfer!SendThrows
  <2>1. Transfer!Plan(call)[at] = "send" /\ result = "none" /\ last # "lost" /\ Transfer!Throws /\ UNCHANGED <<paid, unseen>>
    BY <1>15 DEF Transfer!SendThrows, Transfer!Step, Transfer!chain
  <2>2. last = "none" BY <2>1, NothingPaidBefore DEF After
  <2>3. QED BY <2>1, <2>2, RequestKeeps
<1>16. CASE Transfer!SendUnseen BY <1>16, SendUnseenKeeps
<1>17. CASE Transfer!ThrowsUnseen
  BY <1>17, RequestKeeps DEF Transfer!ThrowsUnseen, Transfer!chain
<1>18. CASE Transfer!Confirm
  BY <1>18, AfterKeeps, WaitUnseenKeeps DEF Transfer!Confirm, Transfer!Request, Transfer!Step, Transfer!chain, After
<1>19. CASE Transfer!Answer
  BY <1>19, AfterKeeps, WaitUnseenKeeps DEF Transfer!Answer, Transfer!Request, Transfer!Step, Transfer!chain, After
<1>20. CASE Transfer!Receipt
  BY <1>20, AfterKeeps, WaitUnseenKeeps DEF Transfer!Receipt, Transfer!Request, Transfer!Step, Transfer!chain, After
<1>21. CASE Transfer!Settle
  BY <1>21, AfterKeeps DEF Transfer!Settle, Transfer!Request, Transfer!Step, Transfer!chain, After
<1>22. CASE UNCHANGED Transfer!vars
  <2>1. UNCHANGED <<call, at, create, last, paid, unseen, result>> BY <1>22 DEF Transfer!vars, Transfer!callVars, Transfer!chain
  <2>2. Transfer!Plan(call)' = Transfer!Plan(call) BY <2>1 DEF Transfer!Plan
  <2>3. Sending' <=> Sending BY <2>1, <2>2 DEF Sending
  <2>4. QED BY <2>1, <2>2, <2>3 DEF TransferInv, PromiseStep, Transfer!Promise!vars
<1>23. QED
  BY <1>1, <1>2, <1>3, <1>4, <1>5, <1>6, <1>7, <1>8, <1>9, <1>10, <1>11, <1>12, <1>13, <1>14, <1>15, <1>16,
     <1>17, <1>18, <1>19, <1>20, <1>21, <1>22 DEF Transfer!Next

LEMMA TransferInit == ASSUME Transfer!Init PROVE TransferInv /\ Transfer!Promise!Init
<1>1. GoodPlan(call, Transfer!Plan(call)) BY PlansAreGood DEF Transfer!Init
<1>2. Sending BY <1>1 DEF Transfer!Init, Sending, GoodPlan
<1>3. TransferInv
  <2>1. call \in Transfer!Calls /\ at = 1 /\ create = FALSE /\ last = "none" /\ paid = 0 /\ unseen = 0 /\ result = "none"
    BY DEF Transfer!Init
  <2>2. 1 \in 1..Len(Transfer!Plan(call)) BY <1>1 DEF GoodPlan
  <2>3. QED BY <1>2, <2>1, <2>2 DEF TransferInv
<1>4. (call.net = "evm") \in BOOLEAN OBVIOUS
<1>5. Transfer!Promise!Init BY <1>4 DEF Transfer!Init, Transfer!Promise!Init
<1>6. QED BY <1>3, <1>5

-----------------------------------------------------------------------------
(* The types of a transfer: an attempt pays once at most, so that no more  *)
(* is paid than there are endpoints, and no purse pays what it lacks.      *)

Attempts ==
  /\ url \in 1..NumUrls /\ {scaled, depleted} \subseteq BOOLEAN
  /\ unseen <= paid /\ paid <= IF last \in {"executed", "lost"} THEN url ELSE url - 1
Purses == sender \in [coin : Nat, gas : Nat] /\ fee \in Nat /\ account \in BOOLEAN

LEMMA TransferConstants == NumUrls \in Nat \ {0} /\ Funds \subseteq Nat
  BY ServicesAssumption DEF Transfer!Parameters

\* A request goes on, is passed over, throws or ends the call.
Answered ==
  \/ Transfer!Advance \/ Transfer!Throws
  \/ \E r : Transfer!Ends(r) /\ depleted' \in BOOLEAN
  \/ scaled' \in BOOLEAN /\ UNCHANGED <<url, last, depleted>>

LEMMA AttemptsGoOn ==
  ASSUME TransferInv, Attempts, Answered, UNCHANGED <<paid, unseen>>
  PROVE  Attempts'
<1>1. CASE scaled' \in BOOLEAN /\ depleted' \in BOOLEAN /\ UNCHANGED <<url, last>>
  BY <1>1 DEF Attempts
<1>2. CASE scaled' = FALSE /\ depleted' = depleted /\ url < NumUrls /\ url' = url + 1 /\ last' = "none"
  <2>1. {scaled', depleted'} \subseteq BOOLEAN
    BY <1>2 DEF Attempts
  <2>2. url \in Nat /\ url' \in 1..NumUrls /\ url = url' - 1
    BY <1>2, TransferConstants DEF Attempts
  <2>3. unseen' <= paid' /\ paid' <= url' - 1
    BY <1>2, <2>2 DEF Attempts, TransferInv
  <2>4. QED BY <1>2, <2>1, <2>2, <2>3 DEF Attempts
<1>3. scaled \in BOOLEAN /\ depleted \in BOOLEAN
  BY DEF Attempts
<1>4. Transfer!Advance \/ (\E r : Transfer!Ends(r) /\ depleted' \in BOOLEAN) =>
        scaled' \in BOOLEAN /\ depleted' \in BOOLEAN /\ UNCHANGED <<url, last>>
  BY <1>3 DEF Transfer!Advance, Transfer!Ends, Transfer!callVars
<1>5. CASE Transfer!Throws
  <2>1. CASE Transfer!Swallowed
    BY <1>1, <1>3, <1>5, <2>1 DEF Transfer!Throws, Transfer!Ends, Transfer!callVars
  <2>2. CASE ~Transfer!Swallowed
    BY <1>1, <1>2, <1>3, <1>5, <2>2 DEF Transfer!Throws, Transfer!Ends, Transfer!callVars
  <2>3. QED BY <2>1, <2>2
<1>6. QED BY <1>1, <1>3, <1>4, <1>5 DEF Answered

\* A transaction executes if its purses hold what it takes from them.
LEMMA PursesPay ==
  ASSUME TransferInv, Purses, scaled \in BOOLEAN, Transfer!Executes
  PROVE  Purses'
<1>1. call.op \in {"withdraw", "sweep", "gas", "account"} /\ call.net \in Transfer!Networks /\ call.token \in BOOLEAN
      /\ (call.op \in {"gas", "account"} => ~call.token)
  BY DEF TransferInv, Transfer!Calls, Transfer!Networks
<1>2. Transfer!Sent \in Nat /\ Transfer!Cost \in Nat
  BY DEF Transfer!Sent, Transfer!Cost, Transfer!Amount, Transfer!TxFee, Transfer!Rent
<1>3. sender.coin \in Nat /\ sender.gas \in Nat /\ fee \in Nat /\ account \in BOOLEAN /\ create \in BOOLEAN
  BY DEF Purses, TransferInv
<1>4. account' \in BOOLEAN
  BY <1>3 DEF Transfer!Executes
<1>5. /\ Transfer!Holding >= Transfer!Sent + (IF Transfer!Same THEN Transfer!Cost ELSE 0)
      /\ (IF Transfer!FeePayer = "fee" THEN fee ELSE sender.gas) >= Transfer!Cost
  BY DEF Transfer!Executes, Transfer!Executable
<1>6. /\ fee' = fee - (IF call.op = "gas" THEN Transfer!Sent ELSE 0)
                    - (IF Transfer!FeePayer = "fee" THEN Transfer!Cost ELSE 0)
      /\ sender' = [coin |-> sender.coin - (IF call.token THEN Transfer!Sent ELSE 0),
                    gas  |-> sender.gas - (IF call.op \in {"withdraw", "sweep"} /\ ~call.token THEN Transfer!Sent ELSE 0)
                                        - (IF Transfer!FeePayer = "sender" THEN Transfer!Cost ELSE 0)]
  BY DEF Transfer!Executes
<1> HIDE DEF Transfer!Executes
<1>7. CASE call.op \in {"gas", "account"}
  <2>1. Transfer!Holding = fee /\ Transfer!Same /\ Transfer!FeePayer = "fee" /\ ~call.token
    BY <1>1, <1>7 DEF Transfer!Holding, Transfer!Same, Transfer!FeePayer
  <2>2. QED BY <1>2, <1>3, <1>4, <1>5, <1>6, <1>7, <2>1 DEF Purses
<1>8. CASE call.op = "withdraw" /\ call.net = "sol"
  <2>1. Transfer!Holding = (IF call.token THEN sender.coin ELSE sender.gas) /\ ~Transfer!Same /\ Transfer!FeePayer = "fee"
    BY <1>1, <1>8 DEF Transfer!Holding, Transfer!Same, Transfer!FeePayer
  <2>2. QED BY <1>1, <1>2, <1>3, <1>4, <1>5, <1>6, <1>8, <2>1 DEF Purses
<1>9. CASE call.op = "sweep" \/ (call.op = "withdraw" /\ call.net # "sol")
  <2>1. /\ Transfer!Holding = (IF call.token THEN sender.coin ELSE sender.gas)
        /\ Transfer!Same <=> ~call.token
        /\ Transfer!FeePayer = "sender"
    BY <1>1, <1>9 DEF Transfer!Holding, Transfer!Same, Transfer!FeePayer
  <2>2. QED BY <1>1, <1>2, <1>3, <1>4, <1>5, <1>6, <1>9, <2>1 DEF Purses
<1>10. QED BY <1>1, <1>7, <1>8, <1>9

LEMMA GasIsEnsured ==
  ASSUME TransferInv, Attempts, Purses, Transfer!EnsureGas
  PROVE  Attempts' /\ Purses'
<1>1. Attempts'
  BY AttemptsGoOn DEF Transfer!EnsureGas, Answered
<1>2. PICK min \in Nat : \/ UNCHANGED <<sender, fee>>
                         \/ /\ sender.gas < min /\ fee >= (min - sender.gas) + 1
                            /\ sender' = [sender EXCEPT !.gas = min] /\ fee' = fee - (min - sender.gas) - 1
  BY DEF Transfer!EnsureGas, Transfer!TxFee, Transfer!Amount
<1>3. account' = account
  BY DEF Transfer!EnsureGas
<1>4. QED BY <1>1, <1>2, <1>3 DEF Purses

LEMMA TransferTypesKeep ==
  ASSUME TransferInv, Attempts, Purses, [Transfer!Next]_(Transfer!vars)
  PROVE  Attempts' /\ Purses'
<1>0. scaled \in BOOLEAN /\ depleted \in BOOLEAN /\ account \in BOOLEAN
  BY DEF Attempts, Purses
<1>1. ASSUME Answered, UNCHANGED <<sender, fee, account, paid, unseen>>
      PROVE  Attempts' /\ Purses'
  BY <1>1, AttemptsGoOn DEF Purses
<1>2. CASE Transfer!Read \/ Transfer!Holds \/ Transfer!MaybeHolds \/ Transfer!PaysFee \/ Transfer!Simulate
  BY <1>1, <1>2 DEF Transfer!Read, Transfer!Holds, Transfer!MaybeHolds, Transfer!PaysFee, Transfer!Simulate,
     Transfer!Request, Transfer!chain, Answered
<1>3. CASE Transfer!Decimals \/ Transfer!Receiver \/ Transfer!Exists
  BY <1>0, <1>1, <1>3 DEF Transfer!Decimals, Transfer!Receiver, Transfer!Exists, Transfer!Create,
     Transfer!Request, Transfer!chain, Answered
<1>4. CASE Transfer!RentPaid \/ Transfer!Known \/ Transfer!Supports \/ Transfer!Delegate
  BY <1>0, <1>1, <1>4 DEF Transfer!RentPaid, Transfer!Known, Transfer!Supports, Transfer!Delegate,
     Transfer!Request, Transfer!chain, Answered
<1>5. CASE Transfer!EnsureGas
  BY <1>5, GasIsEnsured
<1>6. CASE Transfer!Send
  <2>1. /\ Transfer!Plan(call)[at] = "send" /\ result = "none" /\ last # "lost"
        /\ UNCHANGED <<depleted, unseen, url, scaled>>
        /\ \/ Transfer!Executes /\ last' = "executed"
           \/ UNCHANGED Transfer!chain /\ last' = "failed"
    BY <1>6 DEF Transfer!Send, Transfer!Step
  <2>2. last = "none"
    BY <2>1, NothingPaidBefore DEF After
  <2>3. paid' \in {paid, paid + 1} /\ (last' = "failed" => paid' = paid) /\ last' \in {"executed", "failed"}
    BY <2>1 DEF Transfer!Executes, Transfer!chain
  <2>4. Attempts'
    BY <2>1, <2>2, <2>3 DEF Attempts, TransferInv
  <2>5. Purses'
    BY <1>0, <2>1, PursesPay DEF Purses, Transfer!chain
  <2>6. QED BY <2>4, <2>5
<1>7. CASE Transfer!SendThrows \/ Transfer!ThrowsUnseen
  BY <1>1, <1>7 DEF Transfer!SendThrows, Transfer!ThrowsUnseen, Transfer!chain, Answered
<1>8. CASE Transfer!SendUnseen
  <2>1. /\ Transfer!Plan(call)[at] = "send" /\ result = "none" /\ last # "lost" /\ Transfer!Executes
        /\ last' = "lost" /\ unseen' = unseen + 1 /\ paid' = paid + 1 /\ UNCHANGED <<url, scaled, depleted>>
    BY <1>8 DEF Transfer!SendUnseen, Transfer!Step, Transfer!Executes, Transfer!Lost
  <2>2. last = "none"
    BY <2>1, NothingPaidBefore DEF After
  <2>3. Attempts'
    BY <2>1, <2>2 DEF Attempts, TransferInv
  <2>4. QED BY <1>0, <2>1, <2>3, PursesPay
<1>9. ASSUME NEW s, Transfer!WaitUnseen(s)
      PROVE  Attempts' /\ Purses'
  <2>1. /\ result = "none" /\ last = "executed" /\ last' = "lost" /\ unseen' = unseen + 1
        /\ UNCHANGED <<url, scaled, depleted, sender, fee, account, paid>>
    BY <1>9 DEF Transfer!WaitUnseen, Transfer!Step, Transfer!Lost, Transfer!chain
  <2>2. paid = unseen + 1
    BY <2>1 DEF TransferInv, Sending
  <2>3. Attempts'
    BY <2>1, <2>2 DEF Attempts, TransferInv
  <2>4. QED BY <2>1, <2>3 DEF Purses
<1>10. CASE Transfer!Confirm \/ Transfer!Answer \/ Transfer!Receipt \/ Transfer!Settle
  BY <1>1, <1>9, <1>10 DEF Transfer!Confirm, Transfer!Answer, Transfer!Receipt, Transfer!Settle,
     Transfer!Request, Transfer!chain, Answered
<1>11. CASE UNCHANGED Transfer!vars
  BY <1>11 DEF Attempts, Purses, Transfer!vars, Transfer!callVars, Transfer!chain
<1>12. QED
  BY <1>2, <1>3, <1>4, <1>5, <1>6, <1>7, <1>8, <1>10, <1>11 DEF Transfer!Next

LEMMA TransferTypesInit == ASSUME Transfer!Init PROVE Attempts /\ Purses
<1>1. sender \in [coin : {0} \cup Funds, gas : {0} \cup Funds] /\ fee \in {0} \cup Funds
      /\ account \in BOOLEAN /\ depleted \in BOOLEAN /\ scaled = FALSE
      /\ url = 1 /\ last = "none" /\ paid = 0 /\ unseen = 0
  BY DEF Transfer!Init
<1>2. {scaled, depleted} \subseteq BOOLEAN
  BY <1>1
<1>3. Attempts
  BY <1>1, <1>2, TransferConstants DEF Attempts
<1>4. {0} \cup Funds \subseteq Nat
  BY TransferConstants
<1>5. QED BY <1>1, <1>3, <1>4 DEF Purses

LEMMA TransferIsTyped == ASSUME TransferInv, Attempts, Purses PROVE Transfer!TypeOK
<1>1. url \in 1..NumUrls /\ paid \in Nat /\ unseen \in Nat /\ unseen <= paid /\ paid <= url
  BY DEF TransferInv, Attempts
<1>2. paid \in 0..NumUrls /\ unseen \in 0..NumUrls
  BY <1>1, TransferConstants
<1>3. {scaled, create, account, depleted} \subseteq BOOLEAN
  BY DEF TransferInv, Attempts, Purses
<1>4. QED BY <1>1, <1>2, <1>3 DEF TransferInv, Purses, Transfer!TypeOK

-----------------------------------------------------------------------------
(* ChainScan: the deposits that are found are a list, without repetition,  *)
(* of those in the blocks or rows that were looked at, so long as no       *)
(* request failed and the limits are met.                                  *)

\* What is kept of the first n rows.
IsKept(p, from, S, n) ==
  p = [i \in 0..n |-> IF i = 0 THEN <<>> ELSE p[i - 1] \o (IF from[i] \in S THEN <<from[i]>> ELSE <<>>)]

LEMMA KeptExists ==
  ASSUME NEW from, NEW S, NEW n \in Nat
  PROVE  \E p : IsKept(p, from, S, n)
<1> DEFINE T == {m \in 0..n : \E p : IsKept(p, from, S, m)}
<1>1. 0 \in T
  <2>1. IsKept([i \in 0..0 |-> <<>>], from, S, 0) BY DEF IsKept
  <2>2. QED BY <2>1
<1>2. ASSUME NEW m \in 0..n, m + 1 \in 0..n, m \in T PROVE m + 1 \in T
  <2>1. PICK p : IsKept(p, from, S, m) BY <1>2
  <2> DEFINE more == IF from[m + 1] \in S THEN <<from[m + 1]>> ELSE <<>>
  <2> DEFINE q == [i \in 0..(m + 1) |-> IF i = m + 1 THEN p[m] \o more ELSE p[i]]
  <2>2. \A i \in 0..m : p[i] = IF i = 0 THEN <<>> ELSE p[i - 1] \o (IF from[i] \in S THEN <<from[i]>> ELSE <<>>)
    BY <2>1 DEF IsKept
  <2>3. \A i \in 0..(m + 1) :
          q[i] = IF i = 0 THEN <<>> ELSE q[i - 1] \o (IF from[i] \in S THEN <<from[i]>> ELSE <<>>)
    <3>1. m \in Nat /\ m + 1 \in 0..(m + 1) /\ m + 1 # 0 /\ m # m + 1 /\ (m + 1) - 1 = m /\ m \in 0..(m + 1) BY <1>2
    <3>2. q[m + 1] = p[m] \o more /\ q[m] = p[m] BY <3>1
    <3>3. \A i \in 0..m : q[i] = p[i] /\ (i # 0 => i - 1 \in 0..m) BY <3>1
    <3> HIDE DEF q
    <3>4. \A i \in 0..m : i # 0 => q[i - 1] = p[i - 1] BY <3>3
    <3>5. \A i \in 0..(m + 1) : i = m + 1 \/ i \in 0..m BY <3>1
    <3>6. QED BY <2>2, <3>1, <3>2, <3>3, <3>4, <3>5
  <2>4. IsKept(q, from, S, m + 1)
    BY <2>3 DEF IsKept
  <2>5. QED BY <1>2, <2>4
<1> HIDE DEF T
<1>3. 0..n \subseteq T BY <1>1, <1>2, Induction
<1>4. QED BY <1>3 DEF T

\* The rows that are kept are those of S, in their order.
InOrder(out, from, S, n) ==
  \E f \in [1..Len(out) -> 1..n] :
    /\ \A k \in 1..Len(out) : out[k] = from[f[k]] /\ out[k] \in S
    /\ \A k, l \in 1..Len(out) : k < l => f[k] < f[l]
    /\ \A i \in 1..n : from[i] \in S => \E k \in 1..Len(out) : f[k] = i

LEMMA InOrderMore ==
  ASSUME NEW D, NEW from \in Seq(D), NEW S, NEW n \in Nat, n < Len(from),
         NEW out \in Seq(D), InOrder(out, from, S, n)
  PROVE  LET more == IF from[n + 1] \in S THEN <<from[n + 1]>> ELSE <<>>
         IN  out \o more \in Seq(D) /\ InOrder(out \o more, from, S, n + 1)
<1> DEFINE L == Len(out)
<1>0. L \in Nat /\ from[n + 1] \in D OBVIOUS
<1>1. PICK f \in [1..L -> 1..n] :
        /\ \A k \in 1..L : out[k] = from[f[k]] /\ out[k] \in S
        /\ \A k, l \in 1..L : k < l => f[k] < f[l]
        /\ \A i \in 1..n : from[i] \in S => \E k \in 1..L : f[k] = i
  BY DEF InOrder
<1>2. CASE from[n + 1] \notin S
  <2>1. out \o <<>> = out OBVIOUS
  <2>2. f \in [1..L -> 1..(n + 1)] BY <1>1
  <2>3. \A i \in 1..(n + 1) : from[i] \in S => \E k \in 1..L : f[k] = i
    BY <1>1, <1>2
  <2>4. InOrder(out, from, S, n + 1) BY <1>1, <2>2, <2>3 DEF InOrder
  <2>5. QED BY <1>2, <2>1, <2>4
<1>3. CASE from[n + 1] \in S
  <2> DEFINE e == from[n + 1]
             q == out \o <<e>>
             g == [k \in 1..(L + 1) |-> IF k = L + 1 THEN n + 1 ELSE f[k]]
  <2>1. q \in Seq(D) /\ Len(q) = L + 1 /\ (\A k \in 1..L : q[k] = out[k]) /\ q[L + 1] = e
    BY <1>0
  <2>2. g \in [1..(L + 1) -> 1..(n + 1)] BY <1>0, <1>1
  <2>3. (\A k \in 1..L : g[k] = f[k] /\ k \in 1..(L + 1)) /\ g[L + 1] = n + 1 /\ L + 1 \in 1..(L + 1)
    BY <1>0
  <2> HIDE DEF q, g, L
  <2>4. \A k \in 1..(L + 1) : k = L + 1 \/ k \in 1..L BY <1>0
  <2>5. \A k \in 1..(L + 1) : q[k] = from[g[k]] /\ q[k] \in S
    BY <1>1, <1>3, <2>1, <2>3, <2>4
  <2>6. \A k, l \in 1..(L + 1) : k < l => g[k] < g[l]
    <3> SUFFICES ASSUME NEW k \in 1..(L + 1), NEW l \in 1..(L + 1), k < l PROVE g[k] < g[l]
      OBVIOUS
    <3>1. k \in 1..L /\ f[k] \in 1..n /\ g[k] = f[k] BY <1>0, <1>1, <2>3
    <3>2. CASE l = L + 1 BY <3>1, <3>2, <2>3
    <3>3. CASE l \in 1..L BY <3>1, <3>3, <2>3, <1>1
    <3>4. QED BY <3>2, <3>3, <2>4
  <2>7. \A i \in 1..(n + 1) : from[i] \in S => \E k \in 1..(L + 1) : g[k] = i
    <3> SUFFICES ASSUME NEW i \in 1..(n + 1), from[i] \in S PROVE \E k \in 1..(L + 1) : g[k] = i
      OBVIOUS
    <3>1. CASE i = n + 1 BY <3>1, <2>3
    <3>2. CASE i \in 1..n BY <3>2, <1>1, <2>3
    <3>3. QED BY <3>1, <3>2
  <2>8. InOrder(q, from, S, n + 1)
    <3>1. Len(q) = L + 1 BY <2>1
    <3>2. QED BY ONLY <3>1, <2>2, <2>5, <2>6, <2>7 DEF InOrder
  <2>9. QED BY <1>3, <2>1, <2>8 DEF q
<1>4. QED BY <1>2, <1>3

LEMMA OnlyInOrder ==
  ASSUME NEW D, NEW from \in Seq(D), NEW S
  PROVE  Scan!Only(from, S) \in Seq(D) /\ InOrder(Scan!Only(from, S), from, S, Len(from))
<1> DEFINE n == Len(from)
           p == CHOOSE p : IsKept(p, from, S, n)
           T == {m \in 0..n : p[m] \in Seq(D) /\ InOrder(p[m], from, S, m)}
<1>0. n \in Nat OBVIOUS
<1>1. IsKept(p, from, S, n) BY <1>0, KeptExists
<1>2. Scan!Only(from, S) = p[n] BY DEF Scan!Only, IsKept
<1> HIDE DEF p
<1>3. \A i \in 0..n : p[i] = IF i = 0 THEN <<>> ELSE p[i - 1] \o (IF from[i] \in S THEN <<from[i]>> ELSE <<>>)
  BY <1>1 DEF IsKept
<1>4. 0 \in T
  <2>0. 0 \in 0..n BY <1>0
  <2>1. p[0] = <<>> BY ONLY <1>3, <2>0
  <2>2. InOrder(<<>>, from, S, 0)
    <3>1. Len(<<>>) = 0 /\ 1..0 = {} OBVIOUS
    <3>2. [k \in {} |-> k] \in [{} -> {}] OBVIOUS
    <3>3. QED BY <3>1, <3>2 DEF InOrder
  <2>3. p[0] \in Seq(D) /\ InOrder(p[0], from, S, 0)
    <3>1. <<>> \in Seq(D) OBVIOUS
    <3>2. QED BY ONLY <3>1, <2>1, <2>2
  <2>4. QED BY <2>0, <2>3
<1>5. ASSUME NEW m \in 0..n, m + 1 \in 0..n, m \in T PROVE m + 1 \in T
  <2> DEFINE more == IF from[m + 1] \in S THEN <<from[m + 1]>> ELSE <<>>
  <2>0. m + 1 # 0 /\ (m + 1) - 1 = m BY <1>5
  <2>1. p[m + 1] = p[m] \o more BY <1>3, <1>5, <2>0
  <2>2. p[m] \o more \in Seq(D) /\ InOrder(p[m] \o more, from, S, m + 1)
    BY <1>5, InOrderMore
  <2>3. QED BY <1>5, <2>1, <2>2
<1> HIDE DEF T
<1>6. 0..n \subseteq T BY <1>0, <1>4, <1>5, Induction
<1>7. QED BY <1>0, <1>2, <1>6 DEF T
\* A list has each member of a set once.
Lists(s, D) ==
  /\ s \in Seq(D) /\ (\A b \in D : \E k \in 1..Len(s) : s[k] = b)
  /\ \A k, l \in 1..Len(s) : s[k] = s[l] => k = l

LEMMA NothingListed == Lists(<<>>, {})
  BY DEF Lists

LEMMA OnlyLists ==
  ASSUME NEW D, NEW from, Lists(from, D), NEW S
  PROVE  Lists(Scan!Only(from, S), D \cap S)
<1> DEFINE out == Scan!Only(from, S)
<1>0. /\ from \in Seq(D) /\ \A b \in D : \E k \in 1..Len(from) : from[k] = b
      /\ \A k, l \in 1..Len(from) : from[k] = from[l] => k = l
  BY DEF Lists
<1>1. out \in Seq(D) /\ InOrder(out, from, S, Len(from)) BY <1>0, OnlyInOrder
<1> HIDE DEF out
<1>2. PICK f \in [1..Len(out) -> 1..Len(from)] :
        /\ \A k \in 1..Len(out) : out[k] = from[f[k]] /\ out[k] \in S
        /\ \A k, l \in 1..Len(out) : k < l => f[k] < f[l]
        /\ \A i \in 1..Len(from) : from[i] \in S => \E k \in 1..Len(out) : f[k] = i
  BY <1>1 DEF InOrder
<1>3. out \in Seq(D \cap S)
  <2>1. \A k \in 1..Len(out) : out[k] \in D \cap S BY <1>1, <1>2
  <2>2. QED BY <1>1, <2>1
<1>4. \A b \in D \cap S : \E k \in 1..Len(out) : out[k] = b
  <2> SUFFICES ASSUME NEW b \in D \cap S PROVE \E k \in 1..Len(out) : out[k] = b OBVIOUS
  <2>1. PICK i \in 1..Len(from) : from[i] = b BY <1>0
  <2>2. PICK k \in 1..Len(out) : f[k] = i BY <1>2, <2>1
  <2>3. QED BY <1>2, <2>1, <2>2
<1>5. \A k, l \in 1..Len(out) : out[k] = out[l] => k = l
  <2> SUFFICES ASSUME NEW k \in 1..Len(out), NEW l \in 1..Len(out), out[k] = out[l] PROVE k = l OBVIOUS
  <2>0. f[k] \in 1..Len(from) /\ f[l] \in 1..Len(from) /\ from[f[k]] = from[f[l]] BY <1>2
  <2>1. f[k] = f[l] BY ONLY <1>0, <2>0
  <2>2. \A i \in 1..Len(from) : ~(i < i) BY <1>0
  <2>3. ~(k < l) /\ ~(l < k) BY <1>2, <2>0, <2>1, <2>2
  <2>4. QED BY <2>3, <1>1
<1>6. QED BY <1>3, <1>4, <1>5 DEF Lists, out

LEMMA ListsBoth ==
  ASSUME NEW D, NEW E, NEW s, NEW t, Lists(s, D), Lists(t, E), D \cap E = {}
  PROVE  Lists(s \o t, D \cup E)
<1>1. /\ s \in Seq(D) /\ (\A b \in D : \E k \in 1..Len(s) : s[k] = b)
      /\ \A k, l \in 1..Len(s) : s[k] = s[l] => k = l
  BY DEF Lists
<1>2. /\ t \in Seq(E) /\ (\A b \in E : \E k \in 1..Len(t) : t[k] = b)
      /\ \A k, l \in 1..Len(t) : t[k] = t[l] => k = l
  BY DEF Lists
<1> DEFINE u == s \o t
<1>3. s \in Seq(D \cup E) /\ t \in Seq(D \cup E) /\ Len(s) \in Nat /\ Len(t) \in Nat
  BY <1>1, <1>2, SeqMonotonic
<1>4. /\ u \in Seq(D \cup E) /\ Len(u) = Len(s) + Len(t)
      /\ \A i \in 1..Len(s) + Len(t) : u[i] = IF i <= Len(s) THEN s[i] ELSE t[i - Len(s)]
  BY <1>3, ConcatProperties
<1> HIDE DEF u
<1>5. \A i \in 1..Len(u) : \/ i \in 1..Len(s) /\ u[i] = s[i] /\ s[i] \in D
                           \/ i - Len(s) \in 1..Len(t) /\ u[i] = t[i - Len(s)] /\ t[i - Len(s)] \in E
  <2> SUFFICES ASSUME NEW i \in 1..Len(u)
               PROVE  \/ i \in 1..Len(s) /\ u[i] = s[i] /\ s[i] \in D
                      \/ i - Len(s) \in 1..Len(t) /\ u[i] = t[i - Len(s)] /\ t[i - Len(s)] \in E
    OBVIOUS
  <2>1. CASE i <= Len(s)
    <3>1. i \in 1..Len(s) /\ u[i] = s[i] BY <2>1, <1>3, <1>4
    <3>2. QED BY <3>1, <1>1
  <2>2. CASE ~(i <= Len(s))
    <3>1. i - Len(s) \in 1..Len(t) /\ u[i] = t[i - Len(s)] BY <2>2, <1>3, <1>4
    <3>2. QED BY <3>1, <1>2
  <2>3. QED BY <2>1, <2>2
<1>6. \A b \in D \cup E : \E k \in 1..Len(u) : u[k] = b
  <2> SUFFICES ASSUME NEW b \in D \cup E PROVE \E k \in 1..Len(u) : u[k] = b OBVIOUS
  <2>1. CASE b \in D
    <3>1. PICK k \in 1..Len(s) : s[k] = b BY <2>1, <1>1
    <3>2. k \in 1..Len(u) /\ u[k] = s[k] BY <1>3, <1>4
    <3>3. QED BY <3>1, <3>2
  <2>2. CASE b \in E
    <3>1. PICK k \in 1..Len(t) : t[k] = b BY <2>2, <1>2
    <3>2. k + Len(s) \in 1..Len(u) /\ ~(k + Len(s) <= Len(s)) /\ (k + Len(s)) - Len(s) = k BY <1>3, <1>4
    <3>3. u[k + Len(s)] = t[k] BY <3>2, <1>4
    <3>4. QED BY <3>1, <3>2, <3>3
  <2>3. QED BY <2>1, <2>2
<1>7. \A k, l \in 1..Len(u) : u[k] = u[l] => k = l
  <2> SUFFICES ASSUME NEW k \in 1..Len(u), NEW l \in 1..Len(u), u[k] = u[l] PROVE k = l OBVIOUS
  <2>0. k \in Int /\ l \in Int /\ Len(s) \in Nat BY <1>3, <1>4
  <2>1. CASE u[k] \in D
    <3>1. k \in 1..Len(s) /\ l \in 1..Len(s) /\ s[k] = s[l] BY <2>1, <1>5
    <3>2. QED BY <3>1, <1>1
  <2>2. CASE u[k] \notin D
    <3>1. k - Len(s) \in 1..Len(t) /\ l - Len(s) \in 1..Len(t) /\ t[k - Len(s)] = t[l - Len(s)] BY <2>2, <1>5
    <3>2. k - Len(s) = l - Len(s) BY <3>1, <1>2
    <3>3. QED BY <3>2, <2>0
  <2>3. QED BY <2>1, <2>2
<1>8. QED BY <1>4, <1>6, <1>7 DEF Lists, u

LEMMA ListsPart ==
  ASSUME NEW D, NEW s, Lists(s, D), NEW m \in Nat \ {0}, NEW n \in 0..Len(s)
  PROVE  Lists(SubSeq(s, m, n), {s[i] : i \in m..n})
<1> DEFINE u == SubSeq(s, m, n)
           E == {s[i] : i \in m..n}
<1>0. /\ s \in Seq(D) /\ Len(s) \in Nat /\ n \in Nat /\ m..n \subseteq 1..Len(s)
      /\ \A k, l \in 1..Len(s) : s[k] = s[l] => k = l
  BY DEF Lists
<1>1. /\ u \in Seq(E) /\ Len(u) = (IF m <= n THEN n - m + 1 ELSE 0)
      /\ \A i \in 1..n - m + 1 : u[i] = s[m + i - 1]
  <2>1. \A i \in m..n : s[i] \in E OBVIOUS
  <2>2. QED BY <1>0, <2>1, SubSeqProperties
<1> HIDE DEF u
<1>2. \A i \in 1..Len(u) : i \in 1..n - m + 1 /\ m + i - 1 \in m..n BY <1>0, <1>1
<1>3. \A b \in E : \E k \in 1..Len(u) : u[k] = b
  <2> SUFFICES ASSUME NEW i \in m..n PROVE \E k \in 1..Len(u) : u[k] = s[i] OBVIOUS
  <2>1. i - m + 1 \in 1..Len(u) /\ i - m + 1 \in 1..n - m + 1 /\ m + (i - m + 1) - 1 = i BY <1>0, <1>1
  <2>2. u[i - m + 1] = s[i] BY <1>1, <2>1
  <2>3. QED BY <2>1, <2>2
<1>4. \A k, l \in 1..Len(u) : u[k] = u[l] => k = l
  <2> SUFFICES ASSUME NEW k \in 1..Len(u), NEW l \in 1..Len(u), u[k] = u[l] PROVE k = l OBVIOUS
  <2>1. s[m + k - 1] = s[m + l - 1] /\ m + k - 1 \in 1..Len(s) /\ m + l - 1 \in 1..Len(s) BY <1>0, <1>1, <1>2
  <2>2. m + k - 1 = m + l - 1 BY <1>0, <2>1
  <2>3. QED BY <2>2
<1>5. QED BY <1>1, <1>3, <1>4 DEF Lists, u

\* A list is as long as its set is large.
LEMMA ListsCount ==
  ASSUME NEW D, NEW s, Lists(s, D)
  PROVE  IsFiniteSet(D) /\ Cardinality(D) = Len(s)
<1>1. Len(s) \in Nat /\ s \in [1..Len(s) -> D]
      /\ (\A b \in D : \E k \in 1..Len(s) : s[k] = b) /\ \A k, l \in 1..Len(s) : s[k] = s[l] => k = l
  BY DEF Lists
<1>2. s \in Bijection(1..Len(s), D)
  BY <1>1 DEF Bijection, Injection, Surjection, IsInjective
<1>3. QED BY <1>1, <1>2, FS_CountingElements, FS_NatBijection DEF ExistsBijection

LEMMA ListsFewer ==
  ASSUME NEW D, NEW E, NEW s, NEW t, Lists(s, D), Lists(t, E), D \subseteq E
  PROVE  Len(s) <= Len(t)
  BY ListsCount, FS_Subset
-----------------------------------------------------------------------------
LEMMA ScanConstants ==
  /\ {NumBlocks, Recent, PageSize, Chunk, MaxTxs, BlocksBack, LogsBack, NumUrls} \subseteq Nat \ {0}
  /\ PageSize <= MaxTxs /\ Scan!Blocks = 1..NumBlocks
  BY ServicesAssumption DEF Scan!Parameters, Scan!Blocks

\* The blocks with transactions of the address.
Busy == {b \in Scan!Blocks : blocks[b] # "none"}

LEMMA DepositsBusy == Scan!Deposits \subseteq Busy /\ Busy \subseteq Scan!Blocks
  BY DEF Scan!Deposits, Busy

LEMMA OnlySeq ==
  ASSUME NEW D, NEW from \in Seq(D), NEW S
  PROVE  Scan!Only(from, S) \in Seq(D \cap S)
<1> DEFINE out == Scan!Only(from, S)
<1>1. out \in Seq(D) /\ InOrder(out, from, S, Len(from)) BY OnlyInOrder
<1> HIDE DEF out
<1>2. \A k \in 1..Len(out) : out[k] \in D /\ out[k] \in S BY <1>1 DEF InOrder
<1>3. out \in Seq(D \cap S) BY <1>1, <1>2
<1>4. QED BY <1>3 DEF out

\* The rows are the busy blocks, the newest first.
LEMMA RowsList ==
  /\ Lists(Scan!Rows, Busy) /\ Scan!Rows \in Seq(Scan!Blocks) /\ Len(Scan!Rows) \in 0..NumBlocks
  /\ \A k \in 1..Len(Scan!Rows) : Scan!Rows[k] \in Busy /\ Scan!Rows[k] <= NumBlocks + 1 - k
<1> DEFINE down == [k \in Scan!Blocks |-> NumBlocks + 1 - k]
           out  == Scan!Only(down, Busy)
<1>0. NumBlocks \in Nat /\ Scan!Blocks = 1..NumBlocks BY ScanConstants
<1>1. /\ down \in Seq(Scan!Blocks) /\ Len(down) = NumBlocks
      /\ \A k \in 1..NumBlocks : down[k] = NumBlocks + 1 - k
  <2>1. down \in [1..NumBlocks -> 1..NumBlocks] BY <1>0
  <2>2. QED BY <1>0, <2>1
<1> HIDE DEF down
<1>2. Lists(down, Scan!Blocks)
  <2>1. \A b \in Scan!Blocks : \E k \in 1..Len(down) : down[k] = b
    <3> SUFFICES ASSUME NEW b \in Scan!Blocks PROVE \E k \in 1..Len(down) : down[k] = b OBVIOUS
    <3>1. NumBlocks + 1 - b \in 1..Len(down) /\ NumBlocks + 1 - (NumBlocks + 1 - b) = b BY <1>0, <1>1
    <3>2. QED BY <1>1, <3>1
  <2>2. \A k, l \in 1..Len(down) : down[k] = down[l] => k = l
    <3> SUFFICES ASSUME NEW k \in 1..Len(down), NEW l \in 1..Len(down), down[k] = down[l] PROVE k = l OBVIOUS
    <3>1. NumBlocks + 1 - k = NumBlocks + 1 - l /\ k \in Nat /\ l \in Nat BY <1>1
    <3>2. QED BY <3>1, <1>0
  <2>3. QED BY <1>1, <2>1, <2>2 DEF Lists
<1>3. Scan!Rows = out BY DEF Scan!Rows, down, Busy, out
<1>4. Lists(out, Busy)
  <2>1. Scan!Blocks \cap Busy = Busy BY DEF Busy
  <2>2. QED BY <1>2, <2>1, OnlyLists
<1>5. out \in Seq(Scan!Blocks) /\ InOrder(out, down, Busy, NumBlocks) BY <1>1, OnlyInOrder
<1> HIDE DEF out
<1>6. PICK f \in [1..Len(out) -> 1..NumBlocks] :
        /\ \A k \in 1..Len(out) : out[k] = down[f[k]] /\ out[k] \in Busy
        /\ \A k, l \in 1..Len(out) : k < l => f[k] < f[l]
  BY <1>5 DEF InOrder
<1>7. Len(out) \in Nat BY <1>5
<1>8. \A k \in 1..Len(out) : k <= f[k]
  <2> DEFINE T == {k \in 0..Len(out) : k = 0 \/ k <= f[k]}
  <2>1. 0 \in T BY <1>7
  <2>2. ASSUME NEW m \in 0..Len(out), m + 1 \in 0..Len(out), m \in T PROVE m + 1 \in T
    <3>1. m + 1 \in 1..Len(out) /\ f[m + 1] \in 1..NumBlocks BY <2>2, <1>6, <1>7
    <3>2. CASE m = 0 BY <3>1, <3>2, <1>0, <2>2
    <3>3. CASE m # 0
      <4>1. m \in 1..Len(out) /\ m <= f[m] /\ m < m + 1 BY <2>2, <3>3
      <4>2. f[m] < f[m + 1] /\ f[m] \in 1..NumBlocks BY <4>1, <3>1, <1>6
      <4>3. m + 1 <= f[m + 1] BY <4>1, <4>2, <3>1, <1>0
      <4>4. QED BY <4>3, <2>2
    <3>4. QED BY <3>2, <3>3
  <2> HIDE DEF T
  <2>3. 0..Len(out) \subseteq T BY <1>7, <2>1, <2>2, Induction
  <2>4. QED
    <3> SUFFICES ASSUME NEW k \in 1..Len(out) PROVE k <= f[k] OBVIOUS
    <3>1. k \in 0..Len(out) /\ k # 0 BY <1>7
    <3>2. QED BY <2>3, <3>1 DEF T
<1>9. \A k \in 1..Len(out) : out[k] \in Busy /\ out[k] <= NumBlocks + 1 - k
  <2> SUFFICES ASSUME NEW k \in 1..Len(out) PROVE out[k] \in Busy /\ out[k] <= NumBlocks + 1 - k OBVIOUS
  <2>1. f[k] \in 1..NumBlocks /\ out[k] = down[f[k]] /\ out[k] \in Busy /\ k <= f[k] BY <1>6, <1>8
  <2>2. out[k] = NumBlocks + 1 - f[k] BY <2>1, <1>1
  <2>3. QED BY <2>1, <2>2, <1>0, <1>7
<1>10. Len(out) \in 0..NumBlocks
  <2>1. CASE Len(out) = 0 BY <2>1, <1>0
  <2>2. CASE Len(out) # 0
    <3>1. Len(out) \in 1..Len(out) BY <2>2, <1>7
    <3>2. Len(out) <= f[Len(out)] /\ f[Len(out)] \in 1..NumBlocks BY <3>1, <1>6, <1>8
    <3>3. QED BY <3>2, <1>7, <1>0
  <2>3. QED BY <2>1, <2>2
<1>11. QED BY <1>3, <1>4, <1>5, <1>9, <1>10

\* The newest n rows; of the last w blocks, all are among the newest w.
NewestRows(n) == {Scan!Rows[i] : i \in 1..n}

LEMMA NewestReach ==
  ASSUME NEW w \in Nat, NEW b \in Busy, b + w > NumBlocks,
         NEW n \in Nat, Len(Scan!Rows) <= n \/ w <= n
  PROVE  b \in NewestRows(n)
<1>1. PICK k \in 1..Len(Scan!Rows) : Scan!Rows[k] = b BY RowsList DEF Lists
<1>2. b <= NumBlocks + 1 - k /\ b \in 1..NumBlocks /\ NumBlocks \in Nat /\ k \in Nat
  BY <1>1, RowsList, ScanConstants, DepositsBusy, SMTT(30)
<1>3. k <= w BY <1>2
<1>4. k \in 1..n BY <1>1, <1>3, RowsList, ScanConstants, SMTT(30)
<1>5. QED BY <1>1, <1>4 DEF NewestRows

LEMMA PartOfRows ==
  ASSUME NEW m \in Nat, NEW n \in Nat, m <= n, n <= Len(Scan!Rows)
  PROVE  /\ Lists(SubSeq(Scan!Rows, m + 1, n), {Scan!Rows[i] : i \in (m + 1)..n})
         /\ NewestRows(n) = NewestRows(m) \cup {Scan!Rows[i] : i \in (m + 1)..n}
         /\ NewestRows(m) \cap {Scan!Rows[i] : i \in (m + 1)..n} = {}
         /\ NewestRows(n) \subseteq Busy
<1>0. /\ Lists(Scan!Rows, Busy) /\ Len(Scan!Rows) \in Nat
      /\ \A k \in 1..Len(Scan!Rows) : Scan!Rows[k] \in Busy
  BY RowsList, ScanConstants
<1>1. Lists(SubSeq(Scan!Rows, m + 1, n), {Scan!Rows[i] : i \in (m + 1)..n})
  <2>1. m + 1 \in Nat \ {0} /\ n \in 0..Len(Scan!Rows) BY <1>0
  <2>2. QED BY <1>0, <2>1, ListsPart
<1>2. 1..n = (1..m) \cup ((m + 1)..n) OBVIOUS
<1>3. \A k, l \in 1..Len(Scan!Rows) : Scan!Rows[k] = Scan!Rows[l] => k = l BY <1>0 DEF Lists
<1>4. \A i \in 1..m, j \in (m + 1)..n : i \in 1..Len(Scan!Rows) /\ j \in 1..Len(Scan!Rows) /\ i # j BY <1>0
<1>5. NewestRows(m) \cap {Scan!Rows[i] : i \in (m + 1)..n} = {} BY <1>3, <1>4 DEF NewestRows
<1>6. \A i \in 1..n : i \in 1..Len(Scan!Rows) BY <1>0
<1>7. NewestRows(n) \subseteq Busy BY <1>0, <1>6 DEF NewestRows
<1>8. NewestRows(n) = NewestRows(m) \cup {Scan!Rows[i] : i \in (m + 1)..n} BY <1>2 DEF NewestRows
<1>9. QED BY <1>1, <1>5, <1>7, <1>8
-----------------------------------------------------------------------------
\* How many rows a call for recent deposits, or for all, asks for; and of an
\* explorer.
Asked  == IF scan.asks = "recent" THEN Recent ELSE MaxTxs
AskedOf == IF scan.asks = "recent" THEN Scan!Least(PageSize, Recent) ELSE MaxTxs

LEMMA ScanPlan ==
  ASSUME scan \in Scan!Calls, source \in DOMAIN Scan!Plan
  PROVE  /\ Len(Scan!Plan) \in 1..3 /\ DOMAIN Scan!Plan = 1..Len(Scan!Plan) /\ source \in 1..Len(Scan!Plan)
         /\ \/ scan.asks = "balance" /\ Scan!This.kind = "balance"
            \/ /\ scan.asks # "balance" /\ scan.net = "evm" /\ Scan!This.kind = "explorer"
               /\ source < Len(Scan!Plan) /\ Scan!This.max = AskedOf
               /\ scan.token /\ scan.asks = "recent" => source > 1
            \/ /\ scan.asks # "balance" /\ scan.net = "evm" /\ ~scan.token /\ Scan!This.kind = "blocks"
               /\ Scan!This.max = MaxTxs /\ Scan!This.span = IF scan.asks = "recent" THEN Recent ELSE BlocksBack
            \/ /\ scan.asks # "balance" /\ scan.net = "evm" /\ scan.token /\ Scan!This.kind = "logs"
               /\ Scan!This.max = MaxTxs
               /\ Scan!This.span = IF scan.asks = "recent" /\ source = 1 THEN Recent ELSE LogsBack
            \/ /\ scan.asks # "balance" /\ scan.net = "sol" /\ Scan!This.kind = "signatures"
               /\ Scan!This.span = Asked
            \/ /\ scan.asks # "balance" /\ scan.net = "sol" /\ Scan!This.kind = "solscan"
               /\ Scan!This.span = Asked /\ source < Len(Scan!Plan)
            \/ /\ scan.asks = "recent" /\ scan.net = "tron" /\ Scan!This.kind = "page"
               /\ Scan!This.span = Scan!Least(PageSize, 3 * Recent)
            \/ /\ scan.asks = "all" /\ scan.net = "tron" /\ Scan!This.kind = "pages"
               /\ Scan!This.max = MaxTxs
<1>0. scan.net \in {"evm", "sol", "tron"} /\ scan.token \in BOOLEAN /\ scan.asks \in {"all", "recent", "balance"}
  BY DEF Scan!Calls
<1> USE DEF Scan!This, Scan!Src
<1>1. CASE scan.asks = "balance"
  <2>1. Scan!Plan = <<Scan!Src("balance", 0, 0)>> BY <1>1 DEF Scan!Plan
  <2>2. QED BY <1>1, <2>1
<1>2. CASE scan.asks # "balance" /\ scan.net = "evm" /\ ~scan.token
  <2>1. Scan!Plan = <<Scan!Src("explorer", 0, AskedOf),
                      Scan!Src("blocks", IF scan.asks = "recent" THEN Recent ELSE BlocksBack, MaxTxs)>>
    BY <1>2 DEF Scan!Plan, AskedOf
  <2>2. QED BY <1>2, <2>1
<1>3. CASE scan.asks = "recent" /\ scan.net = "evm" /\ scan.token
  <2>1. Scan!Plan = <<Scan!Src("logs", Recent, MaxTxs), Scan!Src("explorer", 0, AskedOf), Scan!Src("logs", LogsBack, MaxTxs)>>
    BY <1>3 DEF Scan!Plan, AskedOf
  <2>2. source \in 1..3 BY <2>1
  <2>3. QED BY <1>3, <2>1, <2>2
<1>4. CASE scan.asks = "all" /\ scan.net = "evm" /\ scan.token
  <2>1. Scan!Plan = <<Scan!Src("explorer", 0, AskedOf), Scan!Src("logs", LogsBack, MaxTxs)>>
    BY <1>4 DEF Scan!Plan, AskedOf
  <2>2. QED BY <1>4, <2>1
<1>5. CASE scan.asks # "balance" /\ scan.net = "sol" /\ ~scan.token
  <2>1. Scan!Plan = <<Scan!Src("signatures", Asked, 0)>>
    BY <1>5 DEF Scan!Plan, Asked
  <2>2. QED BY <1>5, <2>1
<1>6. CASE scan.asks # "balance" /\ scan.net = "sol" /\ scan.token
  <2>1. Scan!Plan = <<Scan!Src("solscan", Asked, 0), Scan!Src("signatures", Asked, 0)>>
    BY <1>6 DEF Scan!Plan, Asked
  <2>2. QED BY <1>6, <2>1
<1>7. CASE scan.asks = "recent" /\ scan.net = "tron"
  <2>1. Scan!Plan = <<Scan!Src("page", Scan!Least(PageSize, 3 * Recent), 0)>>
    BY <1>7 DEF Scan!Plan
  <2>2. QED BY <1>7, <2>1
<1>8. CASE scan.asks = "all" /\ scan.net = "tron"
  <2>1. Scan!Plan = <<Scan!Src("pages", 0, MaxTxs)>>
    BY <1>8 DEF Scan!Plan
  <2>2. QED BY <1>8, <2>1
<1>9. QED BY <1>0, <1>1, <1>2, <1>3, <1>4, <1>5, <1>6, <1>7, <1>8
-----------------------------------------------------------------------------
KindIs(kind) == Scan!This.kind = kind

\* How far a source has been read.
PlaceIn(n) ==
  /\ n \in 0..NumBlocks
  /\ n # 0 =>
       \/ KindIs("explorer") /\ n * PageSize <= Len(Scan!Rows)
       \/ KindIs("pages") /\ n * PageSize < Len(Scan!Rows)
       \/ (KindIs("blocks") \/ KindIs("logs")) /\ Scan!FromBlock <= n
       \/ KindIs("signatures") /\ n <= Len(Scan!Rows) /\ n <= Scan!This.span
LookedAt(n) ==
  IF KindIs("explorer") \/ KindIs("pages") THEN NewestRows(n * PageSize)
  ELSE IF KindIs("signatures") THEN NewestRows(n - 1)
  ELSE IF KindIs("blocks") THEN {b \in Scan!Blocks : b > n}
  ELSE {b \in Scan!Blocks : Scan!FromBlock <= b /\ b < n}

ScanTypes ==
  /\ blocks \in [Scan!Blocks -> {"in", "other", "none"}] /\ scan \in Scan!Calls
  /\ source \in DOMAIN Scan!Plan /\ endpoint \in 1..NumUrls /\ failed \in BOOLEAN
  /\ list \in {"none", "list", "balance", "zero", "error"}
  /\ found \in Seq(Scan!Deposits)

\* What the sources before this one have told: the logs of the last blocks were
\* empty.
NothingRecent == scan.asks = "recent" /\ scan.token /\ scan.net = "evm" /\ source > 1 => Scan!Wanted = {}
\* The deposits of all that was looked at are found, once.
FoundSoFar(got, n) ==
  IF n = 0 THEN got = <<>>
  ELSE Lists(got, Scan!Deposits \cap LookedAt(n)) /\ ~(scan.asks = "recent" /\ KindIs("explorer"))
Finds(got) == \E D : Lists(got, D) /\ Scan!Wanted \subseteq D

ScanInv ==
  /\ ScanTypes
  /\ list = "none" => PlaceIn(next)
  /\ list = "none" /\ ~failed /\ Scan!Fits => FoundSoFar(found, next) /\ NothingRecent
  /\ list = "list" /\ ~failed /\ Scan!Fits => Finds(found)

LEMMA ScanSame ==
  ASSUME UNCHANGED <<blocks, scan>>
  PROVE  /\ Scan!Plan' = Scan!Plan /\ Scan!Rows' = Scan!Rows /\ Scan!Deposits' = Scan!Deposits
         /\ Scan!Fits' = Scan!Fits
<1>1. Scan!Rows' = Scan!Rows BY DEF Scan!Rows
<1>2. Scan!Plan' = Scan!Plan BY DEF Scan!Plan
<1>3. Scan!Deposits' = Scan!Deposits BY DEF Scan!Deposits
<1>4. Scan!Fits' = Scan!Fits BY <1>1 DEF Scan!Fits
<1>5. QED BY <1>1, <1>2, <1>3, <1>4

LEMMA SourceSame ==
  ASSUME UNCHANGED <<blocks, scan, source>>
  PROVE  /\ Scan!This' = Scan!This /\ Scan!FromBlock' = Scan!FromBlock /\ Scan!Wanted' = Scan!Wanted
         /\ NothingRecent' = NothingRecent
         /\ \A n \in Nat : PlaceIn(n)' = PlaceIn(n)
         /\ \A n \in Nat : LookedAt(n)' = LookedAt(n)
<1>0. Scan!Plan' = Scan!Plan /\ Scan!Rows' = Scan!Rows /\ Scan!Deposits' = Scan!Deposits BY ScanSame
<1>1. Scan!This' = Scan!This BY <1>0 DEF Scan!This
<1>2. Scan!FromBlock' = Scan!FromBlock BY <1>1 DEF Scan!FromBlock
<1>3. Scan!Reach' = Scan!Reach BY <1>1 DEF Scan!Reach
<1>4. Scan!Wanted' = Scan!Wanted BY <1>0, <1>3 DEF Scan!Wanted
<1>5. NothingRecent' = NothingRecent BY <1>4 DEF NothingRecent
<1>6. \A n \in Nat : PlaceIn(n)' = PlaceIn(n) BY <1>0, <1>1, <1>2 DEF PlaceIn, KindIs
<1>7. \A n \in Nat : NewestRows(n)' = NewestRows(n) BY <1>0 DEF NewestRows
<1>8. \A n \in Nat : LookedAt(n)' = LookedAt(n)
  <2> SUFFICES ASSUME NEW n \in Nat PROVE LookedAt(n)' = LookedAt(n) OBVIOUS
  <2>1. NewestRows(n * PageSize)' = NewestRows(n * PageSize) BY <1>0 DEF NewestRows
  <2>2. NewestRows(n - 1)' = NewestRows(n - 1) BY <1>0 DEF NewestRows
  <2>3. QED BY <1>1, <1>2, <2>1, <2>2 DEF LookedAt, KindIs
<1>9. QED BY <1>1, <1>2, <1>4, <1>5, <1>6, <1>8

\* A source that is not left is read on.
LEMMA GoesOnKeeps ==
  ASSUME ScanInv, list = "none", UNCHANGED <<blocks, scan>>, NEW n \in Nat, NEW got \in Seq(Scan!Deposits),
         Scan!GoesOn(n, got), failed' \in BOOLEAN, failed => failed', PlaceIn(n),
         ~failed' /\ Scan!Fits => FoundSoFar(got, n)
  PROVE  ScanInv'
<1>1. next' = n /\ found' = got /\ UNCHANGED <<source, endpoint, list>> BY DEF Scan!GoesOn
<1>2. /\ Scan!Plan' = Scan!Plan /\ Scan!Deposits' = Scan!Deposits /\ Scan!Fits' = Scan!Fits
      /\ NothingRecent' = NothingRecent
      /\ PlaceIn(n)' = PlaceIn(n) /\ LookedAt(n)' = LookedAt(n) /\ KindIs("explorer")' = KindIs("explorer")
  BY <1>1, ScanSame, SourceSame DEF KindIs
<1>3. ScanTypes' BY <1>1, <1>2 DEF ScanInv, ScanTypes, Scan!Blocks
<1>4. FoundSoFar(got, n)' = FoundSoFar(got, n)
  <2>1. Scan!Deposits' \cap LookedAt(n)' = Scan!Deposits \cap LookedAt(n) BY <1>2
  <2>2. QED BY <1>2, <2>1 DEF FoundSoFar
<1>5. FoundSoFar(found, next)' = FoundSoFar(got, n)' BY <1>1 DEF FoundSoFar
<1>6. PlaceIn(next)' BY <1>1, <1>2 DEF PlaceIn
<1>7. QED BY <1>1, <1>2, <1>3, <1>4, <1>5, <1>6 DEF ScanInv

\* A source that is left has told what it has, or is followed by one that tells.
LEMMA EndsWithKeeps ==
  ASSUME ScanInv, list = "none", UNCHANGED <<blocks, scan>>, NEW got \in Seq(Scan!Deposits),
         Scan!EndsWith(got), failed' \in BOOLEAN, failed => failed',
         ~failed' /\ Scan!Fits =>
           \/ Finds(got)
           \/ got = <<>> /\ source < Len(Scan!Plan) /\ ~(scan.asks = "recent" /\ scan.token /\ scan.net = "evm")
  PROVE  ScanInv'
<1>0. /\ Len(Scan!Plan) \in 1..3 /\ DOMAIN Scan!Plan = 1..Len(Scan!Plan) /\ source \in 1..Len(Scan!Plan)
  BY ScanPlan DEF ScanInv, ScanTypes
<1>1. /\ Scan!Plan' = Scan!Plan /\ Scan!Deposits' = Scan!Deposits /\ Scan!Fits' = Scan!Fits
  BY ScanSame
<1>2. CASE got = <<>> /\ source < Len(Scan!Plan)
  <2>1. found' = <<>> /\ source' = source + 1 /\ endpoint' = 1 /\ next' = 0 /\ list' = "none"
    BY <1>2 DEF Scan!EndsWith
  <2>2. ScanTypes'
    <3>1. source' \in DOMAIN Scan!Plan' BY <1>0, <1>1, <1>2, <2>1
    <3>2. endpoint' \in 1..NumUrls BY <2>1, ScanConstants
    <3>3. found' \in Seq(Scan!Deposits') BY <2>1
    <3>4. QED BY <2>1, <3>1, <3>2, <3>3 DEF ScanInv, ScanTypes, Scan!Blocks
  <2>3. PlaceIn(next)' BY <2>1, ScanConstants DEF PlaceIn
  <2>4. FoundSoFar(found, next)' BY <2>1 DEF FoundSoFar
  <2>5. ASSUME ~failed', Scan!Fits PROVE NothingRecent'
    <3> SUFFICES ASSUME scan.asks = "recent", scan.token, scan.net = "evm" PROVE Scan!Wanted' = {}
      BY DEF NothingRecent
    <3>1. PICK D : Lists(<<>>, D) /\ Scan!Wanted \subseteq D BY <1>2, <2>5 DEF Finds
    <3>2. 1..Len(<<>>) = {} OBVIOUS
    <3>3. D = {} BY <3>1, <3>2 DEF Lists
    <3>4. Scan!Reach' = Scan!Reach BY DEF Scan!Reach
    <3>5. Scan!Wanted' = Scan!Wanted BY <1>1, <3>4 DEF Scan!Wanted
    <3>6. QED BY <3>1, <3>3, <3>5
  <2>6. QED BY <1>1, <2>1, <2>2, <2>3, <2>4, <2>5 DEF ScanInv
<1>3. CASE ~(got = <<>> /\ source < Len(Scan!Plan))
  <2>1. found' = got /\ UNCHANGED <<source, endpoint, next>> /\ list' = "list"
    BY <1>3 DEF Scan!EndsWith
  <2>2. ScanTypes' BY <1>1, <2>1 DEF ScanInv, ScanTypes, Scan!Blocks
  <2>3. ASSUME ~failed', Scan!Fits PROVE Finds(found)'
    <3>1. Finds(got) BY <1>3, <2>3
    <3>2. Scan!Wanted' = Scan!Wanted BY <2>1, SourceSame
    <3>3. QED BY <2>1, <3>1, <3>2 DEF Finds
  <2>4. QED BY <1>1, <2>1, <2>2, <2>3 DEF ScanInv
<1>4. QED BY <1>2, <1>3

\* A failure is remembered, and nothing is promised.
LEMMA NextUrlKeeps ==
  ASSUME ScanInv, list = "none", Scan!Fails, NEW got \in Seq(Scan!Deposits), Scan!NextUrl(got)
  PROVE  ScanInv'
<1>1. /\ UNCHANGED <<blocks, scan, source, list>> /\ failed' = TRUE /\ next' = 0 /\ found' = got
      /\ endpoint < NumUrls /\ endpoint' = endpoint + 1
  BY DEF Scan!Fails, Scan!NextUrl
<1>2. Scan!Plan' = Scan!Plan /\ Scan!Deposits' = Scan!Deposits BY <1>1, ScanSame
<1>3. ScanTypes' BY <1>1, <1>2, ScanConstants DEF ScanInv, ScanTypes, Scan!Blocks
<1>4. PlaceIn(next)' BY <1>1, ScanConstants DEF PlaceIn
<1>5. QED BY <1>1, <1>3, <1>4 DEF ScanInv
-----------------------------------------------------------------------------
LEMMA LeastIs ==
  ASSUME NEW a \in Int, NEW b \in Int
  PROVE  Scan!Least(a, b) \in {a, b} /\ Scan!Least(a, b) <= a /\ Scan!Least(a, b) <= b
  BY DEF Scan!Least

LEMMA InSeq ==
  ASSUME NEW from \in Seq(Scan!Blocks)
  PROVE  Scan!In(from) \in Seq(Scan!Deposits)
<1>1. Scan!Blocks \cap Scan!Deposits = Scan!Deposits BY DepositsBusy
<1>2. Scan!Only(from, Scan!Deposits) \in Seq(Scan!Blocks \cap Scan!Deposits) BY OnlySeq
<1>3. QED BY <1>1, <1>2 DEF Scan!In

\* All that is wanted is in what the source has looked at, at its end.
LEMMA WantedDeposits == Scan!Wanted \subseteq Scan!Deposits
  BY DEF Scan!Wanted

LEMMA WantedNewest ==
  ASSUME ScanTypes, ~KindIs("blocks"), ~KindIs("logs"), ~KindIs("balance"), NEW n \in Nat,
         Len(Scan!Rows) <= n \/ (scan.asks = "recent" /\ Recent <= n)
  PROVE  Scan!Wanted \subseteq Scan!Deposits \cap NewestRows(n)
<1>0. NumBlocks \in Nat /\ Recent \in Nat BY ScanConstants
<1>1. scan.asks \in {"all", "recent"}
  BY ScanPlan DEF ScanTypes, KindIs, Scan!Calls
<1>2. Scan!Reach = IF scan.asks = "recent" THEN Recent ELSE NumBlocks
  BY <1>1 DEF Scan!Reach, KindIs
<1>3. ASSUME NEW b \in Scan!Wanted PROVE b \in NewestRows(n)
  <2>1. b \in Busy /\ b + Scan!Reach > NumBlocks BY <1>3, DepositsBusy DEF Scan!Wanted
  <2>2. Scan!Reach \in Nat /\ (Len(Scan!Rows) <= n \/ Scan!Reach <= n) BY <1>0, <1>2
  <2>3. QED BY ONLY <2>1, <2>2, NewestReach
<1>4. QED BY <1>3, WantedDeposits

LEMMA FromBlockIs ==
  ASSUME ScanTypes, KindIs("blocks") \/ KindIs("logs")
  PROVE  /\ Scan!FromBlock \in 1..NumBlocks
         /\ NothingRecent => Scan!Wanted \subseteq {b \in Scan!Deposits : Scan!FromBlock <= b}
<1>0. NumBlocks \in Nat \ {0} /\ {Recent, BlocksBack, LogsBack} \subseteq Nat \ {0} BY ScanConstants
<1>1. /\ scan.asks \in {"all", "recent"} /\ Scan!This.span \in Nat \ {0}
      /\ \/ scan.asks = "recent" /\ scan.token /\ scan.net = "evm" /\ source > 1
         \/ Scan!This.span = Scan!Reach
  <2>1. scan.asks \in {"all", "recent", "balance"} BY DEF ScanTypes, Scan!Calls
  <2>2. source \in 1..Len(Scan!Plan) /\ Len(Scan!Plan) \in 1..3 BY ScanPlan DEF ScanTypes
  <2>3. CASE KindIs("blocks")
    <3>1. /\ scan.asks # "balance" /\ Scan!This.kind = "blocks"
          /\ Scan!This.span = IF scan.asks = "recent" THEN Recent ELSE BlocksBack
      BY <2>3, ScanPlan DEF ScanTypes, KindIs
    <3>2. Scan!Reach = Scan!This.span BY <2>1, <3>1 DEF Scan!Reach
    <3>3. QED BY <1>0, <2>1, <3>1, <3>2
  <2>4. CASE KindIs("logs")
    <3>1. /\ scan.asks # "balance" /\ Scan!This.kind = "logs" /\ scan.net = "evm" /\ scan.token
          /\ Scan!This.span = IF scan.asks = "recent" /\ source = 1 THEN Recent ELSE LogsBack
      BY <2>4, ScanPlan DEF ScanTypes, KindIs
    <3>2. CASE scan.asks = "recent" /\ source # 1
      BY <1>0, <2>2, <3>1, <3>2
    <3>3. CASE ~(scan.asks = "recent" /\ source # 1)
      <4>1. Scan!Reach = Scan!This.span BY <2>1, <3>1, <3>3 DEF Scan!Reach
      <4>2. QED BY <1>0, <2>1, <3>1, <4>1
    <3>4. QED BY <3>2, <3>3
  <2>5. QED BY <2>3, <2>4
<1>2. Scan!FromBlock \in 1..NumBlocks BY <1>0, <1>1 DEF Scan!FromBlock
<1>3. ASSUME NothingRecent, NEW b \in Scan!Wanted PROVE b \in Scan!Deposits /\ Scan!FromBlock <= b
  <2>1. Scan!This.span = Scan!Reach BY <1>1, <1>3 DEF NothingRecent
  <2>2. b \in Scan!Deposits /\ b + Scan!This.span > NumBlocks BY <1>3, <2>1 DEF Scan!Wanted
  <2>3. b \in 1..NumBlocks BY <2>2, ScanConstants DEF Scan!Deposits
  <2>4. Scan!FromBlock <= b BY <1>0, <1>1, <2>2, <2>3 DEF Scan!FromBlock
  <2>5. QED BY <2>2, <2>4
<1>4. QED BY <1>2, <1>3

\* There is room for all that may be found.
LEMMA RowsFit ==
  ASSUME ScanTypes, Scan!Fits
  PROVE  /\ Len(Scan!Rows) < MaxTxs
         /\ scan.asks = "recent" => Len(Scan!Rows) < PageSize
         /\ scan.asks # "recent" => Len(Scan!Rows) + PageSize <= MaxTxs
  BY ScanConstants, RowsList DEF Scan!Fits

LEMMA FoundFit ==
  ASSUME NEW got, NEW X, Lists(got, Scan!Deposits \cap X)
  PROVE  got \in Seq(Scan!Deposits) /\ Len(got) \in Nat /\ Len(got) <= Len(Scan!Rows)
<1>1. Scan!Deposits \cap X \subseteq Busy BY DepositsBusy
<1>2. Len(got) <= Len(Scan!Rows) BY <1>1, RowsList, ListsFewer
<1>3. got \in Seq(Scan!Deposits \cap X) BY DEF Lists
<1>4. got \in Seq(Scan!Deposits) BY <1>3, SeqMonotonic
<1>5. QED BY <1>2, <1>4

LEMMA WholeList ==
  ASSUME NEW D, NEW got \in Seq(D), NEW m \in Int, Len(got) <= m
  PROVE  SubSeq(got, 1, Scan!Least(Len(got), m)) = got
<1>1. Scan!Least(Len(got), m) = Len(got) BY DEF Scan!Least
<1>2. QED BY <1>1, SubSeqFull

\* What is found in some rows more.
LEMMA MoreFound ==
  ASSUME NEW got, NEW X, NEW Y, Lists(got, Scan!Deposits \cap X), NEW from, Lists(from, Y), X \cap Y = {}
  PROVE  Lists(got \o Scan!In(from), Scan!Deposits \cap (X \cup Y))
<1>1. Lists(Scan!In(from), Y \cap Scan!Deposits) BY OnlyLists DEF Scan!In
<1>2. (Scan!Deposits \cap X) \cap (Y \cap Scan!Deposits) = {} OBVIOUS
<1>3. (Scan!Deposits \cap X) \cup (Y \cap Scan!Deposits) = Scan!Deposits \cap (X \cup Y) OBVIOUS
<1>4. Lists(got \o Scan!In(from), (Scan!Deposits \cap X) \cup (Y \cap Scan!Deposits))
  BY ONLY <1>1, <1>2, ListsBoth, Lists(got, Scan!Deposits \cap X)
<1>5. QED BY <1>3, <1>4

LEMMA MoreRows ==
  ASSUME NEW got, NEW a \in Nat, NEW e \in Nat, a <= e, e <= Len(Scan!Rows),
         Lists(got, Scan!Deposits \cap NewestRows(a))
  PROVE  Lists(got \o Scan!In(SubSeq(Scan!Rows, a + 1, e)), Scan!Deposits \cap NewestRows(e))
<1> DEFINE Y == {Scan!Rows[i] : i \in (a + 1)..e}
<1>1. /\ Lists(SubSeq(Scan!Rows, a + 1, e), Y) /\ NewestRows(e) = NewestRows(a) \cup Y
      /\ NewestRows(a) \cap Y = {}
  BY PartOfRows
<1> HIDE DEF Y
<1>2. Lists(got \o Scan!In(SubSeq(Scan!Rows, a + 1, e)), Scan!Deposits \cap (NewestRows(a) \cup Y))
  BY <1>1, MoreFound
<1>3. QED BY <1>1, <1>2

LEMMA FoundNone == NewestRows(0) = {} /\ Lists(<<>>, {})
<1>1. 1..0 = {} OBVIOUS
<1>2. QED BY <1>1, NothingListed DEF NewestRows

\* A call that asks for the newest rows has all that is wanted among them.
LEMMA NewestFinds ==
  ASSUME ScanTypes, ~KindIs("blocks"), ~KindIs("logs"), ~KindIs("balance"), NEW n \in Nat,
         Len(Scan!Rows) <= n \/ (scan.asks = "recent" /\ Recent <= n)
  PROVE  Finds(Scan!In(Scan!Newest(n)))
<1> DEFINE e == Scan!Least(n, Len(Scan!Rows))
<1>1. e \in Nat /\ e <= Len(Scan!Rows) /\ (e = n \/ e = Len(Scan!Rows)) BY RowsList DEF Scan!Least
<1>2. Scan!Newest(n) = SubSeq(Scan!Rows, 0 + 1, e) BY DEF Scan!Newest
<1> HIDE DEF e
<1>3. Lists(<<>> \o Scan!In(Scan!Newest(n)), Scan!Deposits \cap NewestRows(e))
  <2>1. Scan!Deposits \cap NewestRows(0) = {} BY FoundNone
  <2>2. Lists(<<>>, Scan!Deposits \cap NewestRows(0)) BY <2>1, FoundNone
  <2>3. 0 \in Nat /\ 0 <= e BY <1>1
  <2>4. Lists(<<>> \o Scan!In(SubSeq(Scan!Rows, 0 + 1, e)), Scan!Deposits \cap NewestRows(e))
    BY ONLY <1>1, <2>2, <2>3, MoreRows
  <2>5. QED BY <1>2, <2>4
<1>4. Scan!Newest(n) \in Seq(Scan!Blocks)
  <2>1. \A i \in 0 + 1..e : Scan!Rows[i] \in Scan!Blocks BY <1>1, RowsList
  <2>2. QED BY <1>1, <1>2, <2>1, SubSeqProperties
<1>5. <<>> \o Scan!In(Scan!Newest(n)) = Scan!In(Scan!Newest(n)) BY <1>4, InSeq, ConcatEmptySeq
<1>6. Scan!Wanted \subseteq Scan!Deposits \cap NewestRows(e)
  <2>1. Len(Scan!Rows) <= e \/ (scan.asks = "recent" /\ Recent <= e) BY <1>1, RowsList, ScanConstants
  <2>2. QED BY <1>1, <2>1, WantedNewest
<1>7. QED BY <1>3, <1>5, <1>6 DEF Finds

LEMMA NewestSeq ==
  ASSUME NEW n \in Nat
  PROVE  /\ Scan!Newest(n) \in Seq(Scan!Blocks) /\ Len(Scan!Newest(n)) = Scan!Least(n, Len(Scan!Rows))
<1> DEFINE e == Scan!Least(n, Len(Scan!Rows))
<1>1. e \in Nat /\ e <= Len(Scan!Rows) BY RowsList DEF Scan!Least
<1>2. Scan!Newest(n) = SubSeq(Scan!Rows, 1, e) BY DEF Scan!Newest
<1> HIDE DEF e
<1>3. \A i \in 1..e : Scan!Rows[i] \in Scan!Blocks BY <1>1, RowsList
<1>4. SubSeq(Scan!Rows, 1, e) \in Seq(Scan!Blocks) /\ Len(SubSeq(Scan!Rows, 1, e)) = e
  BY <1>1, <1>3, SubSeqProperties
<1>5. QED BY <1>2, <1>4 DEF e
-----------------------------------------------------------------------------
LEMMA KeptIs == ASSUME ScanInv, Scan!Kept PROVE UNCHANGED <<blocks, scan, failed>> /\ failed' \in BOOLEAN /\ (failed => failed')
  BY DEF Scan!Kept, ScanInv, ScanTypes
LEMMA FailsIs == ASSUME Scan!Fails PROVE UNCHANGED <<blocks, scan>> /\ failed' = TRUE
  BY DEF Scan!Fails

LEMMA ExplorerFailsKeeps == ASSUME ScanInv, Scan!ExplorerFails PROVE ScanInv'
<1>1. list = "none" /\ Scan!EndsWith(found) /\ Scan!Fails /\ found \in Seq(Scan!Deposits)
  BY DEF Scan!ExplorerFails, Scan!At, ScanInv, ScanTypes
<1>2. QED BY <1>1, FailsIs, EndsWithKeeps

LEMMA NoExplorerKeeps == ASSUME ScanInv, Scan!NoExplorer PROVE ScanInv'
<1>1. /\ list = "none" /\ Scan!EndsWith(<<>>) /\ Scan!Kept /\ <<>> \in Seq(Scan!Deposits)
      /\ Scan!This.kind = "explorer" \/ Scan!This.kind = "solscan"
  BY DEF Scan!NoExplorer, Scan!At
<1>2. /\ source < Len(Scan!Plan)
      /\ scan.asks = "recent" /\ scan.token /\ scan.net = "evm" => source > 1
  BY <1>1, ScanPlan DEF ScanInv, ScanTypes
<1>3. ASSUME ~failed', Scan!Fits, scan.asks = "recent" /\ scan.token /\ scan.net = "evm"
      PROVE  Finds(<<>>)
  <2>1. Scan!Wanted = {} BY <1>1, <1>2, <1>3, KeptIs DEF ScanInv, NothingRecent
  <2>2. QED BY <2>1, NothingListed DEF Finds
<1>4. QED BY <1>1, <1>2, <1>3, KeptIs, EndsWithKeeps

LEMMA SolscanKeeps == ASSUME ScanInv, Scan!Solscan \/ Scan!TronPage PROVE ScanInv'
<1> DEFINE n == Scan!This.span
           got == Scan!In(Scan!Newest(n))
<1>1. /\ list = "none" /\ Scan!EndsWith(got) /\ Scan!Kept
      /\ Scan!This.kind = "solscan" \/ Scan!This.kind = "page"
  BY DEF Scan!Solscan, Scan!TronPage, Scan!At
<1>2. /\ ScanTypes /\ ~KindIs("blocks") /\ ~KindIs("logs") /\ ~KindIs("balance")
  BY <1>1 DEF KindIs, ScanInv
<1>3. {Recent, PageSize, MaxTxs} \subseteq Nat \ {0} BY ScanConstants
<1>4. n \in Nat /\ (Scan!Fits => Len(Scan!Rows) <= n \/ (scan.asks = "recent" /\ Recent <= n))
  <2>1. CASE Scan!This.kind = "solscan"
    <3>1. n = Asked BY <2>1, ScanPlan DEF ScanInv, ScanTypes
    <3>2. QED BY <3>1, <1>2, <1>3, RowsFit, RowsList DEF Asked
  <2>2. CASE Scan!This.kind = "page"
    <3>1. n = Scan!Least(PageSize, 3 * Recent) /\ scan.asks = "recent" BY <2>2, ScanPlan DEF ScanInv, ScanTypes
    <3>2. n = PageSize \/ n = 3 * Recent BY <3>1 DEF Scan!Least
    <3>3. QED BY <3>1, <3>2, <1>2, <1>3, RowsFit, RowsList
  <2>3. QED BY <1>1, <2>1, <2>2
<1> HIDE DEF n
<1>5. got \in Seq(Scan!Deposits) BY <1>4, NewestSeq, InSeq
<1>6. Scan!Fits => Finds(got) BY <1>2, <1>4, NewestFinds
<1> HIDE DEF got
<1>7. QED BY <1>1, <1>5, <1>6, KeptIs, EndsWithKeeps

LEMMA EndsEmptyKeeps ==
  ASSUME ScanInv, list = "none", Scan!Fails, Scan!EndsWith(<<>>) PROVE ScanInv'
<1>1. <<>> \in Seq(Scan!Deposits) OBVIOUS
<1>2. QED BY <1>1, FailsIs, EndsWithKeeps

LEMMA ThrowsKeeps ==
  ASSUME ScanInv, Scan!BlocksThrow \/ Scan!LogsThrow \/ Scan!SignaturesThrow \/ Scan!SolscanFails \/ Scan!TronThrows
  PROVE  ScanInv'
<1>1. found \in Seq(Scan!Deposits) /\ <<>> \in Seq(Scan!Deposits) BY DEF ScanInv, ScanTypes
<1>2. CASE Scan!BlocksThrow BY <1>1, <1>2, EndsEmptyKeeps, NextUrlKeeps DEF Scan!BlocksThrow, Scan!At
<1>3. CASE Scan!LogsThrow BY <1>1, <1>3, FailsIs, EndsWithKeeps, NextUrlKeeps DEF Scan!LogsThrow, Scan!At
<1>4. CASE Scan!SignaturesThrow BY <1>1, <1>4, EndsEmptyKeeps, NextUrlKeeps DEF Scan!SignaturesThrow, Scan!At
<1>5. CASE Scan!SolscanFails BY <1>5, EndsEmptyKeeps DEF Scan!SolscanFails, Scan!At
<1>6. CASE Scan!TronThrows BY <1>6, EndsEmptyKeeps DEF Scan!TronThrows, Scan!At
<1>7. QED BY <1>2, <1>3, <1>4, <1>5, <1>6

LEMMA HeadReadKeeps == ASSUME ScanInv, Scan!HeadRead PROVE ScanInv'
<1> DEFINE n == IF Scan!This.kind = "blocks" THEN NumBlocks ELSE Scan!FromBlock
<1>1. /\ list = "none" /\ next = 0 /\ Scan!Kept /\ Scan!GoesOn(n, found) /\ found \in Seq(Scan!Deposits)
      /\ KindIs("blocks") \/ KindIs("logs")
  BY DEF Scan!HeadRead, Scan!ReadHead, Scan!At, KindIs, ScanInv, ScanTypes
<1>2. Scan!FromBlock \in 1..NumBlocks /\ NumBlocks \in Nat BY <1>1, FromBlockIs, ScanConstants DEF ScanInv
<1>3. n \in Nat /\ n # 0 /\ PlaceIn(n) BY <1>1, <1>2 DEF PlaceIn, KindIs
<1>4. LookedAt(n) = {} BY <1>1, <1>2, ScanConstants DEF LookedAt, KindIs
<1>5. ASSUME ~failed', Scan!Fits PROVE FoundSoFar(found, n)
  <2>1. found = <<>> BY <1>1, <1>5, KeptIs DEF ScanInv, FoundSoFar
  <2>2. Scan!Deposits \cap LookedAt(n) = {} BY <1>4
  <2>3. Lists(found, Scan!Deposits \cap LookedAt(n)) BY <2>1, <2>2, NothingListed
  <2>4. ~KindIs("explorer") BY <1>1 DEF KindIs
  <2>5. QED BY <1>3, <2>3, <2>4 DEF FoundSoFar
<1> HIDE DEF n
<1>6. QED BY <1>1, <1>3, <1>5, KeptIs, GoesOnKeeps

LEMMA OneListed == ASSUME NEW b PROVE Lists(<<b>>, {b})
  BY DEF Lists

\* The end of a source of blocks or logs, or the next block or chunk.
LEMMA BlocksLookedAt ==
  ASSUME ScanTypes, KindIs("blocks"), NEW n \in Nat, n # 0, n <= NumBlocks
  PROVE  LookedAt(n) \cup {n} = {b \in Scan!Blocks : b >= n} /\ LookedAt(n) \cap {n} = {}
         /\ LookedAt(n - 1) = {b \in Scan!Blocks : b >= n}
<1>1. \A m \in Nat : LookedAt(m) = {b \in 1..NumBlocks : b > m}
  BY ScanConstants DEF LookedAt, KindIs
<1>2. NumBlocks \in Nat /\ n - 1 \in Nat /\ n \in 1..NumBlocks /\ Scan!Blocks = 1..NumBlocks BY ScanConstants
<1>3. LookedAt(n) = {b \in 1..NumBlocks : b > n} /\ LookedAt(n - 1) = {b \in 1..NumBlocks : b > n - 1}
  BY <1>1, <1>2
<1>4. QED BY <1>2, <1>3

LEMMA BlockReadKeeps == ASSUME ScanInv, Scan!BlockRead PROVE ScanInv'
<1> DEFINE got == found \o Scan!In(<<next>>)
<1>1. /\ list = "none" /\ next # 0 /\ Scan!Kept /\ found \in Seq(Scan!Deposits) /\ KindIs("blocks")
      /\ IF next = Scan!FromBlock \/ Len(got) >= Scan!This.max THEN Scan!EndsWith(got) ELSE Scan!GoesOn(next - 1, got)
  BY DEF Scan!BlockRead, Scan!At, KindIs, ScanInv, ScanTypes
<1>2. next \in 1..NumBlocks /\ Scan!FromBlock <= next /\ Scan!FromBlock \in 1..NumBlocks /\ NumBlocks \in Nat
  BY <1>1, FromBlockIs, ScanConstants DEF ScanInv, PlaceIn, KindIs
<1>3. got \in Seq(Scan!Deposits)
  <2>1. <<next>> \in Seq(Scan!Blocks) BY <1>2, ScanConstants
  <2>2. QED BY <1>1, <2>1, InSeq, ConcatProperties
<1>4. Scan!This.max = MaxTxs BY <1>1, ScanPlan DEF ScanInv, ScanTypes, KindIs
<1>5. ASSUME ~failed', Scan!Fits
      PROVE  Lists(got, Scan!Deposits \cap {b \in Scan!Blocks : b >= next}) /\ Len(got) < MaxTxs /\ NothingRecent
  <2>1. Lists(found, Scan!Deposits \cap LookedAt(next)) /\ NothingRecent
    BY <1>1, <1>5, KeptIs DEF ScanInv, FoundSoFar
  <2>2. /\ LookedAt(next) \cup {next} = {b \in Scan!Blocks : b >= next} /\ LookedAt(next) \cap {next} = {}
    BY <1>1, <1>2, BlocksLookedAt DEF ScanInv
  <2>3. Lists(got, Scan!Deposits \cap (LookedAt(next) \cup {next})) BY <2>1, <2>2, OneListed, MoreFound
  <2>4. Lists(got, Scan!Deposits \cap {b \in Scan!Blocks : b >= next}) BY <2>2, <2>3
  <2>5. Len(got) < MaxTxs
    <3>1. Len(got) \in Nat /\ Len(got) <= Len(Scan!Rows) BY ONLY <2>4, FoundFit
    <3>2. Len(Scan!Rows) < MaxTxs BY <1>5, RowsFit DEF ScanInv
    <3>3. QED BY <3>1, <3>2, RowsList, ScanConstants
  <2>6. QED BY <2>1, <2>4, <2>5
<1> HIDE DEF got
<1>6. CASE next = Scan!FromBlock \/ Len(got) >= Scan!This.max
  <2>1. ASSUME ~failed', Scan!Fits PROVE Finds(got)
    <3>1. next = Scan!FromBlock BY <1>3, <1>4, <1>5, <1>6, <2>1, ScanConstants
    <3>2. Scan!Wanted \subseteq {b \in Scan!Deposits : Scan!FromBlock <= b}
      BY <1>1, <1>5, <2>1, FromBlockIs DEF ScanInv
    <3>3. Scan!Wanted \subseteq Scan!Deposits \cap {b \in Scan!Blocks : b >= next}
      BY <3>1, <3>2, <1>2, DepositsBusy, ScanConstants
    <3>4. QED BY <1>5, <2>1, <3>3 DEF Finds
  <2>2. QED BY <1>1, <1>3, <1>6, <2>1, KeptIs, EndsWithKeeps
<1>7. CASE ~(next = Scan!FromBlock \/ Len(got) >= Scan!This.max)
  <2>1. next - 1 \in Nat /\ next - 1 # 0 /\ next - 1 <= NumBlocks /\ Scan!FromBlock <= next - 1 BY <1>2, <1>7
  <2>2. PlaceIn(next - 1) BY <1>1, <2>1 DEF PlaceIn
  <2>3. ASSUME ~failed', Scan!Fits PROVE FoundSoFar(got, next - 1)
    <3>1. LookedAt(next - 1) = {b \in Scan!Blocks : b >= next}
      BY <1>1, <1>2, BlocksLookedAt DEF ScanInv
    <3>2. Lists(got, Scan!Deposits \cap LookedAt(next - 1)) BY <1>5, <2>3, <3>1
    <3>3. QED BY <1>1, <2>1, <3>2 DEF FoundSoFar, KindIs
  <2>4. QED BY <1>1, <1>3, <1>7, <2>1, <2>2, <2>3, KeptIs, GoesOnKeeps
<1>8. QED BY <1>6, <1>7

LEMMA BlockUnknownKeeps == ASSUME ScanInv, Scan!BlockUnknown PROVE ScanInv'
<1>1. /\ list = "none" /\ next # 0 /\ Scan!Fails /\ found \in Seq(Scan!Deposits) /\ KindIs("blocks")
      /\ IF next = Scan!FromBlock THEN Scan!EndsWith(found) ELSE Scan!GoesOn(next - 1, found)
  BY DEF Scan!BlockUnknown, Scan!At, KindIs, ScanInv, ScanTypes
<1>2. next \in 1..NumBlocks /\ Scan!FromBlock <= next /\ Scan!FromBlock \in 1..NumBlocks /\ NumBlocks \in Nat
  BY <1>1, FromBlockIs, ScanConstants DEF ScanInv, PlaceIn, KindIs
<1>3. CASE next = Scan!FromBlock BY <1>1, <1>3, FailsIs, EndsWithKeeps
<1>4. CASE next # Scan!FromBlock
  <2>1. next - 1 \in Nat /\ next - 1 # 0 /\ next - 1 <= NumBlocks /\ Scan!FromBlock <= next - 1 BY <1>2, <1>4
  <2>2. PlaceIn(next - 1) BY <1>1, <2>1 DEF PlaceIn
  <2>3. QED BY <1>1, <1>4, <2>1, <2>2, FailsIs, GoesOnKeeps
<1>5. QED BY <1>3, <1>4
-----------------------------------------------------------------------------
(* Logs.                                                                   *)

LEMMA FunSeq ==
  ASSUME NEW D, NEW m \in Nat, NEW f \in [1..m -> D]
  PROVE  f \in Seq(D) /\ Len(f) = m
  OBVIOUS

\* The logs of a chunk, or some of them.
LEMMA LogsKeep ==
  ASSUME ScanInv, Scan!At("logs"), next # 0, UNCHANGED <<blocks, scan>>, failed' \in BOOLEAN, failed => failed',
         NEW logs \in Seq(Scan!Deposits), Scan!LogsGoOn(logs),
         ~failed' => logs = Scan!Logs
  PROVE  ScanInv'
<1> DEFINE room == Scan!Least(Len(logs), Scan!This.max - Len(found))
           part == SubSeq(logs, 1, room)
           got  == found \o part
<1>1. /\ list = "none" /\ found \in Seq(Scan!Deposits) /\ KindIs("logs") /\ ScanTypes
      /\ IF next + Chunk > NumBlocks \/ Len(got) >= Scan!This.max
         THEN Scan!EndsWith(got) ELSE Scan!GoesOn(next + Chunk, got)
  BY DEF Scan!At, Scan!LogsGoOn, KindIs, ScanInv, ScanTypes
<1>2. /\ next \in 1..NumBlocks /\ Scan!FromBlock <= next /\ Scan!FromBlock \in 1..NumBlocks
      /\ NumBlocks \in Nat /\ Chunk \in Nat \ {0} /\ MaxTxs \in Nat
  BY <1>1, FromBlockIs, ScanConstants DEF ScanInv, PlaceIn, KindIs
<1>3. Scan!This.max = MaxTxs BY <1>1, ScanPlan DEF ScanTypes, KindIs
<1>4. room \in Int /\ room <= Len(logs) BY <1>1, <1>2, <1>3 DEF Scan!Least
<1>5. got \in Seq(Scan!Deposits)
  <2>1. \A i \in 1..room : logs[i] \in Scan!Deposits BY <1>4
  <2>2. part \in Seq(Scan!Deposits) BY <1>4, <2>1, SubSeqProperties
  <2>3. QED BY <1>1, <2>2, ConcatProperties
<1> DEFINE Y == {b \in Scan!Blocks : next <= b /\ b <= Scan!ChunkEnd}
<1>6. /\ Scan!ChunkEnd \in next..NumBlocks
      /\ Scan!ChunkEnd = next + Chunk - 1 \/ (Scan!ChunkEnd = NumBlocks /\ next + Chunk > NumBlocks)
  BY <1>2 DEF Scan!ChunkEnd, Scan!Least
<1>7. ASSUME ~failed', Scan!Fits
      PROVE  Lists(got, Scan!Deposits \cap (LookedAt(next) \cup Y)) /\ Len(got) < MaxTxs /\ NothingRecent
  <2>0. Lists(found, Scan!Deposits \cap LookedAt(next)) /\ NothingRecent
    BY <1>1, <1>7 DEF ScanInv, FoundSoFar
  <2> DEFINE chunk == [k \in 1..Scan!ChunkEnd - next + 1 |-> next + k - 1]
  <2>1. Lists(chunk, Y)
    <3> DEFINE e == Scan!ChunkEnd
               m == e - next + 1
    <3>1. e \in next..NumBlocks /\ m \in Nat /\ Scan!Blocks = 1..NumBlocks /\ chunk = [k \in 1..m |-> next + k - 1]
      BY <1>2, <1>6, ScanConstants
    <3>2. Y = next..e BY <1>2, <3>1
    <3> HIDE DEF e, chunk, Y
    <3>3. chunk \in [1..m -> next..e] BY <1>2, <3>1 DEF m
    <3>4. chunk \in Seq(next..e) /\ Len(chunk) = m BY ONLY <3>1, <3>3, FunSeq
    <3>5. \A b \in next..e : \E k \in 1..m : chunk[k] = b
      <4> SUFFICES ASSUME NEW b \in next..e PROVE \E k \in 1..m : chunk[k] = b OBVIOUS
      <4>1. b - next + 1 \in 1..m /\ next + (b - next + 1) - 1 = b BY <1>2, <3>1
      <4>2. QED BY <3>1, <4>1
    <3>6. \A k, l \in 1..m : chunk[k] = chunk[l] => k = l BY <3>1, <1>2
    <3>7. QED BY ONLY <3>2, <3>4, <3>5, <3>6 DEF Lists
  <2>2. logs = Scan!In(chunk) BY <1>7 DEF Scan!Logs
  <2>3. LookedAt(next) \cap Y = {} BY <1>1, <1>2, ScanConstants DEF LookedAt, KindIs
  <2> HIDE DEF chunk, Y
  <2>4. Lists(found \o logs, Scan!Deposits \cap (LookedAt(next) \cup Y)) BY <2>0, <2>1, <2>2, <2>3, MoreFound
  <2>5. Len(found \o logs) \in Nat /\ Len(found \o logs) <= Len(Scan!Rows) BY ONLY <2>4, FoundFit
  <2>6. Len(Scan!Rows) < MaxTxs /\ Len(Scan!Rows) \in Nat BY <1>1, <1>2, <1>7, RowsFit, RowsList
  <2>7. Len(found \o logs) = Len(found) + Len(logs) BY <1>1
  <2>8. Len(logs) <= Scan!This.max - Len(found) /\ Scan!This.max - Len(found) \in Int
    BY <1>1, <1>2, <1>3, <2>5, <2>6, <2>7
  <2>9. part = logs BY ONLY <2>8, WholeList, logs \in Seq(Scan!Deposits)
  <2>10. got = found \o logs BY <2>9
  <2> HIDE DEF got
  <2>11. QED BY <1>2, <2>0, <2>4, <2>5, <2>6, <2>10
<1>8. next + Chunk <= NumBlocks => LookedAt(next) \cup Y = LookedAt(next + Chunk)
  BY <1>1, <1>2, <1>6, ScanConstants, SMTT(30) DEF LookedAt, KindIs
<1>9. next + Chunk > NumBlocks => LookedAt(next) \cup Y = {b \in Scan!Blocks : Scan!FromBlock <= b}
  BY <1>1, <1>2, <1>6, ScanConstants DEF LookedAt, KindIs
<1> HIDE DEF got, Y
<1>10. CASE next + Chunk > NumBlocks \/ Len(got) >= Scan!This.max
  <2>1. ASSUME ~failed', Scan!Fits PROVE Finds(got)
    <3>1. next + Chunk > NumBlocks BY <1>2, <1>3, <1>5, <1>7, <1>10, <2>1
    <3>2. Lists(got, Scan!Deposits \cap {b \in Scan!Blocks : Scan!FromBlock <= b}) BY <1>7, <1>9, <2>1, <3>1
    <3>3. Scan!Wanted \subseteq {b \in Scan!Deposits : Scan!FromBlock <= b}
      BY <1>1, <1>7, <2>1, FromBlockIs
    <3>4. Scan!Wanted \subseteq Scan!Deposits \cap {b \in Scan!Blocks : Scan!FromBlock <= b}
      BY <3>3, DepositsBusy
    <3>5. QED BY <3>2, <3>4 DEF Finds
  <2>2. QED BY <1>1, <1>5, <1>10, <2>1, EndsWithKeeps
<1>11. CASE ~(next + Chunk > NumBlocks \/ Len(got) >= Scan!This.max)
  <2>1. next + Chunk \in Nat /\ next + Chunk # 0 /\ next + Chunk <= NumBlocks /\ Scan!FromBlock <= next + Chunk
    BY <1>2, <1>11
  <2>2. PlaceIn(next + Chunk) BY <1>1, <2>1 DEF PlaceIn
  <2>3. ASSUME ~failed', Scan!Fits PROVE FoundSoFar(got, next + Chunk)
    <3>1. Lists(got, Scan!Deposits \cap LookedAt(next + Chunk)) BY <1>7, <1>8, <2>1, <2>3
    <3>2. QED BY <1>1, <2>1, <3>1 DEF FoundSoFar, KindIs
  <2>4. QED BY <1>1, <1>5, <1>11, <2>1, <2>2, <2>3, GoesOnKeeps
<1>12. QED BY <1>10, <1>11

LEMMA LogsSeq ==
  ASSUME ScanInv, Scan!At("logs"), next # 0
  PROVE  Scan!Logs \in Seq(Scan!Deposits)
<1>1. /\ next \in 1..NumBlocks /\ NumBlocks \in Nat /\ Chunk \in Nat \ {0} /\ Scan!Blocks = 1..NumBlocks
  BY ScanConstants DEF ScanInv, PlaceIn, Scan!At
<1>2. Scan!ChunkEnd \in next..NumBlocks BY <1>1 DEF Scan!ChunkEnd, Scan!Least
<1> DEFINE m == Scan!ChunkEnd - next + 1
           chunk == [k \in 1..m |-> next + k - 1]
<1>3. m \in Nat /\ chunk \in [1..m -> Scan!Blocks] BY <1>1, <1>2
<1>4. chunk \in Seq(Scan!Blocks) BY <1>3
<1>5. QED BY <1>4, InSeq DEF Scan!Logs

LEMMA LogsReadKeeps == ASSUME ScanInv, Scan!LogsRead \/ Scan!LogSkipped \/ Scan!LogsSkipped PROVE ScanInv'
<1>0. Scan!At("logs") /\ next # 0 BY DEF Scan!LogsRead, Scan!LogSkipped, Scan!LogsSkipped
<1>1. Scan!Logs \in Seq(Scan!Deposits) BY <1>0, LogsSeq
<1>2. CASE Scan!LogsRead
  <2>1. Scan!Kept /\ Scan!LogsGoOn(Scan!Logs) BY <1>2 DEF Scan!LogsRead
  <2>2. QED BY <1>0, <1>1, <2>1, KeptIs, LogsKeep
<1>3. CASE Scan!LogSkipped
  <2>1. PICK b \in Scan!Blocks : Scan!Fails /\ Scan!LogsGoOn(Scan!Only(Scan!Logs, Scan!Blocks \ {b}))
    BY <1>3 DEF Scan!LogSkipped
  <2>2. Scan!Only(Scan!Logs, Scan!Blocks \ {b}) \in Seq(Scan!Deposits)
    BY <1>1, OnlyInOrder
  <2>3. QED BY <1>0, <2>1, <2>2, FailsIs, LogsKeep
<1>4. CASE Scan!LogsSkipped
  <2>1. Scan!Fails /\ Scan!LogsGoOn(<<>>) /\ <<>> \in Seq(Scan!Deposits) BY <1>4 DEF Scan!LogsSkipped
  <2>2. QED BY <1>0, <2>1, FailsIs, LogsKeep
<1>5. QED BY <1>2, <1>3, <1>4

-----------------------------------------------------------------------------
(* Signatures.                                                             *)

LEMMA SignaturesKeeps ==
  ASSUME ScanInv, Scan!Signatures \/ Scan!SignaturesOfWallet
  PROVE  ScanInv'
<1>1. /\ list = "none" /\ next = 0 /\ KindIs("signatures") /\ ScanTypes
      /\ Scan!Kept \/ Scan!Fails
      /\ IF Scan!Rows = <<>> THEN Scan!EndsWith(<<>>) ELSE Scan!GoesOn(1, <<>>)
  BY DEF Scan!Signatures, Scan!SignaturesOfWallet, Scan!At, KindIs, ScanInv
<1>2. /\ Scan!This.span = Asked /\ Asked \in Nat \ {0}
      /\ ~KindIs("blocks") /\ ~KindIs("logs") /\ ~KindIs("balance") /\ ~KindIs("explorer") /\ ~KindIs("pages")
  BY <1>1, ScanPlan, ScanConstants DEF ScanTypes, KindIs, Asked
<1>3. <<>> \in Seq(Scan!Deposits) OBVIOUS
<1>4. UNCHANGED <<blocks, scan>> /\ failed' \in BOOLEAN /\ (failed => failed')
  BY <1>1, KeptIs, FailsIs
<1>5. CASE Scan!Rows = <<>>
  <2>1. Len(Scan!Rows) = 0 BY <1>5
  <2>2. Scan!Wanted \subseteq Scan!Deposits \cap NewestRows(0) BY <1>1, <1>2, <2>1, WantedNewest
  <2>3. Scan!Wanted = {} BY <2>2, FoundNone
  <2>4. Finds(<<>>) BY <2>3, NothingListed DEF Finds
  <2>5. QED BY <1>1, <1>3, <1>4, <1>5, <2>4, EndsWithKeeps
<1>6. CASE Scan!Rows # <<>>
  <2>1. Len(Scan!Rows) >= 1 /\ NumBlocks >= 1 /\ NumBlocks \in Nat BY <1>6, RowsList, ScanConstants, EmptySeq
  <2>2. PlaceIn(1) BY <1>1, <1>2, <2>1, RowsList DEF PlaceIn
  <2>3. LookedAt(1) = {}
    <3>1. 1..(1 - 1) = {} OBVIOUS
    <3>2. QED BY <1>1, <1>2, <3>1 DEF LookedAt, NewestRows
  <2>4. Scan!Deposits \cap LookedAt(1) = {} BY <2>3
  <2>5. Lists(<<>>, Scan!Deposits \cap LookedAt(1)) BY ONLY <2>4, NothingListed
  <2>6. FoundSoFar(<<>>, 1) BY <1>2, <2>5 DEF FoundSoFar
  <2>7. QED BY <1>1, <1>3, <1>4, <1>6, <2>2, <2>6, GoesOnKeeps
<1>7. QED BY <1>5, <1>6

LEMMA TransactionKeeps ==
  ASSUME ScanInv, Scan!TransactionRead \/ Scan!TransactionSkipped
  PROVE  ScanInv'
<1> DEFINE n == Scan!This.span
           e == Len(Scan!Newest(n))
<1>1. /\ list = "none" /\ next # 0 /\ KindIs("signatures") /\ ScanTypes /\ found \in Seq(Scan!Deposits)
  BY DEF Scan!TransactionRead, Scan!TransactionSkipped, Scan!At, KindIs, ScanInv, ScanTypes
<1>2. /\ n = Asked /\ n \in Nat \ {0} /\ (scan.asks = "recent" => n = Recent) /\ (scan.asks # "recent" => n = MaxTxs)
      /\ ~KindIs("blocks") /\ ~KindIs("logs") /\ ~KindIs("balance") /\ ~KindIs("explorer") /\ ~KindIs("pages")
  BY <1>1, ScanPlan, ScanConstants DEF ScanTypes, KindIs, Asked
<1>3. /\ next \in 1..NumBlocks /\ next <= Len(Scan!Rows) /\ next <= n /\ Len(Scan!Rows) \in Nat
      /\ Len(Scan!Rows) <= NumBlocks /\ NumBlocks \in Nat
  BY <1>1, <1>2, RowsList, ScanConstants DEF ScanInv, PlaceIn
<1>4. e = Scan!Least(n, Len(Scan!Rows)) BY <1>2, NewestSeq
<1>5. e \in Nat /\ e <= n /\ e <= Len(Scan!Rows) /\ (e = n \/ e = Len(Scan!Rows)) /\ next <= e
  BY <1>2, <1>3, <1>4 DEF Scan!Least
<1>6. PICK got \in Seq(Scan!Deposits) :
        /\ Scan!SignatureGoesOn(got)
        /\ Scan!Fails \/ (Scan!Kept /\ got = found \o Scan!In(<<Scan!Rows[next]>>))
  <2>1. CASE Scan!TransactionSkipped BY <1>1, <2>1 DEF Scan!TransactionSkipped
  <2>2. CASE Scan!TransactionRead
    <3>1. <<Scan!Rows[next]>> \in Seq(Scan!Blocks) BY <1>3, RowsList
    <3>2. Scan!In(<<Scan!Rows[next]>>) \in Seq(Scan!Deposits) BY <3>1, InSeq
    <3>3. found \o Scan!In(<<Scan!Rows[next]>>) \in Seq(Scan!Deposits) BY <1>1, <3>2, ConcatProperties
    <3>4. QED BY <2>2, <3>3 DEF Scan!TransactionRead
  <2>3. QED BY <2>1, <2>2
<1>7. UNCHANGED <<blocks, scan>> /\ failed' \in BOOLEAN /\ (failed => failed') BY <1>6, KeptIs, FailsIs
<1>8. ASSUME ~failed', Scan!Fits PROVE Lists(got, Scan!Deposits \cap NewestRows(next))
  <2>1. LookedAt(next) = NewestRows(next - 1) BY <1>1, <1>2 DEF LookedAt
  <2>2. Lists(found, Scan!Deposits \cap NewestRows(next - 1))
    BY <1>1, <1>7, <1>8, <2>1 DEF ScanInv, FoundSoFar
  <2>3. got = found \o Scan!In(<<Scan!Rows[next]>>) BY <1>6, <1>8, FailsIs
  <2>4. NewestRows(next - 1) \cap {Scan!Rows[next]} = {} /\ NewestRows(next) = NewestRows(next - 1) \cup {Scan!Rows[next]}
    <3>1. next - 1 \in Nat /\ next \in Nat /\ next - 1 <= next /\ (next - 1) + 1 = next /\ next..next = {next} BY <1>3
    <3>2. {Scan!Rows[i] : i \in ((next - 1) + 1)..next} = {Scan!Rows[next]} BY <3>1
    <3>3. QED BY <3>1, <3>2, <1>3, PartOfRows
  <2>5. Lists(found \o Scan!In(<<Scan!Rows[next]>>), Scan!Deposits \cap (NewestRows(next - 1) \cup {Scan!Rows[next]}))
    BY <2>2, <2>4, OneListed, MoreFound
  <2>6. QED BY <2>3, <2>4, <2>5
<1>9. CASE next = e
  <2>1. Scan!EndsWith(got) BY <1>6, <1>9 DEF Scan!SignatureGoesOn
  <2>2. ASSUME ~failed', Scan!Fits PROVE Finds(got)
    <3>1. Len(Scan!Rows) <= next \/ (scan.asks = "recent" /\ Recent <= next)
      BY <1>1, <1>2, <1>3, <1>5, <1>9, <2>2, RowsFit, ScanConstants
    <3>2. next \in Nat BY <1>3
    <3>3. Scan!Wanted \subseteq Scan!Deposits \cap NewestRows(next)
      BY ONLY <1>1, <1>2, <3>1, <3>2, WantedNewest
    <3>4. QED BY <1>8, <2>2, <3>3 DEF Finds
  <2>3. QED BY <1>1, <1>7, <2>1, <2>2, EndsWithKeeps
<1>10. CASE next # e
  <2>1. Scan!GoesOn(next + 1, got) BY <1>6, <1>10 DEF Scan!SignatureGoesOn
  <2>2. next + 1 \in Nat /\ next + 1 # 0 /\ next + 1 <= e /\ (next + 1) - 1 = next BY <1>3, <1>5, <1>10
  <2> HIDE DEF e
  <2>3. PlaceIn(next + 1) BY <1>1, <1>2, <1>3, <1>5, <2>2 DEF PlaceIn
  <2>4. LookedAt(next + 1) = NewestRows(next) BY <1>1, <1>2, <2>2 DEF LookedAt
  <2>5. ASSUME ~failed', Scan!Fits PROVE FoundSoFar(got, next + 1)
    BY <1>2, <1>8, <2>2, <2>4, <2>5 DEF FoundSoFar
  <2>6. QED BY <1>1, <1>7, <2>1, <2>2, <2>3, <2>5, GoesOnKeeps
<1>11. QED BY <1>9, <1>10
-----------------------------------------------------------------------------
(* Pages of an explorer, and of a Tron node.                               *)

LEMMA Paging ==
  ASSUME NEW n \in Nat, NEW size \in Int
  PROVE  /\ n * size \in Int /\ (n + 1) * size = n * size + size
         /\ size >= 1 => n * size >= n /\ (n + 1) * size >= n + 1
         /\ size >= 0 => n * size >= 0
         /\ n = 0 => n * size = 0
  OBVIOUS

LEMMA PageIs ==
  ASSUME NEW n \in Nat, NEW size \in Int
  PROVE  LET e == Scan!Least(n * size + size, Len(Scan!Rows)) IN
         /\ Scan!Page(n + 1, size) = SubSeq(Scan!Rows, n * size + 1, e)
         /\ Scan!Page(n + 1, size) \in Seq(Scan!Blocks)
         /\ Len(Scan!Page(n + 1, size)) = IF n * size + 1 <= e THEN e - n * size ELSE 0
<1> DEFINE a == n * size
           e == Scan!Least(a + size, Len(Scan!Rows))
<1>1. a \in Int /\ (n + 1) * size = a + size /\ ((n + 1) - 1) * size = a /\ (size >= 0 => a >= 0)
  <2>1. (n + 1) - 1 = n OBVIOUS
  <2>2. QED BY <2>1, Paging
<1>2. Scan!Page(n + 1, size) = SubSeq(Scan!Rows, a + 1, e)
  BY <1>1 DEF Scan!Page
<1>3. e \in Int /\ e <= a + size /\ e <= Len(Scan!Rows) /\ Len(Scan!Rows) \in Nat
  BY <1>1, RowsList DEF Scan!Least
<1>4. n * size = a /\ Scan!Least(n * size + size, Len(Scan!Rows)) = e OBVIOUS
<1> HIDE DEF a, e
<1>5. \A i \in (a + 1)..e : Scan!Rows[i] \in Scan!Blocks
  <2>1. CASE size >= 0 BY <1>1, <1>3, <2>1, RowsList
  <2>2. CASE ~(size >= 0)
    <3>1. ~(a + 1 <= e) BY <1>1, <1>3, <2>2
    <3>2. QED BY <1>1, <1>3, <3>1
  <2>3. QED BY <2>1, <2>2
<1>6. /\ SubSeq(Scan!Rows, a + 1, e) \in Seq(Scan!Blocks)
      /\ Len(SubSeq(Scan!Rows, a + 1, e)) = IF a + 1 <= e THEN e - (a + 1) + 1 ELSE 0
  BY <1>1, <1>3, <1>5, SubSeqProperties
<1>7. e - (a + 1) + 1 = e - a BY <1>1, <1>3
<1>8. QED BY <1>2, <1>4, <1>6, <1>7

\* The next page of a list that is read from its beginning.
LEMMA PageFound ==
  ASSUME NEW n \in Nat, NEW got, Lists(got, Scan!Deposits \cap NewestRows(n * PageSize)),
         n * PageSize <= Len(Scan!Rows)
  PROVE  LET e == Scan!Least(n * PageSize + PageSize, Len(Scan!Rows)) IN
         /\ Lists(got \o Scan!In(Scan!Page(n + 1, PageSize)), Scan!Deposits \cap NewestRows(e))
         /\ Len(Scan!Page(n + 1, PageSize)) = e - n * PageSize
<1> DEFINE a == n * PageSize
           e == Scan!Least(a + PageSize, Len(Scan!Rows))
<1>0. PageSize \in Nat \ {0} BY ScanConstants
<1>1. a \in Nat BY <1>0, Paging
<1>2. e \in Nat /\ a <= e /\ e <= Len(Scan!Rows) BY <1>0, <1>1, RowsList DEF Scan!Least
<1>3. /\ Scan!Page(n + 1, PageSize) = SubSeq(Scan!Rows, a + 1, e)
      /\ Len(Scan!Page(n + 1, PageSize)) = IF a + 1 <= e THEN e - a ELSE 0
  <2>1. PageSize \in Int BY <1>0
  <2>2. LET b == Scan!Least(n * PageSize + PageSize, Len(Scan!Rows)) IN
        /\ Scan!Page(n + 1, PageSize) = SubSeq(Scan!Rows, n * PageSize + 1, b)
        /\ Len(Scan!Page(n + 1, PageSize)) = IF n * PageSize + 1 <= b THEN b - n * PageSize ELSE 0
    BY ONLY <2>1, PageIs, n \in Nat
  <2>3. QED BY <2>2
<1>4. Lists(got, Scan!Deposits \cap NewestRows(a)) OBVIOUS
<1>5. n * PageSize = a /\ Scan!Least(n * PageSize + PageSize, Len(Scan!Rows)) = e OBVIOUS
<1> HIDE DEF a, e
<1>6. Lists(got \o Scan!In(SubSeq(Scan!Rows, a + 1, e)), Scan!Deposits \cap NewestRows(e))
  BY ONLY <1>1, <1>2, <1>4, MoreRows
<1>7. Len(Scan!Page(n + 1, PageSize)) = e - a BY <1>1, <1>2, <1>3
<1>8. QED BY <1>3, <1>5, <1>6, <1>7

\* What was found before page n, if no request failed.
LEMMA FoundBefore ==
  ASSUME ScanInv, list = "none", ~failed, Scan!Fits, KindIs("explorer") \/ KindIs("pages")
  PROVE  /\ next * PageSize <= Len(Scan!Rows)
         /\ Lists(found, Scan!Deposits \cap NewestRows(next * PageSize))
         /\ next # 0 => ~(scan.asks = "recent" /\ KindIs("explorer"))
<1>0. PageSize \in Nat \ {0} /\ Len(Scan!Rows) \in Nat BY ScanConstants, RowsList
<1>1. PlaceIn(next) /\ FoundSoFar(found, next) /\ next \in Nat BY ScanConstants DEF ScanInv, PlaceIn
<1>2. CASE next = 0
  <2>1. next * PageSize = 0 BY <1>0, <1>2
  <2>2. found = <<>> BY <1>1, <1>2 DEF FoundSoFar
  <2>3. Scan!Deposits \cap NewestRows(0) = {} BY FoundNone
  <2>4. Lists(found, Scan!Deposits \cap NewestRows(0)) BY <2>2, <2>3, FoundNone
  <2>5. Scan!Deposits \cap NewestRows(next * PageSize) = Scan!Deposits \cap NewestRows(0) BY <2>1
  <2>6. Lists(found, Scan!Deposits \cap NewestRows(next * PageSize)) BY <2>4, <2>5
  <2>7. next * PageSize <= Len(Scan!Rows) BY <1>0, <2>1
  <2>8. QED BY <1>2, <2>6, <2>7
<1>3. CASE next # 0
  <2>1. next * PageSize \in Int BY <1>0, <1>1
  <2>2. next * PageSize <= Len(Scan!Rows) BY <1>0, <1>1, <1>3, <2>1 DEF PlaceIn, KindIs
  <2>3. LookedAt(next) = NewestRows(next * PageSize) BY DEF LookedAt
  <2>4. Lists(found, Scan!Deposits \cap LookedAt(next)) /\ ~(scan.asks = "recent" /\ KindIs("explorer"))
    BY <1>1, <1>3 DEF FoundSoFar
  <2>5. Lists(found, Scan!Deposits \cap NewestRows(next * PageSize)) BY <2>3, <2>4
  <2>6. QED BY <2>2, <2>4, <2>5
<1>4. QED BY <1>2, <1>3

LEMMA TronPagesKeeps == ASSUME ScanInv, Scan!TronPages PROVE ScanInv'
<1> DEFINE page == Scan!Page(next + 1, PageSize)
           got  == found \o Scan!In(page)
           cut  == SubSeq(got, 1, Scan!Least(Len(got), MaxTxs))
           e    == Scan!Least(next * PageSize + PageSize, Len(Scan!Rows))
<1>0. PageSize \in Nat \ {0} /\ MaxTxs \in Nat \ {0} /\ NumBlocks \in Nat /\ Len(Scan!Rows) \in 0..NumBlocks
  BY ScanConstants, RowsList
<1>1. /\ list = "none" /\ Scan!Kept /\ KindIs("pages") /\ ScanTypes /\ found \in Seq(Scan!Deposits)
      /\ Scan!This.max = MaxTxs /\ scan.asks = "all"
      /\ next \in Nat
  BY <1>0, ScanPlan DEF Scan!TronPages, Scan!At, KindIs, ScanInv, ScanTypes, PlaceIn
<1>2. IF (next + 1) * PageSize >= Len(Scan!Rows) \/ Len(got) >= MaxTxs
      THEN Scan!EndsWith(cut) ELSE Scan!GoesOn(next + 1, got)
  BY <1>1 DEF Scan!TronPages
<1>3. /\ next * PageSize \in Nat /\ (next + 1) * PageSize = next * PageSize + PageSize
      /\ (next + 1) * PageSize >= next + 1
  <2>1. PageSize \in Int /\ PageSize >= 1 BY <1>0
  <2>2. QED BY <1>1, <2>1, Paging
<1>4. page \in Seq(Scan!Blocks)
  <2>1. PageSize \in Int BY <1>0
  <2>2. QED BY <1>1, <2>1, PageIs
<1>5. got \in Seq(Scan!Deposits) BY <1>1, <1>4, InSeq, ConcatProperties
<1>6. cut \in Seq(Scan!Deposits)
  <2>1. Len(got) \in Nat /\ Scan!Least(Len(got), MaxTxs) \in Int /\ Scan!Least(Len(got), MaxTxs) <= Len(got)
    BY <1>0, <1>5 DEF Scan!Least
  <2> HIDE DEF got
  <2>2. \A i \in 1..Scan!Least(Len(got), MaxTxs) : got[i] \in Scan!Deposits BY <1>5, <2>1
  <2>3. QED BY <1>5, <2>1, <2>2, SubSeqProperties
<1>7. ASSUME ~failed', Scan!Fits
      PROVE  /\ Lists(got, Scan!Deposits \cap NewestRows(e)) /\ cut = got /\ Len(got) < MaxTxs
  <2>1. ~failed BY <1>1, <1>7, KeptIs
  <2>2. next * PageSize <= Len(Scan!Rows) /\ Lists(found, Scan!Deposits \cap NewestRows(next * PageSize))
    BY <1>1, <1>7, <2>1, FoundBefore
  <2>3. Lists(got, Scan!Deposits \cap NewestRows(e)) BY <1>1, <2>2, PageFound
  <2> HIDE DEF e, got
  <2>4. Len(got) \in Nat /\ Len(got) <= Len(Scan!Rows) BY ONLY <2>3, FoundFit
  <2>5. Len(got) < MaxTxs BY <1>0, <1>1, <1>7, <2>4, RowsFit
  <2>6. MaxTxs \in Int /\ Len(got) <= MaxTxs BY <1>0, <2>4, <2>5
  <2>7. cut = got BY <1>5, <2>6, WholeList
  <2>8. QED BY <2>3, <2>5, <2>7
<1>8. e \in Nat /\ (e = Len(Scan!Rows) \/ e = (next + 1) * PageSize) /\ e <= (next + 1) * PageSize
      /\ ((next + 1) * PageSize >= Len(Scan!Rows) => e = Len(Scan!Rows))
      /\ ((next + 1) * PageSize < Len(Scan!Rows) => e = (next + 1) * PageSize)
  BY <1>0, <1>3 DEF Scan!Least
<1> HIDE DEF e, cut, got
<1>9. CASE (next + 1) * PageSize >= Len(Scan!Rows) \/ Len(got) >= MaxTxs
  <2>1. ASSUME ~failed', Scan!Fits PROVE Finds(cut)
    <3>1. e = Len(Scan!Rows) BY <1>0, <1>5, <1>7, <1>8, <1>9, <2>1
    <3>2. Scan!Wanted \subseteq Scan!Deposits \cap NewestRows(e)
      <4>1. ~KindIs("blocks") /\ ~KindIs("logs") /\ ~KindIs("balance") BY <1>1 DEF KindIs
      <4>2. Len(Scan!Rows) <= e BY <1>0, <3>1
      <4>3. QED BY <1>1, <1>8, <4>1, <4>2, WantedNewest
    <3>3. QED BY <1>7, <2>1, <3>2 DEF Finds
  <2>2. Scan!EndsWith(cut) BY <1>2, <1>9
  <2>3. QED BY <1>1, <1>6, <2>1, <2>2, KeptIs, EndsWithKeeps
<1>10. CASE ~((next + 1) * PageSize >= Len(Scan!Rows) \/ Len(got) >= MaxTxs)
  <2>1. Scan!GoesOn(next + 1, got) BY <1>2, <1>10
  <2>2. (next + 1) * PageSize \in Int /\ (next + 1) * PageSize < Len(Scan!Rows) BY <1>0, <1>3, <1>10
  <2>3. next + 1 \in Nat /\ next + 1 # 0 /\ next + 1 <= NumBlocks BY <1>0, <1>1, <1>3, <2>2
  <2>4. PlaceIn(next + 1) BY <1>0, <1>1, <2>2, <2>3 DEF PlaceIn
  <2>5. ASSUME ~failed', Scan!Fits PROVE FoundSoFar(got, next + 1)
    <3>1. e = (next + 1) * PageSize BY <1>8, <2>2
    <3>2. LookedAt(next + 1) = NewestRows(e) BY <1>1, <3>1 DEF LookedAt
    <3>3. ~KindIs("explorer") BY <1>1 DEF KindIs
    <3>4. Lists(got, Scan!Deposits \cap LookedAt(next + 1)) BY <1>7, <2>5, <3>2
    <3>5. QED BY <2>3, <3>3, <3>4 DEF FoundSoFar
  <2>6. QED BY <1>1, <1>5, <2>1, <2>3, <2>4, <2>5, KeptIs, GoesOnKeeps
<1>11. QED BY <1>9, <1>10

\* An explorer that is asked for the newest deposits is asked for one page.
LEMMA ExplorerNewest ==
  ASSUME ScanTypes, Scan!Fits, KindIs("explorer"), scan.asks = "recent"
  PROVE  LET got == <<>> \o Scan!In(Scan!Page(1, Scan!Least(PageSize, Scan!This.max - 0))) IN
         /\ Finds(got) /\ Len(got) <= Scan!This.max
<1> DEFINE n == Scan!Least(PageSize, Recent)
           e == Scan!Least(n, Len(Scan!Rows))
           part == SubSeq(Scan!Rows, 0 + 1, e)
           got == <<>> \o Scan!In(part)
<1>0. /\ PageSize \in Nat \ {0} /\ Recent \in Nat \ {0} /\ Len(Scan!Rows) \in Nat /\ Len(Scan!Rows) < PageSize
      /\ ~KindIs("blocks") /\ ~KindIs("logs") /\ ~KindIs("balance")
  BY ScanConstants, RowsList, RowsFit DEF KindIs
<1>1. Scan!This.max = n BY ScanPlan DEF ScanTypes, KindIs, AskedOf
<1>2. n \in Nat \ {0} /\ n <= PageSize /\ (n = Recent \/ n = PageSize) BY <1>0 DEF Scan!Least
<1>3. e \in Nat /\ e <= n /\ e <= Len(Scan!Rows) /\ (e = n \/ e = Len(Scan!Rows)) BY <1>0, <1>2 DEF Scan!Least
<1>4. Scan!Least(PageSize, n - 0) = n BY <1>0, <1>2 DEF Scan!Least
<1>5. Scan!Page(1, n) = part
  <2>1. n \in Int /\ 0 \in Nat /\ 0 * n = 0 /\ 0 + n = n /\ 0 + 1 = 1 BY <1>2
  <2>2. Scan!Page(0 + 1, n) = SubSeq(Scan!Rows, 0 * n + 1, Scan!Least(0 * n + n, Len(Scan!Rows)))
    BY <2>1, PageIs
  <2>3. QED BY <2>1, <2>2
<1> HIDE DEF n, e
<1>6. Lists(got, Scan!Deposits \cap NewestRows(e))
  <2>1. Scan!Deposits \cap NewestRows(0) = {} BY FoundNone
  <2>2. Lists(<<>>, Scan!Deposits \cap NewestRows(0)) BY <2>1, FoundNone
  <2>3. 0 \in Nat /\ 0 <= e BY <1>3
  <2>4. QED BY ONLY <1>3, <2>2, <2>3, MoreRows
<1>7. Lists(part, {Scan!Rows[i] : i \in (0 + 1)..e}) /\ Len(part) = e
  <2>1. 0 \in Nat /\ 0 <= e /\ 0 + 1 = 1 /\ (0 + 1) \in Int /\ e \in Int BY <1>3
  <2>2. Lists(part, {Scan!Rows[i] : i \in (0 + 1)..e}) BY ONLY <1>3, <2>1, PartOfRows
  <2>3. \A i \in (0 + 1)..e : Scan!Rows[i] \in Scan!Blocks BY <1>3, RowsList
  <2>4. Len(part) = IF 0 + 1 <= e THEN e - (0 + 1) + 1 ELSE 0 BY ONLY <2>1, <2>3, SubSeqProperties
  <2>5. QED BY <1>3, <2>2, <2>4
<1> HIDE DEF part, got
<1>8. Len(got) <= e
  <2>1. Scan!Deposits \cap NewestRows(e) \subseteq {Scan!Rows[i] : i \in (0 + 1)..e} BY DEF NewestRows
  <2>2. QED BY ONLY <1>6, <1>7, <2>1, ListsFewer
<1>9. Len(got) \in Nat BY ONLY <1>6, FoundFit
<1>10. Finds(got)
  <2>1. Len(Scan!Rows) <= e \/ (scan.asks = "recent" /\ Recent <= e) BY <1>0, <1>2, <1>3
  <2>2. Scan!Wanted \subseteq Scan!Deposits \cap NewestRows(e) BY <1>0, <1>3, <2>1, WantedNewest
  <2>3. QED BY <1>6, <2>2 DEF Finds
<1>11. Len(got) <= n BY <1>2, <1>3, <1>8, <1>9
<1>12. QED BY <1>1, <1>4, <1>5, <1>10, <1>11 DEF got

\* A page of an explorer, when no request failed: it is the last, or there are
\* rows left.
LEMMA ExplorerFound ==
  ASSUME ScanInv, list = "none", ~failed, Scan!Fits, KindIs("explorer")
  PROVE  LET shown == Scan!Page(next + 1, Scan!Least(PageSize, Scan!This.max - Len(found)))
             got  == found \o Scan!In(shown)
             e    == (next + 1) * PageSize
         IN /\ Len(got) <= Scan!This.max
            /\ Len(shown) < PageSize \/ Len(got) = Scan!This.max => Finds(got)
            /\ Len(shown) >= PageSize =>
                 scan.asks # "recent" /\ Lists(got, Scan!Deposits \cap NewestRows(e))
<1> DEFINE size == Scan!Least(PageSize, Scan!This.max - Len(found))
           shown == Scan!Page(next + 1, size)
           got  == found \o Scan!In(shown)
<1>0. PageSize \in Nat \ {0} /\ MaxTxs \in Nat \ {0} /\ Len(Scan!Rows) \in Nat /\ next \in Nat /\ ScanTypes
      /\ PageSize <= MaxTxs
  BY ScanConstants, RowsList DEF ScanInv, PlaceIn
<1>1. /\ next * PageSize <= Len(Scan!Rows)
      /\ Lists(found, Scan!Deposits \cap NewestRows(next * PageSize))
      /\ next # 0 => scan.asks # "recent"
  BY FoundBefore
<1>2. Scan!This.max = AskedOf BY <1>0, ScanPlan DEF ScanTypes, KindIs
<1>3. CASE scan.asks = "recent"
  <2>1. next = 0 BY <1>1, <1>3
  <2>2. found = <<>> /\ Len(<<>>) = 0 BY <2>1 DEF ScanInv, FoundSoFar
  <2>3. size = Scan!Least(PageSize, Scan!This.max - 0) /\ next + 1 = 1 BY <2>1, <2>2
  <2>4. Finds(got) /\ Len(got) <= Scan!This.max
    BY <1>0, <1>3, <2>2, <2>3, ExplorerNewest
  <2>5. Len(shown) < PageSize
    <3>1. AskedOf \in Nat /\ AskedOf <= PageSize BY <1>0, <1>3, ScanConstants DEF AskedOf, Scan!Least
    <3>2. size \in Int /\ size <= PageSize BY <1>0, <1>2, <2>3, <3>1 DEF Scan!Least
    <3>3. 0 * size = 0 /\ 0 + size = size /\ 0 \in Nat /\ 0 + 1 = 1 BY <3>2
    <3> HIDE DEF size
    <3>4. Len(Scan!Page(0 + 1, size)) =
            IF 0 * size + 1 <= Scan!Least(0 * size + size, Len(Scan!Rows))
            THEN Scan!Least(0 * size + size, Len(Scan!Rows)) - 0 * size ELSE 0
      BY <3>2, <3>3, PageIs
    <3>5. Len(shown) = IF 0 + 1 <= Scan!Least(size, Len(Scan!Rows))
                      THEN Scan!Least(size, Len(Scan!Rows)) - 0 ELSE 0
      BY <2>1, <3>3, <3>4
    <3>6. Scan!Least(size, Len(Scan!Rows)) \in Int /\ Scan!Least(size, Len(Scan!Rows)) <= Len(Scan!Rows)
      BY <1>0, <3>2 DEF Scan!Least
    <3>7. Len(Scan!Rows) < PageSize BY <1>0, <1>3, RowsFit
    <3>8. QED BY <1>0, <3>5, <3>6, <3>7
  <2>6. ~(Len(shown) >= PageSize)
    <3>1. shown \in Seq(Scan!Blocks)
      <4>1. size \in Int BY <1>0, <1>2, <2>3, ScanConstants DEF AskedOf, Scan!Least
      <4>2. QED BY <1>0, <4>1, PageIs
    <3>2. Len(shown) \in Int BY <3>1
    <3> HIDE DEF shown
    <3>3. QED BY <1>0, <2>5, <3>2
  <2>7. QED BY <2>4, <2>6
<1>4. CASE scan.asks # "recent"
  <2> DEFINE e == Scan!Least(next * PageSize + PageSize, Len(Scan!Rows))
  <2>1. Scan!This.max = MaxTxs BY <1>2, <1>4 DEF AskedOf
  <2>2. Len(found) \in Nat /\ Len(found) <= Len(Scan!Rows) BY ONLY <1>1, FoundFit
  <2>3. Len(Scan!Rows) + PageSize <= MaxTxs BY <1>0, <1>4, RowsFit
  <2>4. size = PageSize BY <1>0, <2>1, <2>2, <2>3 DEF Scan!Least
  <2>5. Lists(found \o Scan!In(Scan!Page(next + 1, PageSize)), Scan!Deposits \cap NewestRows(e))
        /\ Len(Scan!Page(next + 1, PageSize)) = e - next * PageSize
    BY ONLY <1>0, <1>1, PageFound
  <2>6. Lists(got, Scan!Deposits \cap NewestRows(e)) /\ Len(shown) = e - next * PageSize BY <2>4, <2>5
  <2>7. next * PageSize \in Nat /\ (next + 1) * PageSize = next * PageSize + PageSize
    <3>1. PageSize \in Int /\ PageSize >= 0 BY <1>0
    <3>2. QED BY <1>0, <3>1, Paging
  <2>8. e \in Nat /\ (e = Len(Scan!Rows) \/ e = (next + 1) * PageSize)
        /\ (Len(shown) < PageSize => e = Len(Scan!Rows)) /\ (Len(shown) >= PageSize => e = (next + 1) * PageSize)
    BY <1>0, <2>6, <2>7 DEF Scan!Least
  <2> HIDE DEF e, shown, got
  <2>9. Len(got) \in Nat /\ Len(got) <= Len(Scan!Rows) BY ONLY <2>6, FoundFit
  <2>10. Len(got) < MaxTxs BY <1>0, <2>3, <2>9
  <2>11. ASSUME Len(shown) < PageSize PROVE Finds(got)
    <3>1. e = Len(Scan!Rows) BY <2>8, <2>11
    <3>2. ~KindIs("blocks") /\ ~KindIs("logs") /\ ~KindIs("balance") BY DEF KindIs
    <3>3. Len(Scan!Rows) <= e BY <1>0, <3>1
    <3>4. Scan!Wanted \subseteq Scan!Deposits \cap NewestRows(e) BY <1>0, <2>8, <3>2, <3>3, WantedNewest
    <3>5. QED BY <2>6, <3>4 DEF Finds
  <2>12. ASSUME Len(shown) >= PageSize PROVE Lists(got, Scan!Deposits \cap NewestRows((next + 1) * PageSize))
    <3>1. e = (next + 1) * PageSize BY <2>8, <2>12
    <3>2. QED BY <2>6, <3>1
  <2>13. Len(got) <= MaxTxs /\ Len(got) # MaxTxs BY <1>0, <2>9, <2>10
  <2>14. QED BY <1>4, <2>1, <2>11, <2>12, <2>13 DEF shown, got
<1>5. QED BY <1>3, <1>4

LEMMA ExplorerPageKeeps == ASSUME ScanInv, Scan!ExplorerPage PROVE ScanInv'
<1> DEFINE max  == Scan!This.max
           size == Scan!Least(PageSize, max - Len(found))
           shown == Scan!Page(next + 1, size)
           got  == found \o Scan!In(shown)
           cut  == SubSeq(got, 1, Scan!Least(Len(got), max))
<1>0. PageSize \in Nat \ {0} /\ MaxTxs \in Nat \ {0} /\ Recent \in Nat \ {0} /\ NumBlocks \in Nat
      /\ Len(Scan!Rows) \in 0..NumBlocks
  BY ScanConstants, RowsList
<1>1. /\ list = "none" /\ Scan!Kept /\ KindIs("explorer") /\ ScanTypes /\ found \in Seq(Scan!Deposits)
      /\ next \in Nat /\ max = AskedOf
  BY <1>0, ScanPlan DEF Scan!ExplorerPage, Scan!At, KindIs, ScanInv, ScanTypes, PlaceIn
<1>2. IF Len(shown) < PageSize \/ Len(cut) = max THEN Scan!EndsWith(cut) ELSE Scan!GoesOn(next + 1, cut)
  BY DEF Scan!ExplorerPage
<1>3. max \in Nat \ {0} BY <1>0, <1>1 DEF AskedOf, Scan!Least
<1>4. size \in Int /\ size <= PageSize BY <1>0, <1>1, <1>3 DEF Scan!Least
<1>5. LET e == Scan!Least(next * size + size, Len(Scan!Rows)) IN
      /\ shown \in Seq(Scan!Blocks)
      /\ Len(shown) = IF next * size + 1 <= e THEN e - next * size ELSE 0
  BY <1>1, <1>4, PageIs
<1>6. got \in Seq(Scan!Deposits)
  <2>1. shown \in Seq(Scan!Blocks) BY <1>5
  <2>2. QED BY <1>1, <2>1, InSeq, ConcatProperties
<1>7. cut \in Seq(Scan!Deposits)
  <2> HIDE DEF got, max
  <2>1. Len(got) \in Nat /\ Scan!Least(Len(got), max) \in Int /\ Scan!Least(Len(got), max) <= Len(got)
    BY <1>3, <1>6 DEF Scan!Least
  <2>2. \A i \in 1..Scan!Least(Len(got), max) : got[i] \in Scan!Deposits BY <1>6, <2>1
  <2>3. QED BY <1>6, <2>1, <2>2, SubSeqProperties
<1>8. Len(shown) \in Nat /\ (Len(shown) >= PageSize =>
        (next + 1) * PageSize \in Int /\ (next + 1) * PageSize <= Len(Scan!Rows) /\ next + 1 <= (next + 1) * PageSize)
  <2>0. Len(shown) \in Nat BY <1>5
  <2>1. next * size \in Int BY <1>1, <1>4, Paging
  <2>2. ASSUME Len(shown) >= PageSize
        PROVE  /\ (next + 1) * PageSize \in Int /\ (next + 1) * PageSize <= Len(Scan!Rows)
               /\ next + 1 <= (next + 1) * PageSize
    <3>1. Len(shown) = IF next * size + 1 <= Scan!Least(next * size + size, Len(Scan!Rows))
                      THEN Scan!Least(next * size + size, Len(Scan!Rows)) - next * size ELSE 0
      BY <1>5
    <3> HIDE DEF shown, size
    <3>2. Scan!Least(next * size + size, Len(Scan!Rows)) \in Int
          /\ Scan!Least(next * size + size, Len(Scan!Rows)) <= next * size + size
          /\ Scan!Least(next * size + size, Len(Scan!Rows)) <= Len(Scan!Rows)
      BY <1>0, <1>4, <2>1 DEF Scan!Least
    <3>3. size = PageSize BY <1>0, <1>4, <2>0, <2>1, <2>2, <3>1, <3>2
    <3>4. next * size + size <= Len(Scan!Rows) BY <1>0, <1>4, <2>0, <2>1, <2>2, <3>1, <3>2
    <3>5. PageSize \in Int /\ PageSize >= 1 BY <1>0
    <3>6. /\ next * PageSize \in Int /\ (next + 1) * PageSize = next * PageSize + PageSize
          /\ (next + 1) * PageSize >= next + 1
      BY <1>1, <3>5, Paging
    <3>7. next * PageSize + PageSize <= Len(Scan!Rows) BY <3>3, <3>4
    <3>8. QED BY <1>1, <3>5, <3>6, <3>7
  <2>3. QED BY <2>0, <2>2
<1>9. ASSUME ~failed', Scan!Fits
      PROVE  /\ cut = got
             /\ Len(shown) < PageSize \/ Len(got) = max => Finds(got)
             /\ Len(shown) >= PageSize =>
                  scan.asks # "recent" /\ Lists(got, Scan!Deposits \cap NewestRows((next + 1) * PageSize))
  <2>1. ~failed BY <1>1, <1>9, KeptIs
  <2>2. /\ Len(got) <= max
        /\ Len(shown) < PageSize \/ Len(got) = max => Finds(got)
        /\ Len(shown) >= PageSize =>
             scan.asks # "recent" /\ Lists(got, Scan!Deposits \cap NewestRows((next + 1) * PageSize))
    BY <1>1, <1>9, <2>1, ExplorerFound
  <2>3. cut = got
    <3>1. max \in Int BY <1>3
    <3> HIDE DEF got, max
    <3>2. QED BY <1>6, <2>2, <3>1, WholeList
  <2> HIDE DEF cut, got, shown, max
  <2>4. QED BY <2>2, <2>3
<1> HIDE DEF cut, got, shown, size, max
<1>10. CASE Len(shown) < PageSize \/ Len(cut) = max
  <2>1. Scan!EndsWith(cut) BY <1>2, <1>10
  <2>2. ASSUME ~failed', Scan!Fits PROVE Finds(cut) BY <1>9, <1>10, <2>2
  <2>3. QED BY <1>1, <1>7, <2>1, <2>2, KeptIs, EndsWithKeeps
<1>11. CASE ~(Len(shown) < PageSize \/ Len(cut) = max)
  <2>1. Scan!GoesOn(next + 1, cut) BY <1>2, <1>11
  <2>2. Len(shown) >= PageSize BY <1>0, <1>8, <1>11
  <2>3. next + 1 \in Nat /\ next + 1 # 0 /\ next + 1 <= NumBlocks BY <1>0, <1>1, <1>8, <2>2
  <2>4. PlaceIn(next + 1) BY <1>0, <1>1, <1>8, <2>2, <2>3 DEF PlaceIn
  <2>5. ASSUME ~failed', Scan!Fits PROVE FoundSoFar(cut, next + 1)
    <3>1. LookedAt(next + 1) = NewestRows((next + 1) * PageSize) BY <1>1 DEF LookedAt
    <3>2. Lists(cut, Scan!Deposits \cap LookedAt(next + 1)) /\ scan.asks # "recent" BY <1>9, <2>2, <2>5, <3>1
    <3>3. QED BY <2>3, <3>2 DEF FoundSoFar
  <2>6. QED BY <1>1, <1>7, <2>1, <2>3, <2>4, <2>5, KeptIs, GoesOnKeeps
<1>12. QED BY <1>10, <1>11

-----------------------------------------------------------------------------
LEMMA BalanceKeeps == ASSUME ScanInv, Scan!BalanceRead \/ Scan!BalanceThrows PROVE ScanInv'
<1>1. list = "none" /\ found \in Seq(Scan!Deposits) BY DEF Scan!BalanceRead, Scan!BalanceThrows, Scan!At, ScanInv, ScanTypes
<1>2. ASSUME NEW r \in {"balance", "zero", "error"}, Scan!Returns(r), UNCHANGED <<blocks, scan>>, failed' \in BOOLEAN
      PROVE  ScanInv'
  <2>1. UNCHANGED <<source, endpoint, next, found>> /\ list' = r BY <1>2 DEF Scan!Returns
  <2>2. Scan!Plan' = Scan!Plan /\ Scan!Deposits' = Scan!Deposits BY <1>2, ScanSame
  <2>3. ScanTypes' BY <1>2, <2>1, <2>2 DEF ScanInv, ScanTypes, Scan!Blocks
  <2>4. list' # "none" /\ list' # "list" BY <1>2, <2>1
  <2>5. QED BY <2>3, <2>4 DEF ScanInv
<1>3. CASE Scan!BalanceRead BY <1>2, <1>3, KeptIs DEF Scan!BalanceRead
<1>4. CASE Scan!BalanceThrows
  <2>1. Scan!Fails BY <1>4 DEF Scan!BalanceThrows
  <2>2. CASE scan.net # "tron" /\ endpoint < NumUrls
    <3>1. Scan!NextUrl(found) BY <1>4, <2>2 DEF Scan!BalanceThrows
    <3>2. QED BY <1>1, <2>1, <3>1, NextUrlKeeps
  <2>3. CASE ~(scan.net # "tron" /\ endpoint < NumUrls)
    <3>1. Scan!Returns(IF scan.net = "evm" THEN "zero" ELSE "error") BY <1>4, <2>3 DEF Scan!BalanceThrows
    <3>2. QED BY <1>2, <2>1, <3>1, FailsIs
  <2>4. QED BY <2>2, <2>3
<1>5. QED BY <1>3, <1>4

LEMMA ScanInit == ASSUME Scan!Init PROVE ScanInv
<1>1. /\ blocks \in [Scan!Blocks -> {"in", "other", "none"}] /\ scan \in Scan!Calls
      /\ source = 1 /\ endpoint = 1 /\ next = 0 /\ found = <<>> /\ failed = FALSE /\ list = "none"
  BY DEF Scan!Init
<1>2. 1 \in DOMAIN Scan!Plan BY <1>1 DEF Scan!Plan, Scan!Calls
<1>3. endpoint \in 1..NumUrls BY <1>1, ScanConstants
<1>4. found \in Seq(Scan!Deposits) BY <1>1
<1>5. ScanTypes BY <1>1, <1>2, <1>3, <1>4 DEF ScanTypes
<1>6. PlaceIn(next) BY <1>1, ScanConstants DEF PlaceIn
<1>7. FoundSoFar(found, next) /\ NothingRecent BY <1>1 DEF FoundSoFar, NothingRecent
<1>8. QED BY <1>1, <1>5, <1>6, <1>7 DEF ScanInv

LEMMA ScanStep == ASSUME ScanInv, Scan!Next PROVE ScanInv'
<1>1. CASE Scan!ExplorerPage \/ Scan!ExplorerFails \/ Scan!NoExplorer
  BY <1>1, ExplorerPageKeeps, ExplorerFailsKeeps, NoExplorerKeeps
<1>2. CASE Scan!HeadRead \/ Scan!BlockRead \/ Scan!BlockUnknown
  BY <1>2, HeadReadKeeps, BlockReadKeeps, BlockUnknownKeeps
<1>3. CASE Scan!LogsRead \/ Scan!LogSkipped \/ Scan!LogsSkipped BY <1>3, LogsReadKeeps
<1>4. CASE Scan!Solscan \/ Scan!TronPage BY <1>4, SolscanKeeps
<1>5. CASE Scan!Signatures \/ Scan!SignaturesOfWallet BY <1>5, SignaturesKeeps
<1>6. CASE Scan!TransactionRead \/ Scan!TransactionSkipped BY <1>6, TransactionKeeps
<1>7. CASE Scan!BlocksThrow \/ Scan!LogsThrow \/ Scan!SignaturesThrow \/ Scan!SolscanFails \/ Scan!TronThrows
  BY <1>7, ThrowsKeeps
<1>8. CASE Scan!TronPages BY <1>8, TronPagesKeeps
<1>9. CASE Scan!BalanceRead \/ Scan!BalanceThrows BY <1>9, BalanceKeeps
<1>10. QED BY <1>1, <1>2, <1>3, <1>4, <1>5, <1>6, <1>7, <1>8, <1>9 DEF Scan!Next

LEMMA ScanStays ==
  ASSUME ScanInv, UNCHANGED <<blocks, scan, source, endpoint, next, found, failed, list>>
  PROVE  ScanInv'
<1>1. Scan!Plan' = Scan!Plan /\ Scan!Deposits' = Scan!Deposits /\ Scan!Fits' = Scan!Fits BY ScanSame
<1>2. /\ Scan!Wanted' = Scan!Wanted /\ NothingRecent' = NothingRecent
      /\ \A n \in Nat : PlaceIn(n)' = PlaceIn(n) /\ LookedAt(n)' = LookedAt(n)
      /\ KindIs("explorer")' = KindIs("explorer")
  BY SourceSame DEF KindIs
<1>3. ScanTypes' BY <1>1 DEF ScanInv, ScanTypes, Scan!Blocks
<1>4. list = "none" => next \in Nat BY ScanConstants DEF ScanInv, PlaceIn
<1>5. next \in Nat => PlaceIn(next)' = PlaceIn(next) BY <1>2
<1>6. next \in Nat => FoundSoFar(found, next)' = FoundSoFar(found, next)
  <2>1. next \in Nat => Scan!Deposits' \cap LookedAt(next)' = Scan!Deposits \cap LookedAt(next) BY <1>1, <1>2
  <2>2. QED BY <1>2, <2>1 DEF FoundSoFar
<1>7. Finds(found)' = Finds(found) BY <1>2 DEF Finds
<1>8. QED BY <1>1, <1>2, <1>3, <1>4, <1>5, <1>6, <1>7 DEF ScanInv

LEMMA ScanInvExact == ASSUME ScanInv PROVE Scan!ScanIsExact
<1> SUFFICES ASSUME list = "list"
    PROVE  /\ \A k \in DOMAIN found : found[k] \in Scan!Deposits
           /\ ~failed /\ Scan!Fits => /\ \A b \in Scan!Wanted : \E k \in DOMAIN found : found[k] = b
                                      /\ \A k, l \in DOMAIN found : found[k] = found[l] => k = l
  BY DEF Scan!ScanIsExact
<1>1. found \in Seq(Scan!Deposits) /\ DOMAIN found = 1..Len(found) BY DEF ScanInv, ScanTypes
<1>2. \A k \in DOMAIN found : found[k] \in Scan!Deposits BY <1>1
<1>3. ASSUME ~failed, Scan!Fits
      PROVE  /\ \A b \in Scan!Wanted : \E k \in DOMAIN found : found[k] = b
             /\ \A k, l \in DOMAIN found : found[k] = found[l] => k = l
  <2>1. PICK D : Lists(found, D) /\ Scan!Wanted \subseteq D BY <1>3 DEF ScanInv, Finds
  <2>2. QED BY <1>1, <2>1 DEF Lists
<1>4. QED BY <1>2, <1>3

-----------------------------------------------------------------------------
(* The place a scan has read to stays within the chain.                    *)

\* A source goes on, the next one or the next URL is tried, or the call is over.
LEMMA PlaceMoves ==
  ASSUME Scan!Next
  PROVE  list' = "none" \/ next' = next
<1> USE DEF Scan!At, Scan!EndsWith, Scan!GoesOn, Scan!NextUrl, Scan!Returns
<1>1. CASE Scan!ExplorerPage
  BY <1>1 DEF Scan!ExplorerPage
<1>2. CASE Scan!ExplorerFails
  BY <1>2 DEF Scan!ExplorerFails
<1>3. CASE Scan!NoExplorer
  BY <1>3 DEF Scan!NoExplorer
<1>4. CASE Scan!HeadRead
  BY <1>4 DEF Scan!HeadRead, Scan!ReadHead
<1>5. CASE Scan!BlockRead
  BY <1>5 DEF Scan!BlockRead
<1>6. CASE Scan!BlockUnknown
  BY <1>6 DEF Scan!BlockUnknown
<1>7. CASE Scan!BlocksThrow
  BY <1>7 DEF Scan!BlocksThrow
<1>8. CASE Scan!LogsRead
  BY <1>8 DEF Scan!LogsRead, Scan!LogsGoOn
<1>9. CASE Scan!LogSkipped
  BY <1>9 DEF Scan!LogSkipped, Scan!LogsGoOn
<1>10. CASE Scan!LogsSkipped
  BY <1>10 DEF Scan!LogsSkipped, Scan!LogsGoOn
<1>11. CASE Scan!LogsThrow
  BY <1>11 DEF Scan!LogsThrow
<1>12. CASE Scan!Solscan
  BY <1>12 DEF Scan!Solscan
<1>13. CASE Scan!SolscanFails
  BY <1>13 DEF Scan!SolscanFails
<1>14. CASE Scan!Signatures
  BY <1>14 DEF Scan!Signatures
<1>15. CASE Scan!TransactionRead
  BY <1>15 DEF Scan!TransactionRead, Scan!SignatureGoesOn
<1>16. CASE Scan!TransactionSkipped
  BY <1>16 DEF Scan!TransactionSkipped, Scan!SignatureGoesOn
<1>17. CASE Scan!SignaturesOfWallet
  BY <1>17 DEF Scan!SignaturesOfWallet
<1>18. CASE Scan!SignaturesThrow
  BY <1>18 DEF Scan!SignaturesThrow
<1>19. CASE Scan!TronPage
  BY <1>19 DEF Scan!TronPage
<1>20. CASE Scan!TronPages
  BY <1>20 DEF Scan!TronPages
<1>21. CASE Scan!TronThrows
  BY <1>21 DEF Scan!TronThrows
<1>22. CASE Scan!BalanceRead
  BY <1>22 DEF Scan!BalanceRead
<1>23. CASE Scan!BalanceThrows
  BY <1>23 DEF Scan!BalanceThrows
<1>24. QED
  BY <1>1, <1>2, <1>3, <1>4, <1>5, <1>6, <1>7, <1>8, <1>9, <1>10, <1>11, <1>12, <1>13, <1>14, <1>15, <1>16, <1>17, <1>18, <1>19, <1>20, <1>21, <1>22, <1>23 DEF Scan!Next

LEMMA PlaceKeeps ==
  ASSUME ScanInv', next \in 0..NumBlocks, Scan!Next \/ UNCHANGED scans
  PROVE  next' \in 0..NumBlocks
<1>1. list' = "none" => next' \in 0..NumBlocks
  BY DEF ScanInv, PlaceIn
<1>2. list' = "none" \/ next' = next
  BY PlaceMoves DEF scans
<1>3. QED BY <1>1, <1>2

LEMMA ScanIsTyped == ASSUME ScanInv, next \in 0..NumBlocks PROVE Scan!TypeOK
<1>1. found \in Seq(Scan!Blocks)
  BY DepositsBusy DEF ScanInv, ScanTypes
<1>2. QED BY <1>1 DEF ScanInv, ScanTypes, Scan!TypeOK

\* What is kept of a transfer and of a scan, for their types.
ChainTypes == TransferInv /\ Attempts /\ Purses /\ ScanInv /\ next \in 0..NumBlocks

LEMMA ChainTypesInit == ASSUME Init PROVE ChainTypes
<1>1. Transfer!Init /\ Scan!Init
  BY DEF Init
<1>2. next \in 0..NumBlocks
  BY <1>1, ScanConstants DEF Scan!Init
<1>3. QED BY <1>1, <1>2, TransferInit, TransferTypesInit, ScanInit DEF ChainTypes

LEMMA ChainTypesKeep == ASSUME ChainTypes, [Next]_vars PROVE ChainTypes'
<1>1. [Transfer!Next]_(Transfer!vars) /\ (Scan!Next \/ UNCHANGED scans)
  BY DEF Next, vars, transfers, Transfer!vars, Transfer!callVars, Transfer!chain
<1>2. TransferInv' /\ Attempts' /\ Purses'
  BY <1>1, TransferKeeps, TransferTypesKeep DEF ChainTypes
<1>3. ScanInv'
  BY <1>1, ScanStep, ScanStays DEF ChainTypes, scans
<1>4. next' \in 0..NumBlocks
  BY <1>1, <1>3, PlaceKeeps DEF ChainTypes
<1>5. QED BY <1>2, <1>3, <1>4 DEF ChainTypes

-----------------------------------------------------------------------------
\* Whatever requests throw and however often the plan starts over, a call pays
\* as TransferPromise allows: sendWithdrawTransaction, sendTransactionToMain,
\* sendGasFromSupportWallet, ensureTargetHasSolUsdtAta.
THEOREM TransfersKeepPromise == Spec => KeepsPromise
<1>1. Init => TransferInv /\ Transfer!Promise!Init BY TransferInit DEF Init
<1>2. TransferInv /\ [Next]_vars => TransferInv' /\ [Transfer!Promise!Next]_(Transfer!Promise!vars)
  <2>1. [Next]_vars => [Transfer!Next]_(Transfer!vars)
    BY DEF Next, vars, transfers, Transfer!vars, Transfer!callVars, Transfer!chain
  <2>2. QED BY <2>1, TransferKeeps DEF PromiseStep
<1>3. QED BY <1>1, <1>2, PTL DEF Spec, KeepsPromise, Transfer!KeepsPromise, Transfer!Promise!Spec

\* What a scan of a chain returns are deposits to the address; and if none of
\* its requests failed and what there is fits its limits, all that it looks
\* for, each once: for chains and pages, chunks and limits of any length.
THEOREM ScanStaysExact == Spec => []ScanIsExact
<1>1. Init => ScanInv BY ScanInit DEF Init
<1>2. ScanInv /\ [Next]_vars => ScanInv'
  <2>1. [Next]_vars => Scan!Next \/ UNCHANGED scans BY DEF Next, vars
  <2>2. QED BY <2>1, ScanStep, ScanStays DEF scans
<1>3. ScanInv => ScanIsExact BY ScanInvExact DEF ScanIsExact
<1>4. QED BY <1>1, <1>2, <1>3, PTL DEF Spec

=============================================================================
