--------------------------- MODULE ChainTransfer ---------------------------
(***************************************************************************)
(* One call that sends an amount on a chain: a withdrawal from the main    *)
(* wallet, a part of a sweep from a deposit address, gas or a token        *)
(* account from the wallet that pays fees.  A call is a plan of RPC        *)
(* requests.  Each may fail; on Solana and on EVM chains the whole plan is *)
(* tried again with the next URL, wherever it failed.  (The loops take a   *)
(* list; the settings name one URL for a network today.)                   *)
(*                                                                         *)
(* Amounts are small numbers: the amount and the fee of a transaction are  *)
(* 1, the margin on gas is left out.  A transaction executes when it is    *)
(* broadcast or never, and the fee of one that fails is not taken.         *)
(*                                                                         *)
(* ReceiptNotRead is a slip the properties are tried against.              *)
(***************************************************************************)
EXTENDS Naturals, Sequences

CONSTANTS
  NumUrls,  \* RPC endpoints that are tried for a network
  Funds     \* what the sending wallet and the fee wallet may hold at first

Parameters == NumUrls \in Nat \ {0} /\ Funds \subseteq Nat

Amount == 1
TxFee  == 1
Rent   == 1   \* creating the token account of the receiver

VARIABLES
  call,      \* what is asked for: the operation, the network, native coin or token
  url,       \* the endpoint in use
  at,        \* the place in the plan
  scaled,    \* the decimals of the token are the default of 18, not its own
  create,    \* the transaction also creates the receiver's token account
  sender,    \* what the sending wallet holds of the token and of the native coin
  fee,       \* what the fee wallet holds of the native coin
  account,   \* the receiver has a token account
  last,      \* what became of the last broadcast of this attempt
  depleted,  \* feeSupportDepletedNetworks has the network
  paid, unseen, result  \* as in TransferPromise

callVars == <<call, url, at, scaled, create, last>>
chain    == <<sender, fee, account, paid>>
vars     == <<callVars, chain, depleted, unseen, result>>

Networks == {"sol", "evm", "tron"}
Calls ==
  [op : {"withdraw", "sweep"}, net : Networks, token : BOOLEAN]
    \cup [op : {"gas"}, net : Networks, token : {FALSE}]
    \cup [op : {"account"}, net : {"sol"}, token : {FALSE}]

\* The requests of a call, in order: sendWithdrawTransaction, ...
SolWithdraw  == <<"read", "send", "confirm">>
SolWithdrawToken == <<"read", "holds", "receiver", "read", "simulate", "send", "confirm">>
EvmWithdraw(token) ==
  IF token THEN <<"decimals", "mayHold", "read", "gas", "send", "receipt">>
           ELSE <<"read", "gas", "holds", "send", "receipt">>
TronWithdraw(token) ==
  IF token THEN <<"delegate", "read", "send", "answer">> ELSE <<"delegate", "send", "answer">>
\* ... sendTransactionToMain, ...
SolSweep(token) ==
  IF token THEN <<"read", "holds", "receiver", "read", "payer", "send", "confirm">>
           ELSE <<"send", "confirm">>
EvmSweep(token)  ==
  IF token THEN <<"read", "send", "receipt">> ELSE <<"holds", "read", "send", "receipt">>
TronSweep(token) == IF token THEN <<"read", "send", "answer">> ELSE <<"send", "answer">>
\* ... sendGasFromSupportWallet, and ensureTargetHasSolUsdtAta, which pays for
\* the token account of the wallet that collects what is swept.
SolGas    == <<"known", "supports", "send", "settle">>
EvmGas    == <<"known", "supports", "send", "receipt">>
TronGas   == <<"known", "delegate">>
AccountFor == <<"exists", "known", "rent", "read", "send", "settle">>

Plan(c) ==
  CASE c.op = "account" -> AccountFor
    [] c.op = "withdraw" /\ c.net = "sol"  -> IF c.token THEN SolWithdrawToken ELSE SolWithdraw
    [] c.op = "withdraw" /\ c.net = "evm"  -> EvmWithdraw(c.token)
    [] c.op = "withdraw" /\ c.net = "tron" -> TronWithdraw(c.token)
    [] c.op = "sweep"    /\ c.net = "sol"  -> SolSweep(c.token)
    [] c.op = "sweep"    /\ c.net = "evm"  -> EvmSweep(c.token)
    [] c.op = "sweep"    /\ c.net = "tron" -> TronSweep(c.token)
    [] c.op = "gas"      /\ c.net = "sol"  -> SolGas
    [] c.op = "gas"      /\ c.net = "evm"  -> EvmGas
    [] c.op = "gas"      /\ c.net = "tron" -> TronGas

Step(s) == result = "none" /\ last # "lost" /\ Plan(call)[at] = s

-----------------------------------------------------------------------------
Init ==
  /\ call \in Calls
  /\ url = 1 /\ at = 1 /\ scaled = FALSE /\ create = FALSE /\ last = "none"
  /\ sender \in [coin : {0} \cup Funds, gas : {0} \cup Funds] /\ fee \in {0} \cup Funds
  /\ account \in BOOLEAN /\ depleted \in BOOLEAN
  /\ paid = 0 /\ unseen = 0 /\ result = "none"

Ends(r) == result' = r /\ UNCHANGED callVars

\* What the caller gets once the plan is done: the delegation of resources on
\* Tron has a hash only if it went through, and an account has none.
Advance ==
  /\ UNCHANGED depleted
  /\ IF at < Len(Plan(call))
     THEN at' = at + 1 /\ UNCHANGED <<call, url, scaled, create, last, result>>
     ELSE Ends(IF call.op = "account" THEN "null" ELSE "hash")

\* A request throws: the next URL, or the error of the last one.  Sending gas
\* on an EVM chain or creating an account returns null instead, and some
\* errors count as an empty wallet.
Swallowed ==
  \/ call.op = "account" /\ create /\ Plan(call)[at] # "rent"
  \/ call.op = "gas" /\ call.net = "evm" /\ url = NumUrls
Throws ==
  IF Swallowed
  THEN Ends("null") /\ depleted' \in {depleted, TRUE}
  ELSE /\ UNCHANGED depleted
       /\ IF call.net # "tron" /\ url < NumUrls
          THEN /\ url' = url + 1 /\ at' = 1
               /\ scaled' = FALSE /\ create' = FALSE /\ last' = "none"
               /\ UNCHANGED <<call, result>>
          ELSE Ends("error")

Request(s) == Step(s) /\ UNCHANGED <<chain, unseen>>

\* Read a mint, a block hash, prices: go on or throw.
Read == Request("read") /\ (Advance \/ Throws)

\* The decimals of a token on an EVM chain: 18 if they cannot be read.
Decimals ==
  /\ Request("decimals")
  /\ \/ Advance
     \/ at' = at + 1 /\ scaled' = TRUE /\ UNCHANGED <<call, url, create, last, depleted, result>>

\* What the transaction takes from the sender; 18 decimals make it more than
\* any wallet holds.
Sent == IF call.op = "account" THEN 0 ELSE IF scaled THEN 1000 ELSE Amount
Holding == IF call.op \in {"gas", "account"} THEN fee ELSE IF call.token THEN sender.coin ELSE sender.gas

\* The sender holds the amount (and the fee, in native coin), or it throws.
Holds ==
  /\ Request("holds")
  /\ \/ Holding >= Sent + (IF call.token THEN 0 ELSE TxFee) /\ Advance
     \/ Throws
\* The same for a token on an EVM chain, which goes on if it cannot be read.
MaybeHolds ==
  /\ Request("mayHold")
  /\ Advance \/ (Holding < Sent /\ Throws)

\* The receiver's token account: any error is taken for a missing account.
Create == at' = at + 1 /\ create' = TRUE /\ UNCHANGED <<call, url, scaled, last, depleted, result>>
Receiver == Request("receiver") /\ ((account /\ Advance) \/ Create)
Exists   == Request("exists") /\ ((account /\ UNCHANGED depleted /\ Ends("null")) \/ Create)

\* The fee wallet has the rent of an account.
RentPaid ==
  /\ Request("rent")
  /\ (fee >= Rent /\ Advance) \/ (fee < Rent /\ UNCHANGED depleted /\ Ends("null")) \/ Throws

PaysFee == Request("payer") /\ ((sender.gas >= TxFee /\ Advance) \/ Throws)

\* Who pays for a transaction, and whether the chain can execute it.
FeePayer == IF call.op \in {"gas", "account"} \/ (call.op = "withdraw" /\ call.net = "sol") THEN "fee" ELSE "sender"
Cost == IF call.net = "tron" THEN 0 ELSE TxFee + (IF create THEN Rent ELSE 0)
Same == ~call.token /\ ~(call.op = "withdraw" /\ call.net = "sol")   \* one purse pays both
Executable ==
  /\ Holding >= Sent + (IF Same THEN Cost ELSE 0)
  /\ (IF FeePayer = "fee" THEN fee ELSE sender.gas) >= Cost
  /\ ~(create /\ account)

\* A simulation that finds an error throws; one that cannot be made does not.
Simulate == Request("simulate") /\ (Advance \/ (~Executable /\ Throws))

\* No gas is sent from a wallet known to be empty.
Known == Request("known") /\ (IF depleted THEN UNCHANGED depleted /\ Ends("null") ELSE Advance)

\* The fee wallet can spare the amount, or it counts as empty from now on.  On
\* an EVM chain the other URLs are asked first.
Supports ==
  /\ Step("supports") /\ UNCHANGED <<chain, unseen>>
  /\ \/ fee >= Amount /\ Advance
     \/ Throws
     \/ /\ fee < Amount
        /\ IF call.net = "evm" /\ url < NumUrls
           THEN Throws
           ELSE depleted' = TRUE /\ Ends("null")

\* Errors of a delegation are swallowed; sent as gas, it is all there is, and
\* what throws before it may count as an empty wallet.
Delegate ==
  /\ Request("delegate")
  /\ Advance \/ (call.op = "gas" /\ depleted' \in {depleted, TRUE} /\ Ends("null"))

\* ensureEvmMainHasGas: the fee wallet fills up what the main wallet lacks, for
\* a native coin the amount included.
EnsureGas ==
  /\ Step("gas") /\ UNCHANGED <<account, paid, unseen>>
  /\ LET min  == TxFee + (IF call.token THEN 0 ELSE Amount)
         need == min - sender.gas
     IN \/ sender.gas >= min /\ Advance /\ UNCHANGED <<sender, fee>>
        \/ Throws /\ UNCHANGED <<sender, fee>>
        \/ /\ sender.gas < min /\ fee >= need + TxFee
           /\ sender' = [sender EXCEPT !.gas = min] /\ fee' = fee - need - TxFee
           /\ Advance \/ Throws

\* The transaction executes: the amount goes out, the fee is paid.
Executes ==
  /\ Executable
  /\ paid' = paid + 1
  /\ account' = (account \/ create)
  /\ fee' = fee - (IF call.op = "gas" THEN Sent ELSE 0) - (IF FeePayer = "fee" THEN Cost ELSE 0)
  /\ sender' =
       [coin |-> sender.coin - (IF call.token THEN Sent ELSE 0),
        gas  |-> sender.gas - (IF call.op \in {"withdraw", "sweep"} /\ ~call.token THEN Sent ELSE 0)
                            - (IF FeePayer = "sender" THEN Cost ELSE 0)]

\* A broadcast is answered, or throws.
Send ==
  /\ Step("send") /\ UNCHANGED <<depleted, unseen>>
  /\ \E executes \in BOOLEAN :
       /\ IF executes THEN Executes ELSE UNCHANGED chain
       /\ last' = IF executes THEN "executed" ELSE "failed"
  /\ at' = at + 1 /\ UNCHANGED <<call, url, scaled, create, result>>
SendThrows == Step("send") /\ Throws /\ UNCHANGED <<chain, unseen>>

\* The chain has the transaction, but broadcasting it or waiting for it throws.
Lost == last' = "lost" /\ unseen' = unseen + 1 /\ UNCHANGED <<call, url, at, scaled, create, depleted, result>>
SendUnseen == Step("send") /\ Executes /\ Lost
WaitUnseen(s) == Step(s) /\ last = "executed" /\ Lost /\ UNCHANGED chain
ThrowsUnseen == result = "none" /\ last = "lost" /\ Throws /\ UNCHANGED <<chain, unseen>>

\* confirmTransaction on Solana: the error of a transaction that failed is in
\* the answer, which is not looked at.
Confirm == (Request("confirm") /\ (Advance \/ (last = "failed" /\ Throws))) \/ WaitUnseen("confirm")
\* The answer of a Tron node names the transaction, or the call throws.
Answer ==
  (Request("answer") /\ (Advance \/ (last = "failed" /\ Throws))) \/ WaitUnseen("answer")
\* wait on an EVM chain: there is a receipt of a transaction that has executed.
ReceiptNotRead == (Request("receipt") /\ Advance) \/ WaitUnseen("receipt")
Receipt ==
  (Request("receipt") /\ ((last = "executed" /\ Advance) \/ (last = "failed" /\ Throws))) \/ WaitUnseen("receipt")
\* What goes wrong while gas or an account is confirmed on Solana is swallowed.
Settle ==
  /\ Request("settle")
  /\ Advance \/ (call.op = "account" /\ Throws)

Next ==
  \/ Read \/ Decimals \/ Holds \/ MaybeHolds \/ Receiver \/ Exists \/ RentPaid \/ PaysFee \/ Simulate \/ Known \/ Supports
  \/ Delegate \/ EnsureGas \/ Send \/ SendThrows \/ SendUnseen \/ ThrowsUnseen \/ Confirm \/ Answer \/ Receipt \/ Settle
Spec == Init /\ [][Next]_vars

-----------------------------------------------------------------------------
TypeOK ==
  /\ call \in Calls /\ url \in 1..NumUrls /\ at \in 1..Len(Plan(call))
  /\ {scaled, create, account, depleted} \subseteq BOOLEAN
  /\ sender \in [coin : Nat, gas : Nat] /\ fee \in Nat
  /\ last \in {"none", "executed", "failed", "lost"}
  /\ paid \in 0..NumUrls /\ unseen \in 0..NumUrls
  /\ result \in {"none", "hash", "null", "error"}

\* Whichever requests fail and whichever endpoints are tried, the amount goes
\* out once more than answers to a broadcast were lost, never more often, and
\* on an EVM chain a hash stands for a payment.  (On Solana and on Tron a hash
\* is returned for a transaction that failed on the chain.)
Promise == INSTANCE TransferPromise WITH checked <- (call.net = "evm")
KeepsPromise == Promise!Spec

=============================================================================
