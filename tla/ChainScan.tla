----------------------------- MODULE ChainScan -----------------------------
(***************************************************************************)
(* How the deposits to an address are found on a chain: an explorer's list *)
(* page by page, the logs of a token chunk by chunk, whole blocks from the *)
(* head back, the signatures of a Solana account, the pages of a Tron      *)
(* node.  A call has a plan of sources, each asked only if those before    *)
(* found nothing, and every request may fail.  The balance of the address  *)
(* is read the same way.                                                   *)
(*                                                                         *)
(* A block has at most one transaction of the address; what a transfer is  *)
(* worth is left out.  No block is added during a call.                    *)
(*                                                                         *)
(* ChunkWide is a slip the property is tried against.                      *)
(***************************************************************************)
EXTENDS Naturals, Sequences, FiniteSets

CONSTANTS
  NumBlocks,  \* blocks of the chain, oldest first
  Window,     \* how many of them a call for recent deposits looks at
  PageSize,   \* rows on a page: 100 (EVM explorers), 200 (Tron)
  Chunk,      \* MAX_LOG_CHUNK_BLOCKS
  MaxTxs,     \* MAX_EXPLORER_TXS, MAX_DEPOSITS_ALL, the limit of signatures: 500
  BlocksBack, \* MAX_BLOCKS_NATIVE_SCAN_FALLBACK: how far back blocks are read,
  LogsBack,   \* and logs (500,000), without an explorer
  NumUrls     \* RPC endpoints of the network

Parameters ==
  /\ {NumBlocks, Window, PageSize, Chunk, MaxTxs, BlocksBack, LogsBack, NumUrls} \subseteq Nat \ {0}
  /\ PageSize <= MaxTxs

VARIABLES
  chain,   \* per block: a deposit "in", an "other" transaction of the address, or "none"
  call,    \* the network, native coin or token, all or recent deposits or the balance
  source,  \* the place in the plan
  url,     \* the endpoint in use
  at,      \* the next page, or the next block or row to look at (0: none was asked yet)
  found,   \* the blocks whose deposits are found so far
  failed,  \* history: some request failed
  result   \* "none", or what the call returned

vars == <<chain, call, source, url, at, found, failed, result>>

Blocks == 1..NumBlocks
Calls  == [net : {"evm", "sol", "tron"}, token : BOOLEAN, asks : {"all", "recent", "balance"}]

Least(a, b) == IF a < b THEN a ELSE b

\* Those of the rows that are in S (as SelectSeq has it, with a set for a test).
Only(rows, S) ==
  LET kept[n \in 0..Len(rows)] ==
        IF n = 0 THEN <<>> ELSE kept[n - 1] \o (IF rows[n] \in S THEN <<rows[n]>> ELSE <<>>)
  IN  kept[Len(rows)]

\* The blocks with transactions of the address, newest first.
Rows == Only([k \in Blocks |-> NumBlocks + 1 - k], {b \in Blocks : chain[b] # "none"})
Deposits == {b \in Blocks : chain[b] = "in"}
In(rows) == Only(rows, Deposits)

\* Where to look, for how many blocks or rows, and for how many deposits.
Src(kind, span, max) == [kind |-> kind, span |-> span, max |-> max]
Plan ==
  LET recent == call.asks = "recent"
      rows   == IF recent THEN Window ELSE MaxTxs
      top    == IF recent THEN Least(PageSize, Window) ELSE MaxTxs
  IN IF call.asks = "balance" THEN <<Src("balance", 0, 0)>> ELSE
     CASE call.net = "evm" /\ ~call.token ->
            <<Src("explorer", 0, top), Src("blocks", IF recent THEN Window ELSE BlocksBack, MaxTxs)>>
       [] call.net = "evm" /\ call.token /\ recent ->
            <<Src("logs", Window, MaxTxs), Src("explorer", 0, top), Src("logs", LogsBack, MaxTxs)>>
       [] call.net = "evm" /\ call.token /\ ~recent -> <<Src("explorer", 0, top), Src("logs", LogsBack, MaxTxs)>>
       [] call.net = "sol" /\ ~call.token -> <<Src("signatures", rows, 0)>>
       [] call.net = "sol" /\ call.token  -> <<Src("solscan", rows, 0), Src("signatures", rows, 0)>>
       [] call.net = "tron" ->
            <<IF recent THEN Src("page", Least(PageSize, 3 * Window), 0) ELSE Src("pages", 0, MaxTxs)>>
This == Plan[source]
At(kind) == result = "none" /\ This.kind = kind

Init ==
  /\ chain \in [Blocks -> {"in", "other", "none"}] /\ call \in Calls
  /\ source = 1 /\ url = 1 /\ at = 0 /\ found = <<>>
  /\ failed = FALSE /\ result = "none"

\* A source ends with what it has found: the next one is asked if that is
\* nothing.
EndsWith(list) ==
  /\ found' = list
  /\ IF list = <<>> /\ source < Len(Plan)
     THEN source' = source + 1 /\ url' = 1 /\ at' = 0 /\ UNCHANGED result
     ELSE result' = "list" /\ UNCHANGED <<source, url, at>>
GoesOn(next, list) == at' = next /\ found' = list /\ UNCHANGED <<source, url, result>>
NextUrl(kept) == url < NumUrls /\ url' = url + 1 /\ at' = 0 /\ found' = kept /\ UNCHANGED <<source, result>>
Kept  == UNCHANGED <<chain, call, failed>>
Fails == failed' = TRUE /\ UNCHANGED <<chain, call>>

-----------------------------------------------------------------------------
(* EVM chains.                                                             *)

\* fetchNativeTxsFromExplorer, fetchTokenTxsFromExplorer: a page is as long as
\* there are deposits wanted yet, the newest first; a page that is not full is
\* the last.
Page(p, size) == SubSeq(Rows, (p - 1) * size + 1, Least(p * size, Len(Rows)))
ExplorerPage ==
  /\ At("explorer") /\ Kept
  /\ LET rows == Page(at + 1, Least(PageSize, This.max - Len(found)))
         list == SubSeq(found \o In(rows), 1, Least(Len(found \o In(rows)), This.max))
     IN IF Len(rows) < PageSize \/ Len(list) = This.max THEN EndsWith(list) ELSE GoesOn(at + 1, list)
\* It throws or refuses the request: what is found so far is taken for all.
ExplorerFails == At("explorer") /\ Fails /\ EndsWith(found)

\* There is no key for an explorer of this network.
NoExplorer == (At("explorer") \/ At("solscan")) /\ at = 0 /\ Kept /\ EndsWith(<<>>)

\* scanNativeBlocks: one block after the other, from the head back.
FromBlock == IF This.span < NumBlocks THEN NumBlocks - This.span + 1 ELSE 1
ReadHead == (At("blocks") \/ At("logs")) /\ at = 0
HeadRead == ReadHead /\ Kept /\ GoesOn(IF This.kind = "blocks" THEN NumBlocks ELSE FromBlock, found)
BlockRead ==
  /\ At("blocks") /\ at # 0 /\ Kept
  /\ LET list == found \o In(<<at>>) IN
       IF at = FromBlock \/ Len(list) >= This.max THEN EndsWith(list) ELSE GoesOn(at - 1, list)
\* The node answers that it has no such block: it is passed over.
BlockUnknown ==
  /\ At("blocks") /\ at # 0 /\ Fails
  /\ IF at = FromBlock THEN EndsWith(found) ELSE GoesOn(at - 1, found)
\* It throws: the next URL starts again, with what is found already; after the
\* last one nothing was found.
BlocksThrow == At("blocks") /\ Fails /\ (NextUrl(found) \/ (url = NumUrls /\ EndsWith(<<>>)))

\* fetchTokenDepositsViaLogs: from the oldest block on; a chunk that cannot be
\* read, or a log whose block cannot, is passed over.
ChunkWide == Least(at + Chunk, NumBlocks)
ChunkEnd  == Least(at + Chunk - 1, NumBlocks)
Logs == In([k \in 1..ChunkEnd - at + 1 |-> at + k - 1])
LogsGoOn(logs) ==
  LET list == found \o SubSeq(logs, 1, Least(Len(logs), This.max - Len(found))) IN
    IF at + Chunk > NumBlocks \/ Len(list) >= This.max THEN EndsWith(list) ELSE GoesOn(at + Chunk, list)
LogsRead    == At("logs") /\ at # 0 /\ Kept /\ LogsGoOn(Logs)
LogSkipped  == At("logs") /\ at # 0 /\ Fails /\ \E b \in Blocks : LogsGoOn(Only(Logs, Blocks \ {b}))
LogsSkipped == At("logs") /\ at # 0 /\ Fails /\ LogsGoOn(<<>>)
LogsThrow   == At("logs") /\ at = 0 /\ Fails /\ (NextUrl(found) \/ (url = NumUrls /\ EndsWith(found)))

-----------------------------------------------------------------------------
(* Solana and Tron.                                                        *)

\* getSolanaTransactionsFromExplorer: one request.
Newest(n) == SubSeq(Rows, 1, Least(n, Len(Rows)))
Solscan == At("solscan") /\ Kept /\ EndsWith(In(Newest(This.span)))
SolscanFails == At("solscan") /\ Fails /\ EndsWith(<<>>)

\* getSolanaTransactions, getSolanaNativeDepositTransactions: the signatures,
\* then one transaction after the other; one that cannot be read is passed over.
Signatures ==
  /\ At("signatures") /\ at = 0 /\ Kept
  /\ IF Rows = <<>> THEN EndsWith(<<>>) ELSE GoesOn(1, <<>>)
SignatureGoesOn(list) ==
  IF at = Len(Newest(This.span)) THEN EndsWith(list) ELSE GoesOn(at + 1, list)
TransactionRead    == At("signatures") /\ at # 0 /\ Kept /\ SignatureGoesOn(found \o In(<<Rows[at]>>))
TransactionSkipped == At("signatures") /\ at # 0 /\ Fails /\ SignatureGoesOn(found)
\* Those of a token account cannot be read: those of the wallet instead.
SignaturesOfWallet ==
  /\ At("signatures") /\ at = 0 /\ call.token /\ Fails
  /\ IF Rows = <<>> THEN EndsWith(<<>>) ELSE GoesOn(1, <<>>)
SignaturesThrow ==
  At("signatures") /\ at = 0 /\ Fails /\ (NextUrl(<<>>) \/ (url = NumUrls /\ EndsWith(<<>>)))

\* fetchRecentDeposits on Tron: a page.  fetchAllDeposits: pages until there
\* are deposits enough, the newest of them; any error, and nothing was found.
TronPage == At("page") /\ Kept /\ EndsWith(In(Newest(This.span)))
TronPages ==
  /\ At("pages") /\ Kept
  /\ LET list == found \o In(Page(at + 1, PageSize)) IN
       IF (at + 1) * PageSize >= Len(Rows) \/ Len(list) >= This.max
       THEN EndsWith(SubSeq(list, 1, Least(Len(list), This.max)))
       ELSE GoesOn(at + 1, list)
TronThrows == (At("page") \/ At("pages")) /\ Fails /\ EndsWith(<<>>)

-----------------------------------------------------------------------------
(* The balance.                                                            *)

Returns(r) == result' = r /\ UNCHANGED <<source, url, at, found>>

\* getDepositBalanceOnChain.  If no endpoint answers, the balance is 0 on EVM
\* chains; the others throw, Tron at the first.
BalanceRead == At("balance") /\ Kept /\ Returns("balance")
BalanceThrows ==
  /\ At("balance") /\ Fails
  /\ IF call.net # "tron" /\ url < NumUrls
     THEN NextUrl(found)
     ELSE Returns(IF call.net = "evm" THEN "zero" ELSE "error")

Next ==
  \/ ExplorerPage \/ ExplorerFails \/ NoExplorer \/ HeadRead \/ BlockRead \/ BlockUnknown \/ BlocksThrow
  \/ LogsRead \/ LogSkipped \/ LogsSkipped \/ LogsThrow
  \/ Solscan \/ SolscanFails \/ Signatures \/ TransactionRead \/ TransactionSkipped
  \/ SignaturesOfWallet \/ SignaturesThrow \/ TronPage \/ TronPages \/ TronThrows \/ BalanceRead \/ BalanceThrows
Spec == Init /\ [][Next]_vars

-----------------------------------------------------------------------------
TypeOK ==
  /\ chain \in [Blocks -> {"in", "other", "none"}] /\ call \in Calls
  /\ source \in DOMAIN Plan /\ url \in 1..NumUrls /\ at \in 0..NumBlocks
  /\ found \in Seq(Blocks) /\ failed \in BOOLEAN
  /\ result \in {"none", "list", "balance", "zero", "error"}

\* What is found are deposits to the address.  If no request failed, a call
\* finds every deposit it looks for, once, as long as the pages it reads keep
\* their size: there are fewer rows than a page has, or, for all deposits, a
\* page fewer than are kept.
Reach ==
  CASE call.asks = "recent" -> Window
    [] call.asks = "all" /\ This.kind \in {"blocks", "logs"} -> This.span
    [] OTHER -> NumBlocks
Wanted == {b \in Deposits : b + Reach > NumBlocks}
Fits   == IF call.asks = "recent" THEN Len(Rows) < PageSize ELSE Len(Rows) + PageSize <= MaxTxs
ScanIsExact ==
  result = "list" =>
    /\ \A k \in DOMAIN found : found[k] \in Deposits
    /\ ~failed /\ Fits => /\ \A b \in Wanted : \E k \in DOMAIN found : found[k] = b
                          /\ \A k, l \in DOMAIN found : found[k] = found[l] => k = l

=============================================================================
