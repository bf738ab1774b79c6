------------------------------ MODULE Services ------------------------------
(***************************************************************************)
(* Services around the trading of users, side by side, as in Members: a    *)
(* behaviour is one of a single component, named by `which`.  The ones     *)
(* whose name ends in "exposed" meet faults under which their property is  *)
(* not promised; they keep their types, and what else is stated for them.  *)
(***************************************************************************)
EXTENDS Naturals

CONSTANTS
  NumUrls, Funds,                                    \* ChainTransfer
  Users, MaxLevel, MaxRewards, MaxHistory,           \* SmartRef
  Callers, Second, Limits, CacheFor,                 \* RpcLimiter
  NumConvs, MaxUnread,                               \* SupportChat
  Instances, Tabs, MaxNotes, MaxOpened,              \* Streams
  NumBlocks, Recent, PageSize, Chunk, MaxTxs, BlocksBack, LogsBack, \* ChainScan
  MaxCodes, CodeLife, TokenLife, MaxCuts,            \* Accounts
  Savers, Transfers, Threshold, MaxDeaths,            \* TransferFiles
  Owners, MaxRows, IdBase, MidBase                   \* DepositAddresses

VARIABLES
  which,
  call, url, at, scaled, create, sender, fee, account, last, depleted, paid, unseen, result, \* ChainTransfer
  uref, tree, joining, selling, rewards, history, request, payouts,        \* SmartRef
  setting, cached, age, given, queue, sleep, slots,                        \* RpcLimiter
  status, unread, chat, badge,                                             \* SupportChat
  tab, streams, ready, count, wire, notes, saving, channel, heardTo, opened, \* Streams
  blocks, scan, source, endpoint, next, found, failed, list,               \* ChainScan
  user, wallets, codes, session, access, refresh,              \* Accounts
  file, lock, save, saved, torn, deaths,                                   \* TransferFiles
  rows, creating, trackers, visit                                          \* DepositAddresses

Transfer == INSTANCE ChainTransfer

Referral        == INSTANCE SmartRef WITH Requests <- {"r1"}, Unseen <- FALSE
ReferralExposed == INSTANCE SmartRef WITH MaxRewards <- 1, Requests <- {"r1", "r2"}, Unseen <- TRUE

Limiter == INSTANCE RpcLimiter WITH Window <- Second

Chat == INSTANCE SupportChat WITH Requests <- {"r1"}, request <- chat

Stream        == INSTANCE Streams WITH Errors <- FALSE
StreamExposed == INSTANCE Streams WITH
  Instances <- {"i1", "i2"}, Tabs <- {"t1"}, MaxNotes <- 1, MaxOpened <- 2, Errors <- TRUE

Scan == INSTANCE ChainScan WITH
  Window <- Recent, chain <- blocks, call <- scan, url <- endpoint, at <- next, result <- list

SignIn == INSTANCE Accounts WITH Requests <- {"r1"}, request <- session

Files == INSTANCE TransferFiles WITH call <- save, Calls <- Savers

Base == [id |-> IdBase, mid |-> MidBase]
Addresses == INSTANCE DepositAddresses WITH
  Users <- Owners, Visits <- {"v1"}, Overlap <- FALSE, Crashes <- FALSE
AddressesExposed == INSTANCE DepositAddresses WITH
  Users <- {1}, Visits <- {"v1"}, MaxRows <- 2, Overlap <- TRUE, Crashes <- TRUE

ASSUME ServicesAssumption ==
  /\ Transfer!Parameters /\ Referral!Parameters /\ ReferralExposed!Parameters
  /\ Limiter!Parameters /\ Chat!Parameters /\ Stream!Parameters /\ StreamExposed!Parameters
  /\ Scan!Parameters /\ SignIn!Parameters /\ Files!Parameters
  /\ Addresses!Parameters /\ AddressesExposed!Parameters

transfers == <<call, url, at, scaled, create, sender, fee, account, last, depleted, paid, unseen, result>>
referral  == <<uref, tree, joining, selling, rewards, history, request, payouts>>
limiter   == <<setting, cached, age, given, queue, sleep, slots>>
chats     == <<status, unread, chat, badge>>
tabs      == <<tab, streams, ready, count, wire, notes, saving, channel, heardTo, opened>>
scans     == <<blocks, scan, source, endpoint, next, found, failed, list>>
signIn    == <<user, wallets, codes, session, access, refresh>>
files     == <<file, lock, save, saved, torn, deaths>>
addresses == <<rows, creating, trackers, visit>>
vars      == <<which, transfers, referral, limiter, chats, tabs, scans, signIn, files, addresses>>

\* A call that is not made, where another component runs.
NoTransfer ==
  /\ call = [op |-> "gas", net |-> "sol", token |-> FALSE]
  /\ sender = [coin |-> 0, gas |-> 0] /\ fee = 0 /\ account = FALSE /\ depleted = FALSE
NoScan ==
  /\ blocks = [b \in 1..NumBlocks |-> "none"]
  /\ scan = [net |-> "evm", token |-> FALSE, asks |-> "balance"]
NoLimiter == setting \in Limits /\ \A l \in Limits : setting <= l

Init ==
  /\ which \in {"transfer", "referral", "referral exposed", "limiter", "chat", "tabs", "tabs exposed",
               "scan", "accounts", "files", "addresses", "addresses exposed"}
  /\ which = "transfer" \/ NoTransfer
  /\ which = "scan" \/ NoScan
  /\ which = "limiter" \/ NoLimiter
  /\ IF which = "referral exposed" THEN ReferralExposed!Init ELSE Referral!Init
  /\ IF which = "tabs exposed" THEN StreamExposed!Init ELSE Stream!Init
  /\ Transfer!Init /\ Limiter!Init /\ Chat!Init /\ Scan!Init /\ SignIn!Init /\ Files!Init /\ Addresses!Init

Next ==
  /\ UNCHANGED which
  /\ \/ /\ which = "transfer" /\ Transfer!Next
        /\ UNCHANGED <<referral, limiter, chats, tabs, scans, signIn, files, addresses>>
     \/ /\ \/ which = "referral" /\ Referral!Next
           \/ which = "referral exposed" /\ ReferralExposed!Next
        /\ UNCHANGED <<transfers, limiter, chats, tabs, scans, signIn, files, addresses>>
     \/ /\ which = "limiter" /\ Limiter!Next
        /\ UNCHANGED <<transfers, referral, chats, tabs, scans, signIn, files, addresses>>
     \/ /\ which = "chat" /\ Chat!Next
        /\ UNCHANGED <<transfers, referral, limiter, tabs, scans, signIn, files, addresses>>
     \/ /\ \/ which = "tabs" /\ Stream!Next
           \/ which = "tabs exposed" /\ StreamExposed!Next
        /\ UNCHANGED <<transfers, referral, limiter, chats, scans, signIn, files, addresses>>
     \/ /\ which = "scan" /\ Scan!Next
        /\ UNCHANGED <<transfers, referral, limiter, chats, tabs, signIn, files, addresses>>
     \/ /\ which = "accounts" /\ SignIn!Next
        /\ UNCHANGED <<transfers, referral, limiter, chats, tabs, scans, files, addresses>>
     \/ /\ which = "files" /\ Files!Next
        /\ UNCHANGED <<transfers, referral, limiter, chats, tabs, scans, signIn, addresses>>
     \/ /\ \/ which = "addresses" /\ Addresses!Next
           \/ which = "addresses exposed" /\ AddressesExposed!Next
        /\ UNCHANGED <<transfers, referral, limiter, chats, tabs, scans, signIn, files>>

\* The fairness of DepositAddresses, for the behaviours in which it runs.
Fairly(A) == which = "addresses" /\ A
Fairness ==
  /\ WF_addresses(Fairly(Addresses!TrackSame("v1") \/ Addresses!TrackMoved("v1") \/ Addresses!TrackNew("v1")))
  /\ WF_addresses(Fairly(Addresses!InsertTracker("v1")))
  /\ SF_addresses(Fairly(Addresses!Look("v1", 1))) /\ SF_addresses(Fairly(Addresses!Look("v1", 2)))
  /\ WF_addresses(Fairly(\E c \in creating :
       Addresses!CopyWallet(c) \/ Addresses!InsertTemporary(c) \/ Addresses!SaveWallet(c)))

Spec == Init /\ [][Next]_vars /\ Fairness

-----------------------------------------------------------------------------
(* The properties, stated in the modules of the components.                *)

\* Every component keeps its types.
TypeOK ==
  CASE which = "transfer"          -> Transfer!TypeOK
    [] which = "referral"          -> Referral!TypeOK
    [] which = "referral exposed"  -> ReferralExposed!TypeOK
    [] which = "limiter"           -> Limiter!TypeOK
    [] which = "chat"              -> Chat!TypeOK
    [] which = "tabs"              -> Stream!TypeOK
    [] which = "tabs exposed"      -> StreamExposed!TypeOK
    [] which = "scan"              -> Scan!TypeOK
    [] which = "accounts"          -> SignIn!TypeOK
    [] which = "files"             -> Files!TypeOK
    [] which = "addresses"         -> Addresses!TypeOK
    [] which = "addresses exposed" -> AddressesExposed!TypeOK

\* An amount goes out once, and a hash was checked (sendWithdrawTransaction).
KeepsPromise == Transfer!KeepsPromise
\* A user's referrers are each other's (recordInviteeReferralChain).
ReferrersInOrder ==
  CASE which = "referral"         -> Referral!ReferrersInOrder
    [] which = "referral exposed" -> ReferralExposed!ReferrersInOrder
    [] OTHER -> TRUE
\* A reward is paid out once (withdrawMyReward).
RewardPaidOnce == which = "referral" => Referral!RewardPaidOnce
\* No second has more calls than the limit (acquireRpcSlot).
RateKept == Limiter!RateKept
\* The badge of the support inbox is what is unseen (getAdminUnreadSummary).
BadgeIsRight == Chat!BadgeIsRight
\* A tab hears each notification once (NotificationsStreamService).
HeardOnce == which = "tabs" => Stream!HeardOnce
\* A scan finds the deposits there are (fetchAllDeposits, fetchRecentDeposits).
ScanIsExact == Scan!ScanIsExact
\* A code is accepted once (verifyEmail, setNewPassword).
CodesKept == SignIn!CodesKept
\* What was saved is not lost (saveTransactions).
SavedIsKept == Files!SavedIsKept
\* What is tracked is what a sweep signs for (createWallet, trackingWallet).
TrackedIsSwept == <>[](which = "addresses" => Addresses!EachSwept)

=============================================================================
