--------------------------- MODULE DeliveryLifecycle ---------------------------
(***************************************************************************)
(* The life of a delivery, and of the money that follows it, under         *)
(* concurrent requests: app/domain/services/capture_service.py,            *)
(* shipment_workflow_service.py, delivery_service.py, the routes and       *)
(* webhooks that call them, and the worker that cancels expired deliveries.*)
(*                                                                         *)
(* A session is one SQLAlchemy AsyncSession serving one request on         *)
(* PostgreSQL at READ COMMITTED.  Three facts about it shape the model:    *)
(*   - SELECT ... FOR UPDATE waits for the row lock and holds it until the *)
(*     session commits or rolls back;                                      *)
(*   - the session keeps an identity map: a row that it has already loaded *)
(*     as an object, and that is still referenced, keeps its loaded        *)
(*     attributes when it is selected again, FOR UPDATE included (no query *)
(*     of the repository asks for populate_existing);                      *)
(*   - a flush writes the attributes that differ from the loaded ones, and *)
(*     only those, whatever the row holds by then.                         *)
(* The entry points differ in whether they load the delivery before the    *)
(* service locks it; that is the field "obj" of a session.                 *)
(***************************************************************************)
EXTENDS Integers, Sequences, FiniteSets

CONSTANTS
    Deliveries,       \* delivery ids
    Couriers,         \* users with an approved courier account
    Stations,         \* station ids
    StationOf,        \* the station of each delivery, None for a direct one
    Fee,              \* the fee of each delivery
    Sessions,         \* database sessions that may be open at the same time
    Entry,            \* the entry points each session may serve
    InitialWallets,   \* couriers that have a wallet at the start
    WalletLimit,      \* credit limit of those wallets
    NewWalletLimit,   \* credit limit of a wallet created by a capture
    Fickle,           \* couriers that stations may put on their blacklist
    None              \* SQL NULL, and "no session"

EntryPoints == {"capture", "link", "approve", "reject", "deliver", "release",
                "cancel", "auto_cancel"}

ASSUME ConstantsAssumption ==
    /\ StationOf \in [Deliveries -> Stations \cup {None}]
    /\ Fee \in [Deliveries -> Nat]
    /\ Entry \in [Sessions -> SUBSET EntryPoints]
    /\ InitialWallets \subseteq Couriers
    /\ WalletLimit \in Int /\ WalletLimit <= 0
    /\ NewWalletLimit \in Int /\ NewWalletLimit <= 0
    /\ Fickle \subseteq Couriers
    /\ None \notin Deliveries \cup Couriers \cup Stations \cup Sessions

VARIABLES
    deliveries,   \* committed row of each delivery
    wallets,      \* couriers that have a committed courier_wallets row
    balance,      \* committed balance of each courier's wallet
    ledger,       \* committed wallet_ledger rows of each courier, in order
    commissions,  \* deliveries with a COMMISSION_CREDIT row in station_ledger
    blacklist,    \* <<station, courier>> rows of station_blacklist
    tx,           \* what each session is doing
    rowLock,      \* the session that holds the lock of each delivery row
    walletLock    \* the session that holds the lock of each wallet row

money == <<wallets, balance, ledger, commissions>>
vars == <<deliveries, money, blacklist, tx, rowLock, walletLock>>

-----------------------------------------------------------------------------
(* Rows *)

(* IN_PROGRESS is accepted by mark_delivered but no code ever sets it. *)
Status == {"OPEN", "PENDING_APPROVAL", "CAPTURED", "IN_PROGRESS", "DELIVERED",
           "CANCELLED"}

Uncaptured == {"OPEN", "PENDING_APPROVAL"}

Delivery == [status : Status,
             courier : Couriers \cup {None},
             requester : Couriers \cup {None},
             decision : {"approved", "rejected", None}]

NewDelivery == [status |-> "OPEN", courier |-> None, requester |-> None,
                decision |-> None]

LedgerEntry == [delivery : Deliveries, type : {"DEBIT", "REFUND"},
                amount : Int, balance_after : Int]

(* The unique key (courier_id, delivery_id, entry_type) of wallet_ledger. *)
HasEntry(c, d, type) ==
    \E i \in DOMAIN ledger[c] : ledger[c][i].delivery = d /\ ledger[c][i].type = type

(* Courier c has paid for d and was not refunded. *)
Charged(c, d) == HasEntry(c, d, "DEBIT") /\ ~HasEntry(c, d, "REFUND")

LimitOf(c) == IF c \in InitialWallets THEN WalletLimit ELSE NewWalletLimit

Blocked(c, d) == <<StationOf[d], c>> \in blacklist

-----------------------------------------------------------------------------
(* Sessions *)

Operations == {"capture", "request", "approve", "reject", "deliver", "release",
               "cancel", "auto_cancel"}

(* pc: "idle"; "lock", about to lock the delivery row; "update", about to  *)
(* write it without having locked it; "wallet", about to lock the wallet;  *)
(* "insert", no wallet was found; "write", both rows are locked.           *)
Transaction == [pc : {"idle", "lock", "update", "wallet", "insert", "write"},
                op : Operations \cup {None},
                del : Deliveries \cup {None},
                cour : Couriers \cup {None},
                obj : Delivery \cup {None},
                seen : Int]

Idle == [pc |-> "idle", op |-> None, del |-> None, cour |-> None,
         obj |-> None, seen |-> 0]

(* The object the session's SELECT ... FOR UPDATE returns: the one in its  *)
(* identity map when the row was loaded before, else the row.              *)
Loaded(s) == IF tx[s].obj = None THEN deliveries[tx[s].del] ELSE tx[s].obj

(* The row after a session flushes "new", loaded as "old", and commits. *)
Flush(d, old, new) ==
    LET Column(f) == IF new[f] # old[f] THEN new[f] ELSE deliveries[d][f]
    IN  deliveries' = [deliveries EXCEPT ![d] =
            [status |-> Column("status"), courier |-> Column("courier"),
             requester |-> Column("requester"), decision |-> Column("decision")]]

RowFree(s) == rowLock[tx[s].del] = None

(* Commit, rollback and close release every lock of the session. *)
Unlock(s, locks) == [k \in DOMAIN locks |-> IF locks[k] = s THEN None ELSE locks[k]]

End(s) ==
    /\ tx' = [tx EXCEPT ![s] = Idle]
    /\ rowLock' = Unlock(s, rowLock)
    /\ walletLock' = Unlock(s, walletLock)

Start(s, pc, op, d, c, obj) ==
    /\ tx' = [tx EXCEPT ![s] = [pc |-> pc, op |-> op, del |-> d, cour |-> c,
                                obj |-> obj, seen |-> 0]]
    /\ UNCHANGED <<deliveries, money, blacklist, rowLock, walletLock>>

-----------------------------------------------------------------------------
(* Entry points: the part of a request that precedes the service's lock. *)

(* POST /deliveries/{id}/capture *)
CaptureRoute(s, d, c) ==
    Start(s, "lock", "capture", d, c, None)

(* A capture_<token> message: the delivery is loaded by an unlocked select *)
(* and its station decides which service locks it.                         *)
FollowLink(s, d, c) ==
    Start(s, "lock", IF StationOf[d] # None THEN "request" ELSE "capture",
          d, c, deliveries[d])

(* The dispatcher's button or command: the webhook loads the delivery to   *)
(* learn its station.                                                      *)
DispatcherDecides(s, op, d) ==
    /\ StationOf[d] # None
    /\ Start(s, "lock", op, d, None, deliveries[d])

(* POST /deliveries/{id}/deliver *)
DeliverRoute(s, d) ==
    Start(s, "lock", "deliver", d, None, None)

(* release_delivery has no caller in the application yet. *)
ReleaseCall(s, d, c) ==
    Start(s, "lock", "release", d, c, None)

(* DELETE /deliveries/{id}: reads the delivery and its status, no lock. *)
CancelRoute(s, d) ==
    /\ deliveries[d].status = "OPEN"
    /\ Start(s, "update", "cancel", d, None, deliveries[d])

(* auto_cancel_expired_deliveries: the batch it reads stays referenced     *)
(* while the deliveries are cancelled one by one.  Any delivery may have   *)
(* expired.                                                                *)
SelectExpired(s, d) ==
    /\ deliveries[d].status \in Uncaptured
    /\ Start(s, "lock", "auto_cancel", d, None, deliveries[d])

Begin(s) ==
    /\ tx[s].pc = "idle"
    /\ \E d \in Deliveries :
        \/ "capture" \in Entry[s] /\ \E c \in Couriers : CaptureRoute(s, d, c)
        \/ "link" \in Entry[s] /\ \E c \in Couriers : FollowLink(s, d, c)
        \/ "approve" \in Entry[s] /\ DispatcherDecides(s, "approve", d)
        \/ "reject" \in Entry[s] /\ DispatcherDecides(s, "reject", d)
        \/ "deliver" \in Entry[s] /\ DeliverRoute(s, d)
        \/ "release" \in Entry[s] /\ \E c \in Couriers : ReleaseCall(s, d, c)
        \/ "cancel" \in Entry[s] /\ CancelRoute(s, d)
        \/ "auto_cancel" \in Entry[s] /\ SelectExpired(s, d)

-----------------------------------------------------------------------------
(* Under the row lock: the status checks, on the loaded object *)

CaptureAdmits(obj, d, c) ==
    \/ obj.status = "OPEN" /\ StationOf[d] = None
    \/ obj.status = "PENDING_APPROVAL" /\ obj.requester = c

ReleaseAdmits(obj, c) == obj.status = "CAPTURED" /\ obj.courier = c

ExpiryAdmits(obj) == obj.status \in Uncaptured

Admits(op, obj, d, c) ==
    \/ op = "capture" /\ CaptureAdmits(obj, d, c)
    \/ op = "request" /\ obj.status = "OPEN" /\ ~Blocked(c, d)
    \/ /\ op \in {"approve", "reject"}
       /\ obj.status = "PENDING_APPROVAL" /\ obj.requester # None
       /\ op = "approve" => ~Blocked(obj.requester, d)
    \/ op = "deliver" /\ obj.status \in {"CAPTURED", "IN_PROGRESS"}
    \/ op = "release" /\ ReleaseAdmits(obj, c)
    \/ op = "auto_cancel" /\ ExpiryAdmits(obj)

Locking(s, ops) ==
    /\ tx[s].pc = "lock" /\ tx[s].op \in ops
    /\ RowFree(s)

Proceeds(s) == Admits(tx[s].op, Loaded(s), tx[s].del, tx[s].cour)

(* An early return under the lock; the session closes without a change. *)
Refuse(s) ==
    /\ Locking(s, Operations) /\ ~Proceeds(s)
    /\ End(s)
    /\ UNCHANGED <<deliveries, money, blacklist>>

(* Fault: the select that checks the status does not lock. *)
CheckDelivery(s) ==
    /\ Locking(s, {"capture", "approve", "release"}) /\ Proceeds(s)
    /\ tx' = [tx EXCEPT ![s].pc = "wallet",
                        ![s].cour = IF tx[s].op = "approve" THEN Loaded(s).requester ELSE @]
    /\ UNCHANGED <<deliveries, money, blacklist, rowLock, walletLock>>

(* capture_delivery, approve_delivery and release_delivery go on to lock a *)
(* wallet; the courier of an approval is the requester on the object.      *)
LockDelivery(s) ==
    /\ Locking(s, {"capture", "approve", "release"}) /\ Proceeds(s)
    /\ tx' = [tx EXCEPT ![s].pc = "wallet",
                        ![s].cour = IF tx[s].op = "approve" THEN Loaded(s).requester ELSE @]
    /\ rowLock' = [rowLock EXCEPT ![tx[s].del] = s]
    /\ UNCHANGED <<deliveries, money, blacklist, walletLock>>

(* The other operations touch no wallet: lock, check, write and commit are *)
(* one step, since nobody else can write the locked row in between.        *)
Request(s) ==
    /\ Locking(s, {"request"}) /\ Proceeds(s)
    /\ LET obj == Loaded(s) IN
       Flush(tx[s].del, obj, [obj EXCEPT !.status = "PENDING_APPROVAL",
                                         !.requester = tx[s].cour,
                                         !.decision = None])
    /\ End(s)
    /\ UNCHANGED <<money, blacklist>>

(* Fault: the decision is written to the status column. *)
RejectIntoStatus(s) ==
    /\ Locking(s, {"reject"}) /\ Proceeds(s)
    /\ LET obj == Loaded(s) IN
       Flush(tx[s].del, obj, [obj EXCEPT !.status = "rejected", !.requester = None])
    /\ End(s)
    /\ UNCHANGED <<money, blacklist>>

Reject(s) ==
    /\ Locking(s, {"reject"}) /\ Proceeds(s)
    /\ LET obj == Loaded(s) IN
       Flush(tx[s].del, obj, [obj EXCEPT !.status = "OPEN", !.requester = None,
                                         !.decision = "rejected"])
    /\ End(s)
    /\ UNCHANGED <<money, blacklist>>

(* A second COMMISSION_CREDIT for the delivery breaks the unique key of    *)
(* station_ledger: mark_delivered rolls back and returns None.             *)
CommissionDue(d) == StationOf[d] # None /\ Fee[d] > 0

(* Fault: the commission is left to a later transaction. *)
MarkDeliveredUncredited(s) ==
    /\ Locking(s, {"deliver"}) /\ Proceeds(s)
    /\ Flush(tx[s].del, Loaded(s), [Loaded(s) EXCEPT !.status = "DELIVERED"])
    /\ End(s)
    /\ UNCHANGED <<money, blacklist>>

MarkDelivered(s) ==
    /\ Locking(s, {"deliver"}) /\ Proceeds(s)
    /\ LET d == tx[s].del
           obj == Loaded(s)
       IN IF CommissionDue(d) /\ d \in commissions
          THEN UNCHANGED <<deliveries, commissions>>
          ELSE /\ Flush(d, obj, [obj EXCEPT !.status = "DELIVERED"])
               /\ commissions' = IF CommissionDue(d) THEN commissions \cup {d}
                                                     ELSE commissions
    /\ End(s)
    /\ UNCHANGED <<wallets, balance, ledger, blacklist>>

AutoCancel(s) ==
    /\ Locking(s, {"auto_cancel"}) /\ Proceeds(s)
    /\ Flush(tx[s].del, Loaded(s), [Loaded(s) EXCEPT !.status = "CANCELLED"])
    /\ End(s)
    /\ UNCHANGED <<money, blacklist>>

(* cancel_delivery never locks: its UPDATE waits for the row lock, then     *)
(* writes the status it decided on when it read the row.                   *)
Cancel(s) ==
    /\ tx[s].pc = "update" /\ RowFree(s)
    /\ Flush(tx[s].del, tx[s].obj, [tx[s].obj EXCEPT !.status = "CANCELLED"])
    /\ End(s)
    /\ UNCHANGED <<money, blacklist>>

-----------------------------------------------------------------------------
(* Under both locks: the wallet *)

(* Fault: the limit is compared with the balance before the fee. *)
OverdrawsAlready(s, bal) == bal < LimitOf(tx[s].cour)

Overdraws(s, bal) == bal - Fee[tx[s].del] < LimitOf(tx[s].cour)

(* Fault: the wallet is read without a lock. *)
ReadWallet(s) ==
    /\ tx[s].pc = "wallet" /\ tx[s].cour \in wallets
    /\ IF tx[s].op # "release" /\ Overdraws(s, balance[tx[s].cour])
       THEN End(s)
       ELSE /\ tx' = [tx EXCEPT ![s].pc = "write", ![s].seen = balance[tx[s].cour]]
            /\ UNCHANGED <<rowLock, walletLock>>
    /\ UNCHANGED <<deliveries, money, blacklist>>

(* Fault: the refusal returns and leaves the transaction open. *)
LockWalletLeavingOpen(s) ==
    /\ tx[s].pc = "wallet" /\ tx[s].cour \in wallets
    /\ walletLock[tx[s].cour] = None
    /\ IF tx[s].op # "release" /\ Overdraws(s, balance[tx[s].cour])
       THEN tx' = [tx EXCEPT ![s] = Idle] /\ UNCHANGED <<rowLock, walletLock>>
       ELSE /\ tx' = [tx EXCEPT ![s].pc = "write", ![s].seen = balance[tx[s].cour]]
            /\ walletLock' = [walletLock EXCEPT ![tx[s].cour] = s]
            /\ UNCHANGED rowLock
    /\ UNCHANGED <<deliveries, money, blacklist>>

LockWallet(s) ==
    /\ tx[s].pc = "wallet" /\ tx[s].cour \in wallets
    /\ walletLock[tx[s].cour] = None
    /\ IF tx[s].op # "release" /\ Overdraws(s, balance[tx[s].cour])
       THEN End(s)
       ELSE /\ tx' = [tx EXCEPT ![s].pc = "write", ![s].seen = balance[tx[s].cour]]
            /\ walletLock' = [walletLock EXCEPT ![tx[s].cour] = s]
            /\ UNCHANGED rowLock
    /\ UNCHANGED <<deliveries, money, blacklist>>

(* SELECT ... FOR UPDATE found no wallet, so it locked nothing.  A release *)
(* always finds one: whoever holds a delivery was charged for it.          *)
FindNoWallet(s) ==
    /\ tx[s].pc = "wallet" /\ tx[s].op # "release" /\ tx[s].cour \notin wallets
    /\ tx' = [tx EXCEPT ![s].pc = "insert"]
    /\ UNCHANGED <<deliveries, money, blacklist, rowLock, walletLock>>

(* One more row in the courier's ledger and its balance_after in the       *)
(* wallet, computed from the balance the session read.                     *)
Post(c, d, type, amount, seen) ==
    /\ ledger' = [ledger EXCEPT ![c] =
                     Append(@, [delivery |-> d, type |-> type, amount |-> amount,
                                balance_after |-> seen + amount])]
    /\ balance' = [balance EXCEPT ![c] = seen + amount]

(* Fault: approve_delivery sets the decision after its commit. *)
WriteCaptureUndecided(s, seen) ==
    LET d == tx[s].del
        c == tx[s].cour
    IN  /\ Flush(d, Loaded(s), [Loaded(s) EXCEPT !.status = "CAPTURED", !.courier = c])
        /\ Post(c, d, "DEBIT", -Fee[d], seen)
        /\ UNCHANGED commissions

(* The writes of capture_delivery, and of approve_delivery around it, in   *)
(* one transaction.  approve_delivery refreshes the object before it sets  *)
(* the decision.                                                           *)
WriteCapture(s, seen) ==
    LET d == tx[s].del
        c == tx[s].cour
        obj == [Loaded(s) EXCEPT !.decision = deliveries[d].decision]
    IN  /\ Flush(d, obj, [obj EXCEPT !.status = "CAPTURED", !.courier = c,
                           !.decision = IF tx[s].op = "approve" THEN "approved" ELSE @])
        /\ Post(c, d, "DEBIT", -Fee[d], seen)
        /\ UNCHANGED commissions

(* The INSERT of a wallet with balance 0 loses to a wallet committed since *)
(* FindNoWallet.  On a refusal the insert is rolled back, except behind a  *)
(* link, where the webhook commits the session to complete the message.    *)
InsertWallet(s) ==
    /\ tx[s].pc = "insert"
    /\ LET c == tx[s].cour IN
       CASE c \in wallets ->
              UNCHANGED <<deliveries, money>>
         [] c \notin wallets /\ Overdraws(s, 0) ->
              /\ wallets' = IF tx[s].op = "capture" /\ tx[s].obj # None
                            THEN wallets \cup {c} ELSE wallets
              /\ UNCHANGED <<deliveries, balance, ledger, commissions>>
         [] OTHER ->
              /\ wallets' = wallets \cup {c}
              /\ WriteCapture(s, 0)
    /\ End(s)
    /\ UNCHANGED blacklist

(* A second debit of the courier for this delivery breaks the unique key:  *)
(* the whole capture rolls back.                                           *)
Capture(s) ==
    /\ tx[s].pc = "write" /\ tx[s].op \in {"capture", "approve"}
    /\ IF HasEntry(tx[s].cour, tx[s].del, "DEBIT")
       THEN UNCHANGED <<deliveries, money>>
       ELSE WriteCapture(s, tx[s].seen) /\ UNCHANGED wallets
    /\ End(s)
    /\ UNCHANGED blacklist

(* Fault: the refund is committed, the delivery stays captured. *)
ReleaseRefundOnly(s) ==
    /\ tx[s].pc = "write" /\ tx[s].op = "release"
    /\ Post(tx[s].cour, tx[s].del, "REFUND", Fee[tx[s].del], tx[s].seen)
    /\ End(s)
    /\ UNCHANGED <<deliveries, wallets, commissions, blacklist>>

(* Fault: a released delivery keeps its courier. *)
ReleaseKeepingHolder(s) ==
    /\ tx[s].pc = "write" /\ tx[s].op = "release"
    /\ Post(tx[s].cour, tx[s].del, "REFUND", Fee[tx[s].del], tx[s].seen)
    /\ Flush(tx[s].del, Loaded(s), [Loaded(s) EXCEPT !.status = "OPEN"])
    /\ End(s)
    /\ UNCHANGED <<wallets, commissions, blacklist>>

(* The REFUND key is never taken: the holder has not been refunded. *)
ReleaseDelivery(s) ==
    /\ tx[s].pc = "write" /\ tx[s].op = "release"
    /\ LET d == tx[s].del
           obj == Loaded(s)
       IN /\ Post(tx[s].cour, d, "REFUND", Fee[d], tx[s].seen)
          /\ Flush(d, obj, [obj EXCEPT !.status = "OPEN", !.courier = None])
    /\ End(s)
    /\ UNCHANGED <<wallets, commissions, blacklist>>

-----------------------------------------------------------------------------
(* Station owners edit the blacklist in transactions of their own. *)

AddToBlacklist(st, c) ==
    /\ <<st, c>> \notin blacklist
    /\ blacklist' = blacklist \cup {<<st, c>>}
    /\ UNCHANGED <<deliveries, money, tx, rowLock, walletLock>>

RemoveFromBlacklist(st, c) ==
    /\ <<st, c>> \in blacklist
    /\ blacklist' = blacklist \ {<<st, c>>}
    /\ UNCHANGED <<deliveries, money, tx, rowLock, walletLock>>

-----------------------------------------------------------------------------
Init ==
    /\ deliveries = [d \in Deliveries |-> NewDelivery]
    /\ wallets = InitialWallets
    /\ balance = [c \in Couriers |-> 0]
    /\ ledger = [c \in Couriers |-> <<>>]
    /\ commissions = {}
    /\ blacklist = {}
    /\ tx = [s \in Sessions |-> Idle]
    /\ rowLock = [d \in Deliveries |-> None]
    /\ walletLock = [c \in Couriers |-> None]

Step(s) ==
    \/ Refuse(s) \/ LockDelivery(s) \/ Request(s) \/ Reject(s)
    \/ MarkDelivered(s) \/ AutoCancel(s) \/ Cancel(s)
    \/ LockWallet(s) \/ FindNoWallet(s) \/ InsertWallet(s)
    \/ Capture(s) \/ ReleaseDelivery(s)

Next ==
    \/ \E s \in Sessions : Begin(s) \/ Step(s)
    \/ \E st \in Stations, c \in Fickle :
          AddToBlacklist(st, c) \/ RemoveFromBlacklist(st, c)

Spec == Init /\ [][Next]_vars
-----------------------------------------------------------------------------
(* What holds of every interleaving of every entry point *)

(* Type invariant. *)
TypeOK ==
    /\ deliveries \in [Deliveries -> Delivery]
    /\ wallets \subseteq Couriers
    /\ balance \in [Couriers -> Int]
    /\ ledger \in [Couriers -> Seq(LedgerEntry)]
    /\ commissions \subseteq Deliveries
    /\ blacklist \subseteq Stations \X Couriers
    /\ tx \in [Sessions -> Transaction]
    /\ rowLock \in [Deliveries -> Sessions \cup {None}]
    /\ walletLock \in [Couriers -> Sessions \cup {None}]

(* The ledger explains the wallet: each entry's balance_after is the one   *)
(* before it plus the entry's amount, and the last one is the balance      *)
(* (capture_service.py 142-167 and 280-294 compute both from the balance   *)
(* read under the wallet lock, so no concurrent charge may be lost).       *)
BalanceAfter(c, i) == IF i = 0 THEN 0 ELSE ledger[c][i].balance_after

LedgerExplainsBalance ==
    \A c \in Couriers :
        /\ \A i \in DOMAIN ledger[c] :
              ledger[c][i].balance_after = BalanceAfter(c, i - 1) + ledger[c][i].amount
        /\ balance[c] = BalanceAfter(c, Len(ledger[c]))

(* No sequence of captures, by any mix of sessions, takes a wallet below   *)
(* its credit limit (the check at capture_service.py 146).                 *)
CreditRespected == \A c \in Couriers : balance[c] >= LimitOf(c)

(* Whoever holds a captured or delivered delivery has paid for it and has  *)
(* not been refunded, even when stale writes move the status around.       *)
HolderIsCharged ==
    \A d \in Deliveries :
        deliveries[d].status \in {"CAPTURED", "DELIVERED"} =>
            /\ deliveries[d].courier # None
            /\ Charged(deliveries[d].courier, d)

(* A delivered station delivery has its commission on the station ledger:  *)
(* mark_delivered writes both or neither (delivery_service.py 179-223).    *)
DeliveredIsCommissioned ==
    \A d \in Deliveries :
        deliveries[d].status = "DELIVERED" /\ CommissionDue(d) => d \in commissions

-----------------------------------------------------------------------------
(* What the documents promise, and what holds when requests that move the  *)
(* same uncaptured delivery do not overlap                                 *)

(* A delivery is paid for by at most one courier at a time ("row locks     *)
(* prevent a double capture", ARCHITECTURE.md 71).                         *)
OneCourierCharged ==
    \A d \in Deliveries : \A c1, c2 \in Couriers :
        Charged(c1, d) /\ Charged(c2, d) => c1 = c2

(* A station's delivery is captured only through its dispatcher's approval *)
(* (capture_service.py 115).                                               *)
StationCaptureApproved ==
    \A d \in Deliveries :
        deliveries[d].status = "CAPTURED" /\ StationOf[d] # None
            => deliveries[d].decision = "approved"

(* The services implement the atomic contract: every commit is one of its  *)
(* steps, everything else a stutter.                                       *)
Contract == INSTANCE DeliveryContract WITH
    status  <- [d \in Deliveries |-> deliveries[d].status],
    wanted  <- [d \in Deliveries |-> IF deliveries[d].status = "PENDING_APPROVAL"
                                     THEN deliveries[d].requester ELSE None],
    holder  <- [d \in Deliveries |-> deliveries[d].courier],
    charged <- {cd \in Couriers \X Deliveries : Charged(cd[1], cd[2])}

ImplementsContract == Contract!Spec

-----------------------------------------------------------------------------
(* Progress.  PostgreSQL queues the sessions that wait for a row lock, and *)
(* a handler runs to its end, so a session that can step again and again   *)
(* does step: strong fairness of each session's steps.                     *)
FairSpec == Spec /\ \A s \in Sessions : SF_vars(Step(s))

(* Every request ends: no two of them wait for each other's rows for ever, *)
(* and no early return keeps a lock that another one needs.                *)
EveryRequestEnds == \A s \in Sessions : tx[s].pc # "idle" ~> tx[s].pc = "idle"

=============================================================================
