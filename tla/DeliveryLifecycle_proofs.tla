------------------------ MODULE DeliveryLifecycle_proofs ------------------------
(***************************************************************************)
(* Theorems about DeliveryLifecycle, for any number of deliveries,         *)
(* couriers, stations and sessions, and any entry points.                  *)
(***************************************************************************)
EXTENDS DeliveryLifecycle, TLAPS

(* What a session's fields are at each of its steps. *)
TxInv ==
    \A s \in Sessions :
        /\ tx[s].pc # "idle" => tx[s].del \in Deliveries /\ tx[s].op \in Operations
        /\ tx[s].pc # "idle" /\ tx[s].op \in {"capture", "request", "release"}
              => tx[s].cour \in Couriers
        /\ tx[s].pc \in {"wallet", "insert", "write"}
              => tx[s].cour \in Couriers /\ tx[s].op \in {"capture", "approve", "release"}
        /\ tx[s].pc = "insert" => tx[s].op # "release"
        /\ tx[s].pc = "update" => tx[s].obj \in Delivery

TypeInv == TypeOK /\ TxInv

-----------------------------------------------------------------------------
(* Lemmas about the operators the actions are built from *)

(* The object of a session at work is a delivery row. *)
LEMMA LoadedType ==
    ASSUME TypeInv, NEW s \in Sessions, tx[s].pc # "idle"
    PROVE  Loaded(s) \in Delivery
  BY DEF TypeInv, TypeOK, TxInv, Transaction, Loaded

(* A flush leaves well-formed rows. *)
LEMMA FlushType ==
    ASSUME deliveries \in [Deliveries -> Delivery], NEW d \in Deliveries,
           NEW old \in Delivery, NEW new \in Delivery, Flush(d, old, new)
    PROVE  deliveries' \in [Deliveries -> Delivery]
  BY DEF Flush, Delivery

(* The end of a session leaves well-formed sessions and locks. *)
LEMMA EndType ==
    ASSUME TypeInv, NEW s \in Sessions, End(s)
    PROVE  /\ tx' \in [Sessions -> Transaction]
           /\ rowLock' \in [Deliveries -> Sessions \cup {None}]
           /\ walletLock' \in [Couriers -> Sessions \cup {None}]
           /\ \A t \in Sessions : tx'[t] = IF t = s THEN Idle ELSE tx[t]
  <1>1. Idle \in Transaction
    BY DEF Idle, Transaction
  <1> QED
    BY <1>1 DEF TypeInv, TypeOK, End, Unlock

(* Posting to a ledger keeps ledgers and balances well formed. *)
LEMMA PostType ==
    ASSUME TypeInv, NEW c \in Couriers, NEW d \in Deliveries,
           NEW type \in {"DEBIT", "REFUND"}, NEW amount \in Int, NEW seen \in Int,
           Post(c, d, type, amount, seen)
    PROVE  /\ ledger' \in [Couriers -> Seq(LedgerEntry)]
           /\ balance' \in [Couriers -> Int]
  <1> DEFINE e == [delivery |-> d, type |-> type, amount |-> amount,
                   balance_after |-> seen + amount]
  <1>1. e \in LedgerEntry
    BY DEF LedgerEntry
  <1>2. Append(ledger[c], e) \in Seq(LedgerEntry)
    BY <1>1 DEF TypeInv, TypeOK
  <1> QED
    BY <1>2 DEF TypeInv, TypeOK, Post

(* A session that ends leaves TxInv behind. *)
LEMMA EndTxInv ==
    ASSUME TypeInv, NEW s \in Sessions, End(s)
    PROVE  TxInv'
  <1>1. \A t \in Sessions : tx'[t] = IF t = s THEN Idle ELSE tx[t]
    BY EndType
  <1> QED
    BY <1>1 DEF TypeInv, TxInv, Idle

(* So does one that starts with well-formed fields. *)
LEMMA StartType ==
    ASSUME TypeInv, ConstantsAssumption, NEW s \in Sessions,
           NEW pc \in {"lock", "update"}, NEW op \in Operations, NEW d \in Deliveries,
           NEW c \in Couriers \cup {None}, NEW obj \in Delivery \cup {None},
           op \in {"capture", "request", "release"} => c \in Couriers,
           pc = "update" => obj \in Delivery,
           Start(s, pc, op, d, c, obj)
    PROVE  TypeInv'
  <1> DEFINE T == [pc |-> pc, op |-> op, del |-> d, cour |-> c, obj |-> obj, seen |-> 0]
  <1>1. T \in Transaction
    BY DEF Transaction
  <1>2. tx' = [tx EXCEPT ![s] = T]
    BY DEF Start
  <1>3. TypeOK'
    BY <1>1, <1>2 DEF TypeInv, TypeOK, Start, money
  <1>4. TxInv'
    BY <1>2 DEF TypeInv, TypeOK, TxInv
  <1> QED
    BY <1>3, <1>4 DEF TypeInv

-----------------------------------------------------------------------------
(* The writes of a capture keep rows, ledgers and balances well formed. *)
LEMMA WriteCaptureType ==
    ASSUME TypeInv, ConstantsAssumption, NEW s \in Sessions,
           tx[s].pc \in {"insert", "write"}, NEW seen \in Int, WriteCapture(s, seen)
    PROVE  /\ deliveries' \in [Deliveries -> Delivery]
           /\ ledger' \in [Couriers -> Seq(LedgerEntry)]
           /\ balance' \in [Couriers -> Int]
           /\ UNCHANGED commissions
  <1> DEFINE d == tx[s].del
             c == tx[s].cour
             obj == [Loaded(s) EXCEPT !.decision = deliveries[d].decision]
             new == [obj EXCEPT !.status = "CAPTURED", !.courier = c,
                        !.decision = IF tx[s].op = "approve" THEN "approved" ELSE @]
  <1>1. d \in Deliveries /\ c \in Couriers
    BY DEF TypeInv, TxInv
  <1>2. Loaded(s) \in Delivery
    BY LoadedType
  <1>3. obj \in Delivery
    BY <1>1, <1>2 DEF TypeInv, TypeOK, Delivery
  <1>4. new \in Delivery
    BY <1>1, <1>3 DEF Delivery, Status
  <1>5. Flush(d, obj, new)
    BY DEF WriteCapture
  <1>6. deliveries' \in [Deliveries -> Delivery]
    <2>1. deliveries \in [Deliveries -> Delivery]
      BY DEF TypeInv, TypeOK
    <2> QED
      BY ONLY <1>1, <1>3, <1>4, <1>5, <2>1, FlushType
  <1>7. Post(c, d, "DEBIT", -Fee[d], seen) /\ -Fee[d] \in Int
    BY <1>1 DEF WriteCapture, ConstantsAssumption
  <1> HIDE DEF d, c
  <1>8. ledger' \in [Couriers -> Seq(LedgerEntry)] /\ balance' \in [Couriers -> Int]
    BY <1>1, <1>7, PostType
  <1> QED
    BY <1>6, <1>8 DEF WriteCapture

(* Every step of a session, and every entry point, keeps TypeInv. *)
LEMMA BeginType ==
    ASSUME TypeInv, ConstantsAssumption, NEW s \in Sessions, Begin(s)
    PROVE  TypeInv'
  <1> PICK d \in Deliveries :
        \/ \E c \in Couriers : CaptureRoute(s, d, c)
        \/ \E c \in Couriers : FollowLink(s, d, c)
        \/ DispatcherDecides(s, "approve", d)
        \/ DispatcherDecides(s, "reject", d)
        \/ DeliverRoute(s, d)
        \/ \E c \in Couriers : ReleaseCall(s, d, c)
        \/ CancelRoute(s, d)
        \/ SelectExpired(s, d)
    BY DEF Begin
  <1> deliveries[d] \in Delivery
    BY DEF TypeInv, TypeOK
  <1>1. CASE \E c \in Couriers : CaptureRoute(s, d, c)
    BY <1>1, StartType DEF CaptureRoute, Operations
  <1>2. CASE \E c \in Couriers : FollowLink(s, d, c)
    BY <1>2, StartType DEF FollowLink, Operations
  <1>3. CASE DispatcherDecides(s, "approve", d)
    BY <1>3, StartType DEF DispatcherDecides, Operations
  <1>4. CASE DispatcherDecides(s, "reject", d)
    BY <1>4, StartType DEF DispatcherDecides, Operations
  <1>5. CASE DeliverRoute(s, d)
    BY <1>5, StartType DEF DeliverRoute, Operations
  <1>6. CASE \E c \in Couriers : ReleaseCall(s, d, c)
    BY <1>6, StartType DEF ReleaseCall, Operations
  <1>7. CASE CancelRoute(s, d)
    BY <1>7, StartType DEF CancelRoute, Operations
  <1>8. CASE SelectExpired(s, d)
    BY <1>8, StartType DEF SelectExpired, Operations
  <1> QED
    BY <1>1, <1>2, <1>3, <1>4, <1>5, <1>6, <1>7, <1>8

LEMMA StepType ==
    ASSUME TypeInv, ConstantsAssumption, NEW s \in Sessions, Step(s)
    PROVE  TypeInv'
  <1> DEFINE d == tx[s].del
             obj == Loaded(s)
  <1>a. deliveries \in [Deliveries -> Delivery]
    BY DEF TypeInv, TypeOK
  <1>b. tx[s].pc # "idle" => d \in Deliveries /\ obj \in Delivery
    BY LoadedType DEF TypeInv, TxInv
  <1>c. ASSUME End(s), UNCHANGED blacklist,
               deliveries' \in [Deliveries -> Delivery], wallets' \subseteq Couriers,
               balance' \in [Couriers -> Int], ledger' \in [Couriers -> Seq(LedgerEntry)],
               commissions' \subseteq Deliveries
        PROVE  TypeInv'
    <2>1. TypeOK'
      BY <1>c, EndType DEF TypeInv, TypeOK
    <2>2. TxInv'
      BY <1>c, EndTxInv
    <2> QED
      BY <2>1, <2>2 DEF TypeInv
  <1>d. /\ wallets \subseteq Couriers /\ balance \in [Couriers -> Int]
        /\ ledger \in [Couriers -> Seq(LedgerEntry)] /\ commissions \subseteq Deliveries
    BY DEF TypeInv, TypeOK
  <1>e. ASSUME tx[s].pc # "idle", NEW new \in Delivery, Flush(d, obj, new), End(s),
               UNCHANGED <<money, blacklist>>
        PROVE  TypeInv'
    <2>1. deliveries' \in [Deliveries -> Delivery]
      BY ONLY <1>a, <1>b, <1>e, FlushType
    <2> QED
      BY <1>c, <1>d, <1>e, <2>1 DEF money
  <1>f. tx[s] \in Transaction
    BY DEF TypeInv, TypeOK
  <1>1. CASE Refuse(s)
    BY <1>1, <1>a, <1>c, <1>d DEF Refuse, money
  <1>2. CASE LockDelivery(s)
    <2>1. /\ tx[s].pc = "lock" /\ tx[s].op \in {"capture", "approve", "release"}
          /\ Admits(tx[s].op, obj, d, tx[s].cour)
      BY <1>2 DEF LockDelivery, Locking, Proceeds
    <2>2. d \in Deliveries /\ obj \in Delivery
      BY <2>1, <1>b
    <2> DEFINE c == IF tx[s].op = "approve" THEN obj.requester ELSE tx[s].cour
    <2>3. c \in Couriers
      <3>1. CASE tx[s].op = "approve"
        BY <2>1, <2>2, <3>1 DEF Admits, Delivery
      <3>2. CASE tx[s].op # "approve"
        BY <2>1, <3>2 DEF TypeInv, TxInv
      <3> QED
        BY <3>1, <3>2
    <2> HIDE DEF c
    <2>4. tx' = [tx EXCEPT ![s] = [tx[s] EXCEPT !.pc = "wallet", !.cour = c]]
      BY <1>2 DEF LockDelivery, c
    <2>5. [tx[s] EXCEPT !.pc = "wallet", !.cour = c] \in Transaction
      BY <1>f, <2>3 DEF Transaction
    <2>6. TypeOK'
      <3>1. /\ rowLock' = [rowLock EXCEPT ![d] = s]
            /\ UNCHANGED <<deliveries, money, blacklist, walletLock>>
        BY <1>2 DEF LockDelivery
      <3> QED
        BY <2>2, <2>4, <2>5, <3>1 DEF TypeInv, TypeOK, money
    <2>7. TxInv'
      BY <2>1, <2>2, <2>3, <2>4 DEF TypeInv, TypeOK, TxInv, Transaction
    <2> QED
      BY <2>6, <2>7 DEF TypeInv
  <1>3. CASE Request(s)
    <2>1. tx[s].pc # "idle" /\ tx[s].cour \in Couriers
      BY <1>3 DEF Request, Locking, TypeInv, TxInv
    <2>2. [obj EXCEPT !.status = "PENDING_APPROVAL", !.requester = tx[s].cour,
                      !.decision = None] \in Delivery
      BY <2>1, <1>b DEF Delivery, Status
    <2> QED
      BY <1>3, <1>e, <2>1, <2>2 DEF Request
  <1>4. CASE Reject(s)
    <2>1. tx[s].pc # "idle"
      BY <1>4 DEF Reject, Locking
    <2>2. [obj EXCEPT !.status = "OPEN", !.requester = None,
                      !.decision = "rejected"] \in Delivery
      BY <2>1, <1>b DEF Delivery, Status
    <2> QED
      BY <1>4, <1>e, <2>1, <2>2 DEF Reject
  <1>5. CASE MarkDelivered(s)
    <2>1. tx[s].pc # "idle" /\ End(s)
      BY <1>5 DEF MarkDelivered, Locking
    <2>2. [obj EXCEPT !.status = "DELIVERED"] \in Delivery
      BY <2>1, <1>b DEF Delivery, Status
    <2>3. commissions' \subseteq Deliveries
      BY <1>5, <2>1, <1>b, <1>d DEF MarkDelivered
    <2>4. deliveries' \in [Deliveries -> Delivery]
      <3>1. UNCHANGED deliveries \/ Flush(d, obj, [obj EXCEPT !.status = "DELIVERED"])
        BY <1>5 DEF MarkDelivered
      <3> QED
        BY ONLY <3>1, <2>1, <2>2, <1>a, <1>b, FlushType
    <2> QED
      BY <1>5, <1>c, <1>d, <2>1, <2>3, <2>4 DEF MarkDelivered
  <1>6. CASE AutoCancel(s)
    <2>1. tx[s].pc # "idle"
      BY <1>6 DEF AutoCancel, Locking
    <2>2. [obj EXCEPT !.status = "CANCELLED"] \in Delivery
      BY <2>1, <1>b DEF Delivery, Status
    <2> QED
      BY <1>6, <1>e, <2>1, <2>2 DEF AutoCancel
  <1>7. CASE Cancel(s)
    <2>1. tx[s].pc # "idle" /\ tx[s].obj \in Delivery
      BY <1>7 DEF Cancel, TypeInv, TxInv
    <2>2. [tx[s].obj EXCEPT !.status = "CANCELLED"] \in Delivery
      BY <2>1 DEF Delivery, Status
    <2>3. deliveries' \in [Deliveries -> Delivery]
      <3>1. Flush(d, tx[s].obj, [tx[s].obj EXCEPT !.status = "CANCELLED"])
        BY <1>7 DEF Cancel
      <3> QED
        BY ONLY <3>1, <2>1, <2>2, <1>a, <1>b, FlushType
    <2> QED
      BY <1>7, <1>c, <1>d, <2>3 DEF Cancel, money
  <1>8. CASE LockWallet(s)
    <2>1. tx[s].pc = "wallet" /\ tx[s].cour \in Couriers
      BY <1>8 DEF LockWallet, TypeInv, TxInv
    <2>2. CASE End(s)
      BY <1>8, <1>a, <1>c, <1>d, <2>2 DEF LockWallet, money
    <2>3. CASE ~End(s)
      <3>1. /\ tx' = [tx EXCEPT ![s].pc = "write", ![s].seen = balance[tx[s].cour]]
            /\ walletLock' = [walletLock EXCEPT ![tx[s].cour] = s]
            /\ UNCHANGED <<rowLock, deliveries, money, blacklist>>
        BY <1>8, <2>3 DEF LockWallet
      <3>2. balance[tx[s].cour] \in Int
        BY <2>1, <1>d
      <3>3. [tx[s] EXCEPT !.pc = "write", !.seen = balance[tx[s].cour]] \in Transaction
        BY <1>f, <3>2 DEF Transaction
      <3>4. TypeOK'
        BY <2>1, <3>1, <3>3 DEF TypeInv, TypeOK, money
      <3>5. TxInv'
        BY <2>1, <3>1 DEF TypeInv, TypeOK, TxInv, Transaction
      <3> QED
        BY <3>4, <3>5 DEF TypeInv
    <2> QED
      BY <2>2, <2>3
  <1>9. CASE FindNoWallet(s)
    <2>1. /\ tx[s].pc = "wallet" /\ tx[s].op # "release"
          /\ tx' = [tx EXCEPT ![s].pc = "insert"]
          /\ UNCHANGED <<deliveries, money, blacklist, rowLock, walletLock>>
      BY <1>9 DEF FindNoWallet
    <2>2. [tx[s] EXCEPT !.pc = "insert"] \in Transaction
      BY <1>f DEF Transaction
    <2>3. TypeOK'
      BY <2>1, <2>2 DEF TypeInv, TypeOK, money
    <2>4. TxInv'
      BY <2>1 DEF TypeInv, TypeOK, TxInv, Transaction
    <2> QED
      BY <2>3, <2>4 DEF TypeInv
  <1>10. CASE InsertWallet(s)
    <2>1. tx[s].pc = "insert" /\ tx[s].cour \in Couriers
      BY <1>10 DEF InsertWallet, TypeInv, TxInv
    <2>2. \/ UNCHANGED <<deliveries, money>>
          \/ /\ wallets' \in {wallets, wallets \cup {tx[s].cour}}
             /\ UNCHANGED <<deliveries, balance, ledger, commissions>>
          \/ wallets' = wallets \cup {tx[s].cour} /\ WriteCapture(s, 0)
      BY <1>10 DEF InsertWallet
    <2>3. /\ deliveries' \in [Deliveries -> Delivery] /\ wallets' \subseteq Couriers
          /\ balance' \in [Couriers -> Int] /\ ledger' \in [Couriers -> Seq(LedgerEntry)]
          /\ commissions' \subseteq Deliveries
      BY <1>a, <1>d, <2>1, <2>2, WriteCaptureType DEF money
    <2> QED
      BY <1>10, <1>c, <2>3 DEF InsertWallet
  <1>11. CASE Capture(s)
    <2>1. tx[s].pc = "write" /\ tx[s].seen \in Int
      BY <1>11 DEF Capture, TypeInv, TypeOK, Transaction
    <2>2. \/ UNCHANGED <<deliveries, money>>
          \/ WriteCapture(s, tx[s].seen) /\ UNCHANGED wallets
      BY <1>11 DEF Capture
    <2>3. /\ deliveries' \in [Deliveries -> Delivery] /\ wallets' \subseteq Couriers
          /\ balance' \in [Couriers -> Int] /\ ledger' \in [Couriers -> Seq(LedgerEntry)]
          /\ commissions' \subseteq Deliveries
      BY <1>a, <1>d, <2>1, <2>2, WriteCaptureType DEF money
    <2> QED
      BY <1>11, <1>c, <2>3 DEF Capture
  <1>12. CASE ReleaseDelivery(s)
    <2>1. /\ tx[s].pc = "write" /\ tx[s].cour \in Couriers /\ tx[s].seen \in Int
          /\ d \in Deliveries /\ obj \in Delivery
      BY <1>12, <1>b DEF ReleaseDelivery, TypeInv, TypeOK, TxInv, Transaction
    <2>2. [obj EXCEPT !.status = "OPEN", !.courier = None] \in Delivery
      BY <2>1 DEF Delivery, Status
    <2>3. Flush(d, obj, [obj EXCEPT !.status = "OPEN", !.courier = None])
      BY <1>12 DEF ReleaseDelivery
    <2>4. deliveries' \in [Deliveries -> Delivery]
      BY ONLY <2>1, <2>2, <2>3, <1>a, FlushType
    <2>5. Post(tx[s].cour, d, "REFUND", Fee[d], tx[s].seen) /\ Fee[d] \in Int
      BY <1>12, <2>1 DEF ReleaseDelivery, ConstantsAssumption
    <2> HIDE DEF d
    <2>6. ledger' \in [Couriers -> Seq(LedgerEntry)] /\ balance' \in [Couriers -> Int]
      BY <2>1, <2>5, PostType
    <2> QED
      BY <1>12, <1>c, <1>d, <2>4, <2>6 DEF ReleaseDelivery
  <1> QED
    BY <1>1, <1>2, <1>3, <1>4, <1>5, <1>6, <1>7, <1>8, <1>9, <1>10, <1>11, <1>12
    DEF Step

-----------------------------------------------------------------------------
(* Type correctness: every reachable state is well formed, whatever the    *)
(* sessions serve and however they interleave.                             *)
LEMMA TypeInvariant == Spec => []TypeInv
  <1>1. Init => TypeInv
    <2> SUFFICES ASSUME Init PROVE TypeInv
      OBVIOUS
    <2>1. Idle \in Transaction /\ NewDelivery \in Delivery /\ \A s \in Sessions : tx[s].pc = "idle"
      BY DEF Idle, Transaction, NewDelivery, Delivery, Status, Init
    <2>2. TypeOK
      BY <2>1, ConstantsAssumption DEF Init, TypeOK, ConstantsAssumption
    <2>3. TxInv
      BY <2>1 DEF TxInv
    <2> QED
      BY <2>2, <2>3 DEF TypeInv
  <1>2. TypeInv /\ [Next]_vars => TypeInv'
    <2> SUFFICES ASSUME TypeInv, [Next]_vars PROVE TypeInv'
      OBVIOUS
    <2>1. ASSUME NEW s \in Sessions, Begin(s) PROVE TypeInv'
      BY <2>1, BeginType, ConstantsAssumption
    <2>2. ASSUME NEW s \in Sessions, Step(s) PROVE TypeInv'
      BY <2>2, StepType, ConstantsAssumption
    <2>3. ASSUME NEW st \in Stations, NEW c \in Fickle,
                 AddToBlacklist(st, c) \/ RemoveFromBlacklist(st, c)
          PROVE  TypeInv'
      <3>1. c \in Couriers
        BY ConstantsAssumption DEF ConstantsAssumption
      <3>2. TypeOK'
        BY <2>3, <3>1 DEF AddToBlacklist, RemoveFromBlacklist, money, TypeInv, TypeOK
      <3>3. TxInv'
        BY <2>3 DEF AddToBlacklist, RemoveFromBlacklist, TypeInv, TxInv
      <3> QED
        BY <3>2, <3>3 DEF TypeInv
    <2>4. CASE UNCHANGED vars
      BY <2>4 DEF vars, money, TypeInv, TypeOK, TxInv
    <2> QED
      BY <2>1, <2>2, <2>3, <2>4 DEF Next
  <1> QED
    BY <1>1, <1>2, PTL DEF Spec

(* Every reachable state of the services is well formed.                   *)
THEOREM TypeCorrect == Spec => []TypeOK
  <1>1. TypeInv => TypeOK
    BY DEF TypeInv
  <1> QED
    BY <1>1, TypeInvariant, PTL

-----------------------------------------------------------------------------
(* The wallets.  A session that is about to write has the wallet's lock    *)
(* and the balance it read is still the balance; a courier without a       *)
(* wallet has no ledger.                                                   *)
WriterInv ==
    \A s \in Sessions :
        tx[s].pc = "write" =>
            /\ walletLock[tx[s].cour] = s
            /\ tx[s].seen = balance[tx[s].cour]
            /\ tx[s].op # "release" => ~Overdraws(s, tx[s].seen)

NoWalletInv == \A c \in Couriers \ wallets : ledger[c] = <<>> /\ balance[c] = 0

WriterHasWallet ==
    \A s \in Sessions : tx[s].pc = "write" => tx[s].cour \in wallets

WalletInv == /\ WriterInv /\ NoWalletInv /\ WriterHasWallet
             /\ LedgerExplainsBalance /\ CreditRespected

-----------------------------------------------------------------------------
(* Who has paid, and who holds.                                            *)
PaidHolder ==
    \A d \in Deliveries :
        deliveries[d].courier # None => Charged(deliveries[d].courier, d)

CapturedIsHeld ==
    \A d \in Deliveries :
        deliveries[d].status \in {"CAPTURED", "IN_PROGRESS", "DELIVERED"}
            => deliveries[d].courier # None

RefundFollowsDebit ==
    \A c \in Couriers, d \in Deliveries :
        HasEntry(c, d, "REFUND") => HasEntry(c, d, "DEBIT")

(* However old the object a session works on, the courier on it has paid.  *)
ObjectInv ==
    \A s \in Sessions :
        tx[s].pc # "idle" =>
            /\ tx[s].op \in {"deliver", "release"} => tx[s].obj = None
            /\ \/ tx[s].obj = None
               \/ tx[s].obj.courier = None
               \/ HasEntry(tx[s].obj.courier, tx[s].del, "DEBIT")

LockInv ==
    \A s \in Sessions :
        tx[s].pc \in {"wallet", "insert", "write"} =>
            /\ rowLock[tx[s].del] = s
            /\ tx[s].op = "release" => deliveries[tx[s].del].courier = tx[s].cour

HolderInv == /\ PaidHolder /\ CapturedIsHeld /\ RefundFollowsDebit
             /\ ObjectInv /\ LockInv /\ DeliveredIsCommissioned

-----------------------------------------------------------------------------
(* Lemmas about the wallets *)

(* A step that neither touches a wallet nor lets a session reach its write *)
(* keeps what is known of the wallets.                                     *)
LEMMA WalletUntouched ==
    ASSUME TypeInv, WalletInv, UNCHANGED <<wallets, balance, ledger>>,
           \A t \in Sessions : tx'[t].pc = "write" =>
               tx'[t] = tx[t] /\ walletLock'[tx[t].cour] = walletLock[tx[t].cour]
    PROVE  WalletInv'
  <1>1. WriterInv'
    BY DEF WalletInv, WriterInv, Overdraws, LimitOf
  <1>2. WriterHasWallet' /\ NoWalletInv'
    BY DEF WalletInv, WriterHasWallet, NoWalletInv
  <1>3. LedgerExplainsBalance' /\ CreditRespected'
    BY DEF WalletInv, LedgerExplainsBalance, BalanceAfter, CreditRespected, LimitOf
  <1> QED
    BY <1>1, <1>2, <1>3 DEF WalletInv

(* The end of one session leaves every other writer as it was.             *)
LEMMA EndWriters ==
    ASSUME TypeInv, WriterInv, NEW s \in Sessions, End(s)
    PROVE  \A t \in Sessions : tx'[t].pc = "write" =>
               /\ t # s /\ tx'[t] = tx[t]
               /\ walletLock'[tx[t].cour] = t /\ walletLock[tx[t].cour] = t
  <1> SUFFICES ASSUME NEW t \in Sessions, tx'[t].pc = "write"
               PROVE  /\ t # s /\ tx'[t] = tx[t]
                      /\ walletLock'[tx[t].cour] = t /\ walletLock[tx[t].cour] = t
    OBVIOUS
  <1>1. t # s /\ tx'[t] = tx[t]
    BY EndType DEF Idle
  <1>2. walletLock[tx[t].cour] = t /\ tx[t].cour \in Couriers
    BY <1>1 DEF WriterInv, TypeInv, TxInv
  <1>3. walletLock'[tx[t].cour] = t
    BY <1>1, <1>2 DEF End, Unlock, TypeInv, TypeOK
  <1> QED
    BY <1>1, <1>2, <1>3

(* Posting an entry computed from the balance keeps the ledger and the     *)
(* balance in step.                                                        *)
LEMMA PostExplained ==
    ASSUME TypeInv, LedgerExplainsBalance, NEW c \in Couriers, NEW d \in Deliveries,
           NEW type \in {"DEBIT", "REFUND"}, NEW amount \in Int,
           Post(c, d, type, amount, balance[c])
    PROVE  /\ LedgerExplainsBalance'
           /\ balance' = [balance EXCEPT ![c] = balance[c] + amount]
           /\ \A b \in Couriers \ {c} : ledger'[b] = ledger[b]
  <1> DEFINE e == [delivery |-> d, type |-> type, amount |-> amount,
                   balance_after |-> balance[c] + amount]
  <1>1. /\ ledger' = [ledger EXCEPT ![c] = Append(ledger[c], e)]
        /\ balance' = [balance EXCEPT ![c] = balance[c] + amount]
    BY DEF Post
  <1>2. ledger \in [Couriers -> Seq(LedgerEntry)] /\ balance \in [Couriers -> Int]
    BY DEF TypeInv, TypeOK
  <1>3. ASSUME NEW b \in Couriers, b # c
        PROVE  ledger'[b] = ledger[b] /\ balance'[b] = balance[b]
    BY <1>1, <1>2, <1>3
  <1>4. /\ ledger'[c] = Append(ledger[c], e) /\ balance'[c] = balance[c] + amount
        /\ ledger[c] \in Seq(LedgerEntry) /\ balance[c] \in Int
    BY <1>1, <1>2
  <1>5. e \in LedgerEntry /\ e.balance_after = balance[c] + amount /\ e.amount = amount
    BY <1>4 DEF LedgerEntry
  <1> HIDE DEF e
  <1>6. /\ Len(ledger'[c]) = Len(ledger[c]) + 1 /\ Len(ledger[c]) \in Nat
        /\ DOMAIN ledger[c] = 1..Len(ledger[c])
        /\ DOMAIN ledger'[c] = 1..(Len(ledger[c]) + 1)
        /\ ledger'[c][Len(ledger[c]) + 1] = e
        /\ \A i \in 1..Len(ledger[c]) : ledger'[c][i] = ledger[c][i]
    BY <1>4, <1>5
  <1>7. /\ \A i \in 1..Len(ledger[c]) :
              ledger[c][i].balance_after = BalanceAfter(c, i - 1) + ledger[c][i].amount
        /\ balance[c] = BalanceAfter(c, Len(ledger[c]))
    BY <1>6 DEF LedgerExplainsBalance
  <1>8. ASSUME NEW i \in 1..(Len(ledger[c]) + 1)
        PROVE  ledger'[c][i].balance_after
                 = (IF i - 1 = 0 THEN 0 ELSE ledger'[c][i - 1].balance_after)
                   + ledger'[c][i].amount
    <2>1. CASE i = Len(ledger[c]) + 1
      <3>1. BalanceAfter(c, Len(ledger[c]))
              = IF i - 1 = 0 THEN 0 ELSE ledger'[c][i - 1].balance_after
        BY <1>6, <2>1 DEF BalanceAfter
      <3>2. ledger'[c][i] = e
        BY <1>6, <2>1
      <3> QED
        BY <1>4, <1>5, <1>7, <3>1, <3>2
    <2>2. CASE i # Len(ledger[c]) + 1
      <3>1. i \in 1..Len(ledger[c])
        BY <1>6, <2>2
      <3>2. i - 1 # 0 => i - 1 \in 1..Len(ledger[c])
        BY <1>6, <3>1
      <3>3. ledger[c][i].balance_after
              = (IF i - 1 = 0 THEN 0 ELSE ledger[c][i - 1].balance_after) + ledger[c][i].amount
        BY <1>7, <3>1 DEF BalanceAfter
      <3> QED
        BY <1>6, <3>1, <3>2, <3>3
    <2> QED
      BY <2>1, <2>2
  <1>9. balance'[c] = IF Len(ledger'[c]) = 0 THEN 0
                      ELSE ledger'[c][Len(ledger'[c])].balance_after
    BY <1>4, <1>5, <1>6
  <1>10. ASSUME NEW b \in Couriers
         PROVE  /\ \A i \in DOMAIN ledger'[b] :
                      ledger'[b][i].balance_after
                        = (IF i - 1 = 0 THEN 0 ELSE ledger'[b][i - 1].balance_after)
                          + ledger'[b][i].amount
                /\ balance'[b] = IF Len(ledger'[b]) = 0 THEN 0
                                 ELSE ledger'[b][Len(ledger'[b])].balance_after
    <2>1. CASE b = c
      BY <1>6, <1>8, <1>9, <2>1
    <2>2. CASE b # c
      <3>1. ledger'[b] = ledger[b] /\ balance'[b] = balance[b]
        BY <1>3, <2>2
      <3> QED
        BY <3>1 DEF LedgerExplainsBalance, BalanceAfter
    <2> QED
      BY <2>1, <2>2
  <1>11. LedgerExplainsBalance'
    BY <1>10 DEF LedgerExplainsBalance, BalanceAfter
  <1> QED
    BY <1>1, <1>3, <1>11

(* A transaction that posts to the wallet it has locked, or to one it      *)
(* inserts, and ends.                                                      *)
LEMMA WalletPosted ==
    ASSUME TypeInv, TypeInv', WalletInv, ConstantsAssumption, NEW s \in Sessions, End(s),
           NEW c \in Couriers, NEW d \in Deliveries,
           NEW type \in {"DEBIT", "REFUND"}, NEW amount \in Int,
           Post(c, d, type, amount, balance[c]),
           \/ walletLock[c] = s /\ c \in wallets /\ UNCHANGED wallets
           \/ c \notin wallets /\ wallets' = wallets \cup {c},
           balance[c] + amount >= LimitOf(c)
    PROVE  WalletInv'
  <1>1. /\ LedgerExplainsBalance'
        /\ balance' = [balance EXCEPT ![c] = balance[c] + amount]
        /\ \A b \in Couriers \ {c} : ledger'[b] = ledger[b]
    BY PostExplained DEF WalletInv
  <1>2. balance \in [Couriers -> Int]
    BY DEF TypeInv, TypeOK
  <1>3. CreditRespected'
    BY <1>1, <1>2 DEF WalletInv, CreditRespected, LimitOf
  <1>4. NoWalletInv'
    BY <1>1, <1>2 DEF WalletInv, NoWalletInv
  <1>5. ASSUME NEW t \in Sessions, tx'[t].pc = "write"
        PROVE  /\ tx'[t] = tx[t] /\ tx[t].cour \in Couriers \ {c} /\ tx[t].cour \in wallets
               /\ walletLock'[tx[t].cour] = t
    <2>1. t # s /\ tx'[t] = tx[t] /\ walletLock'[tx[t].cour] = t /\ walletLock[tx[t].cour] = t
      BY <1>5, EndWriters DEF WalletInv
    <2>2. tx[t].cour \in Couriers /\ tx[t].cour \in wallets
      BY <1>5, <2>1 DEF TypeInv, TxInv, WalletInv, WriterHasWallet
    <2> QED
      BY <2>1, <2>2
  <1>6. WriterHasWallet'
    BY <1>5 DEF WriterHasWallet
  <1>7. WriterInv'
    BY <1>1, <1>2, <1>5 DEF WalletInv, WriterInv, Overdraws, LimitOf
  <1> QED
    BY <1>1, <1>3, <1>4, <1>6, <1>7 DEF WalletInv

(* Every step of a session keeps what is known of the wallets.             *)
LEMMA StepWallet ==
    ASSUME TypeInv, TypeInv', WalletInv, ConstantsAssumption, NEW s \in Sessions, Step(s)
    PROVE  WalletInv'
  <1>a. ASSUME End(s), UNCHANGED <<wallets, balance, ledger>> PROVE WalletInv'
    <2>1. \A t \in Sessions : tx'[t].pc = "write" =>
             tx'[t] = tx[t] /\ walletLock'[tx[t].cour] = walletLock[tx[t].cour]
      BY <1>a, EndWriters DEF WalletInv
    <2> QED
      BY <1>a, <2>1, WalletUntouched
  <1>b. tx \in [Sessions -> Transaction] /\ balance \in [Couriers -> Int]
    BY DEF TypeInv, TypeOK
  <1>1. CASE Refuse(s) \/ Request(s) \/ Reject(s) \/ MarkDelivered(s) \/ AutoCancel(s) \/ Cancel(s)
    BY <1>1, <1>a DEF Refuse, Request, Reject, MarkDelivered, AutoCancel, Cancel, money
  <1>2. CASE LockDelivery(s) \/ FindNoWallet(s)
    <2>1. /\ UNCHANGED <<wallets, balance, ledger, walletLock>>
          /\ \A t \in Sessions : tx'[t].pc = "write" => tx'[t] = tx[t]
      BY <1>2, <1>b DEF LockDelivery, FindNoWallet, money, Transaction
    <2> QED
      BY <2>1, WalletUntouched
  <1>3. CASE LockWallet(s)
    <2> DEFINE c == tx[s].cour
    <2>1. /\ tx[s].pc = "wallet" /\ c \in wallets /\ c \in Couriers /\ walletLock[c] = None
          /\ UNCHANGED <<wallets, balance, ledger>>
      BY <1>3 DEF LockWallet, money, TypeInv, TxInv
    <2>2. CASE End(s)
      BY <2>1, <2>2, <1>a
    <2>3. CASE ~End(s)
      <3>1. /\ tx' = [tx EXCEPT ![s].pc = "write", ![s].seen = balance[c]]
            /\ walletLock' = [walletLock EXCEPT ![c] = s]
            /\ tx[s].op # "release" => ~Overdraws(s, balance[c])
        BY <1>3, <2>3 DEF LockWallet
      <3>2. /\ tx'[s].pc = "write" /\ tx'[s].seen = balance[c] /\ tx'[s].cour = c
            /\ tx'[s].op = tx[s].op /\ tx'[s].del = tx[s].del
            /\ \A t \in Sessions \ {s} : tx'[t] = tx[t]
        BY <3>1, <1>b DEF Transaction
      <3>3. walletLock'[c] = s
        BY <2>1, <3>1 DEF TypeInv, TypeOK
      <3>4. ASSUME NEW t \in Sessions \ {s}, tx'[t].pc = "write"
            PROVE  walletLock'[tx[t].cour] = t /\ tx[t].cour \in wallets
        <4>1. walletLock[tx[t].cour] = t /\ tx[t].cour \in Couriers /\ tx[t].cour \in wallets
          BY <3>2, <3>4 DEF WalletInv, WriterInv, WriterHasWallet, TypeInv, TxInv
        <4>2. tx[t].cour # c
          BY <4>1, <2>1 DEF ConstantsAssumption
        <4> QED
          BY <4>1, <4>2, <3>1 DEF TypeInv, TypeOK
      <3>5. WriterInv'
        <4>1. ASSUME NEW t \in Sessions, tx'[t].pc = "write"
              PROVE  /\ walletLock'[tx'[t].cour] = t
                     /\ tx'[t].seen = balance'[tx'[t].cour]
                     /\ tx'[t].op # "release" =>
                          ~(tx'[t].seen - Fee[tx'[t].del] < LimitOf(tx'[t].cour))
          <5>1. CASE t = s
            BY <5>1, <2>1, <3>1, <3>2, <3>3 DEF Overdraws
          <5>2. CASE t # s
            BY <4>1, <5>2, <2>1, <3>2, <3>4 DEF WalletInv, WriterInv, Overdraws
          <5> QED
            BY <5>1, <5>2
        <4> QED
          BY <4>1 DEF WriterInv, Overdraws, LimitOf
      <3>6. WriterHasWallet'
        BY <2>1, <3>2, <3>4 DEF WriterHasWallet
      <3>7. NoWalletInv' /\ LedgerExplainsBalance' /\ CreditRespected'
        BY <2>1 DEF WalletInv, NoWalletInv, LedgerExplainsBalance, BalanceAfter,
                    CreditRespected, LimitOf
      <3> QED
        BY <3>5, <3>6, <3>7 DEF WalletInv
    <2> QED
      BY <2>2, <2>3
  <1>4. CASE InsertWallet(s)
    <2> DEFINE c == tx[s].cour
               d == tx[s].del
    <2>1. tx[s].pc = "insert" /\ c \in Couriers /\ d \in Deliveries /\ End(s)
      BY <1>4 DEF InsertWallet, TypeInv, TxInv
    <2>2. CASE c \in wallets
      BY <1>4, <1>a, <2>1, <2>2 DEF InsertWallet, money
    <2>3. CASE c \notin wallets /\ Overdraws(s, 0)
      <3>1. /\ wallets \subseteq wallets' /\ UNCHANGED <<balance, ledger>>
        BY <1>4, <2>3 DEF InsertWallet
      <3>2. ASSUME NEW t \in Sessions, tx'[t].pc = "write"
            PROVE  tx'[t] = tx[t] /\ walletLock'[tx[t].cour] = t
        BY <2>1, <3>2, EndWriters DEF WalletInv
      <3>3. WriterInv' /\ WriterHasWallet'
        BY <3>1, <3>2 DEF WalletInv, WriterInv, WriterHasWallet, Overdraws, LimitOf
      <3>4. NoWalletInv' /\ LedgerExplainsBalance' /\ CreditRespected'
        BY <3>1 DEF WalletInv, NoWalletInv, LedgerExplainsBalance, BalanceAfter,
                    CreditRespected, LimitOf
      <3> QED
        BY <3>3, <3>4 DEF WalletInv
    <2>4. CASE c \notin wallets /\ ~Overdraws(s, 0)
      <3>1. wallets' = wallets \cup {c} /\ Post(c, d, "DEBIT", -Fee[d], 0)
        BY <1>4, <2>4 DEF InsertWallet, WriteCapture
      <3>2. balance[c] = 0
        BY <2>1, <2>4 DEF WalletInv, NoWalletInv
      <3>3. Fee[d] \in Nat /\ LimitOf(c) \in Int
        BY <2>1 DEF ConstantsAssumption, LimitOf
      <3>4. balance[c] + (-Fee[d]) >= LimitOf(c)
        BY <2>4, <3>2, <3>3 DEF Overdraws
      <3>5. -Fee[d] \in Int /\ Post(c, d, "DEBIT", -Fee[d], balance[c])
        BY <3>1, <3>2, <3>3
      <3> HIDE DEF c, d
      <3> QED
        BY <2>1, <2>4, <3>1, <3>4, <3>5, WalletPosted
    <2> QED
      BY <2>2, <2>3, <2>4
  <1>5. CASE Capture(s)
    <2> DEFINE c == tx[s].cour
               d == tx[s].del
    <2>1. /\ tx[s].pc = "write" /\ tx[s].op # "release" /\ c \in Couriers /\ d \in Deliveries
          /\ End(s)
      BY <1>5 DEF Capture, TypeInv, TxInv
    <2>2. CASE HasEntry(c, d, "DEBIT")
      BY <1>5, <1>a, <2>1, <2>2 DEF Capture, money
    <2>3. CASE ~HasEntry(c, d, "DEBIT")
      <3>1. UNCHANGED wallets /\ Post(c, d, "DEBIT", -Fee[d], tx[s].seen)
        BY <1>5, <2>3 DEF Capture, WriteCapture
      <3>2. /\ tx[s].seen = balance[c] /\ walletLock[c] = s /\ c \in wallets
            /\ ~Overdraws(s, balance[c])
        BY <2>1 DEF WalletInv, WriterInv, WriterHasWallet
      <3>3. Fee[d] \in Nat /\ LimitOf(c) \in Int /\ balance[c] \in Int
        BY <2>1, <1>b DEF ConstantsAssumption, LimitOf
      <3>4. balance[c] + (-Fee[d]) >= LimitOf(c) /\ -Fee[d] \in Int
        BY <3>2, <3>3 DEF Overdraws
      <3>5. Post(c, d, "DEBIT", -Fee[d], balance[c])
        BY <3>1, <3>2
      <3> HIDE DEF c, d
      <3> QED
        BY <2>1, <3>1, <3>2, <3>4, <3>5, WalletPosted
    <2> QED
      BY <2>2, <2>3
  <1>6. CASE ReleaseDelivery(s)
    <2> DEFINE c == tx[s].cour
               d == tx[s].del
    <2>1. /\ tx[s].pc = "write" /\ c \in Couriers /\ d \in Deliveries /\ End(s)
          /\ UNCHANGED wallets /\ Post(c, d, "REFUND", Fee[d], tx[s].seen)
      BY <1>6 DEF ReleaseDelivery, TypeInv, TxInv
    <2>2. tx[s].seen = balance[c] /\ walletLock[c] = s /\ c \in wallets
      BY <2>1 DEF WalletInv, WriterInv, WriterHasWallet
    <2>3. Fee[d] \in Nat /\ LimitOf(c) \in Int /\ balance[c] \in Int /\ balance[c] >= LimitOf(c)
      BY <2>1, <1>b DEF ConstantsAssumption, LimitOf, WalletInv, CreditRespected
    <2>4. balance[c] + Fee[d] >= LimitOf(c)
      BY <2>3
    <2>5. Post(c, d, "REFUND", Fee[d], balance[c])
      BY <2>1, <2>2
    <2> HIDE DEF c, d
    <2> QED
      BY <2>1, <2>2, <2>3, <2>4, <2>5, WalletPosted
  <1> QED
    BY <1>1, <1>2, <1>3, <1>4, <1>5, <1>6 DEF Step

(* The ledger and the limits, for every step of the system.                *)
LEMMA WalletInvariant == Spec => []WalletInv
  <1>1. Init => WalletInv
    <2> SUFFICES ASSUME Init PROVE WalletInv
      OBVIOUS
    <2>1. WriterInv /\ WriterHasWallet
      BY DEF Init, Idle, WriterInv, WriterHasWallet
    <2>2. NoWalletInv /\ LedgerExplainsBalance
      BY DEF Init, NoWalletInv, LedgerExplainsBalance, BalanceAfter
    <2>3. CreditRespected
      BY ConstantsAssumption DEF ConstantsAssumption, Init, CreditRespected, LimitOf
    <2> QED
      BY <2>1, <2>2, <2>3 DEF WalletInv
  <1>2. TypeInv /\ TypeInv' /\ WalletInv /\ [Next]_vars => WalletInv'
    <2> SUFFICES ASSUME TypeInv, TypeInv', WalletInv, [Next]_vars PROVE WalletInv'
      OBVIOUS
    <2>1. ASSUME NEW s \in Sessions, Begin(s) PROVE WalletInv'
      <3>1. /\ UNCHANGED <<wallets, balance, ledger, walletLock>>
            /\ \A t \in Sessions : tx'[t].pc = "write" => tx'[t] = tx[t]
        BY <2>1 DEF Begin, CaptureRoute, FollowLink, DispatcherDecides, DeliverRoute,
                    ReleaseCall, CancelRoute, SelectExpired, Start, money, TypeInv, TypeOK
      <3> QED
        BY <3>1, WalletUntouched
    <2>2. ASSUME NEW s \in Sessions, Step(s) PROVE WalletInv'
      BY <2>2, StepWallet, ConstantsAssumption
    <2>3. CASE UNCHANGED <<wallets, balance, ledger, tx, walletLock>>
      BY <2>3, WalletUntouched
    <2> QED
      BY <2>1, <2>2, <2>3 DEF Next, vars, money, AddToBlacklist, RemoveFromBlacklist
  <1> QED
    BY <1>1, <1>2, TypeInvariant, PTL DEF Spec

(* The ledger explains the wallet: no charge or refund is lost, however    *)
(* many sessions work on one wallet.                                       *)
THEOREM LedgerCorrect == Spec => []LedgerExplainsBalance
  <1>1. WalletInv => LedgerExplainsBalance
    BY DEF WalletInv
  <1> QED
    BY <1>1, WalletInvariant, PTL

(* No wallet falls below its credit limit.                                 *)
THEOREM CreditCorrect == Spec => []CreditRespected
  <1>1. WalletInv => CreditRespected
    BY DEF WalletInv
  <1> QED
    BY <1>1, WalletInvariant, PTL

-----------------------------------------------------------------------------
(* Lemmas about holders *)

(* Posting adds one kind of entry to one ledger, and nothing else.         *)
LEMMA PostEntries ==
    ASSUME TypeInv, NEW c \in Couriers, NEW d \in Deliveries,
           NEW type \in {"DEBIT", "REFUND"}, NEW amount \in Int, NEW seen \in Int,
           Post(c, d, type, amount, seen)
    PROVE  \A b \in Couriers, e \in Deliveries, k \in {"DEBIT", "REFUND"} :
               HasEntry(b, e, k)' <=> HasEntry(b, e, k) \/ (b = c /\ e = d /\ k = type)
  <1> DEFINE new == [delivery |-> d, type |-> type, amount |-> amount,
                     balance_after |-> seen + amount]
  <1>0. ledger \in [Couriers -> Seq(LedgerEntry)]
    BY DEF TypeInv, TypeOK
  <1>a. new \in LedgerEntry
    BY DEF LedgerEntry
  <1>1. ledger \in [Couriers -> Seq(LedgerEntry)] /\ new \in LedgerEntry
    BY <1>0, <1>a
  <1>2. ledger' = [ledger EXCEPT ![c] = Append(ledger[c], new)]
    BY DEF Post
  <1>3. new.delivery = d /\ new.type = type
    OBVIOUS
  <1> HIDE DEF new
  <1> SUFFICES ASSUME NEW b \in Couriers, NEW e \in Deliveries, NEW k \in {"DEBIT", "REFUND"}
               PROVE  HasEntry(b, e, k)' <=> HasEntry(b, e, k) \/ (b = c /\ e = d /\ k = type)
    OBVIOUS
  <1>4. CASE b # c
    BY <1>1, <1>2, <1>4 DEF HasEntry
  <1>5. CASE b = c
    <2>1. /\ Len(ledger[c]) \in Nat /\ DOMAIN ledger[c] = 1..Len(ledger[c])
          /\ DOMAIN ledger'[c] = 1..(Len(ledger[c]) + 1)
          /\ ledger'[c][Len(ledger[c]) + 1] = new
          /\ \A i \in 1..Len(ledger[c]) : ledger'[c][i] = ledger[c][i]
      BY <1>1, <1>2
    <2>2. HasEntry(c, e, k) <=>
            \E i \in 1..Len(ledger[c]) : ledger[c][i].delivery = e /\ ledger[c][i].type = k
      BY <2>1 DEF HasEntry
    <2>3. HasEntry(c, e, k)' <=>
            \E i \in 1..(Len(ledger[c]) + 1) :
                ledger'[c][i].delivery = e /\ ledger'[c][i].type = k
      BY <2>1 DEF HasEntry
    <2>4. ASSUME HasEntry(c, e, k)' PROVE HasEntry(c, e, k) \/ (e = d /\ k = type)
      <3>1. PICK i \in 1..(Len(ledger[c]) + 1) :
                ledger'[c][i].delivery = e /\ ledger'[c][i].type = k
        BY <2>3, <2>4
      <3>2. CASE i = Len(ledger[c]) + 1
        BY <1>3, <2>1, <3>1, <3>2
      <3>3. CASE i # Len(ledger[c]) + 1
        <4>1. i \in 1..Len(ledger[c])
          BY <2>1, <3>3
        <4> QED
          BY <2>1, <2>2, <3>1, <4>1
      <3> QED
        BY <3>2, <3>3
    <2>5. ASSUME HasEntry(c, e, k) PROVE HasEntry(c, e, k)'
      <3>1. PICK i \in 1..Len(ledger[c]) :
                ledger[c][i].delivery = e /\ ledger[c][i].type = k
        BY <2>2, <2>5
      <3>2. i \in 1..(Len(ledger[c]) + 1) /\ ledger'[c][i] = ledger[c][i]
        BY <2>1
      <3> QED
        BY <2>3, <3>1, <3>2
    <2>6. ASSUME e = d, k = type PROVE HasEntry(c, e, k)'
      <3>1. Len(ledger[c]) + 1 \in 1..(Len(ledger[c]) + 1)
        BY <2>1
      <3> QED
        BY <1>3, <2>1, <2>3, <2>6, <3>1
    <2> QED
      BY <1>5, <2>4, <2>5, <2>6
  <1> QED
    BY <1>4, <1>5

(* A flush changes one row, and there only the columns that differ.        *)
LEMMA FlushRow ==
    ASSUME deliveries \in [Deliveries -> Delivery], NEW d \in Deliveries,
           NEW old \in Delivery, NEW new \in Delivery, Flush(d, old, new)
    PROVE  /\ \A e \in Deliveries \ {d} : deliveries'[e] = deliveries[e]
           /\ deliveries'[d].status = IF new.status # old.status THEN new.status
                                      ELSE deliveries[d].status
           /\ deliveries'[d].courier = IF new.courier # old.courier THEN new.courier
                                       ELSE deliveries[d].courier
  BY DEF Flush, Delivery

(* The end of one session leaves the others their objects and locks.       *)
LEMMA EndOthers ==
    ASSUME TypeInv, NEW s \in Sessions, End(s)
    PROVE  /\ \A t \in Sessions : tx'[t].pc # "idle" => t # s /\ tx'[t] = tx[t]
           /\ \A t \in Sessions \ {s}, d \in Deliveries : rowLock[d] = t => rowLock'[d] = t
  <1>1. \A t \in Sessions : tx'[t] = IF t = s THEN Idle ELSE tx[t]
    BY EndType
  <1> QED
    BY <1>1 DEF Idle, End, Unlock, TypeInv, TypeOK

(* A transaction that writes one row, unlocked or locked by itself, and    *)
(* ends: only that row is left to look at.                                 *)
LEMMA RowWritten ==
    ASSUME TypeInv, TypeInv', HolderInv, ConstantsAssumption, NEW s \in Sessions, End(s),
           NEW d \in Deliveries, rowLock[d] \in {None, s},
           \A e \in Deliveries \ {d} : deliveries'[e] = deliveries[e],
           commissions \subseteq commissions',
           \A c \in Couriers, e \in Deliveries, k \in {"DEBIT", "REFUND"} :
               /\ HasEntry(c, e, k) => HasEntry(c, e, k)'
               /\ e # d => (HasEntry(c, e, k)' => HasEntry(c, e, k)),
           \A c \in Couriers : deliveries'[d].courier = c =>
               HasEntry(c, d, "DEBIT")' /\ ~HasEntry(c, d, "REFUND")',
           deliveries'[d].status \in {"CAPTURED", "IN_PROGRESS", "DELIVERED"}
               => deliveries'[d].courier # None,
           \A c \in Couriers : HasEntry(c, d, "REFUND")' => HasEntry(c, d, "DEBIT")',
           deliveries'[d].status = "DELIVERED" /\ CommissionDue(d) => d \in commissions'
    PROVE  HolderInv'
  <1>1. /\ \A e \in Deliveries : deliveries[e].courier \in Couriers \cup {None}
        /\ \A e \in Deliveries : deliveries'[e].courier \in Couriers \cup {None}
    BY DEF TypeInv, TypeOK, Delivery
  <1>2. PaidHolder'
    <2> SUFFICES ASSUME NEW e \in Deliveries, NEW c \in Couriers, deliveries'[e].courier = c
                 PROVE  HasEntry(c, e, "DEBIT")' /\ ~HasEntry(c, e, "REFUND")'
      <3> SUFFICES ASSUME NEW e \in Deliveries, (deliveries[e].courier)' # None
                   PROVE  Charged(deliveries[e].courier, e)'
        BY DEF PaidHolder
      <3>1. PICK c \in Couriers : deliveries'[e].courier = c
        BY <1>1
      <3>2. HasEntry(c, e, "DEBIT")' /\ ~HasEntry(c, e, "REFUND")'
        BY <3>1
      <3> QED
        BY <3>1, <3>2 DEF Charged, HasEntry
    <2>1. CASE e = d
      BY <2>1
    <2>2. CASE e # d
      <3>1. deliveries[e].courier = c /\ c # None
        BY <2>2 DEF ConstantsAssumption
      <3>2. HasEntry(c, e, "DEBIT") /\ ~HasEntry(c, e, "REFUND")
        BY <3>1 DEF HolderInv, PaidHolder, Charged
      <3> QED
        BY <2>2, <3>2
    <2> QED
      BY <2>1, <2>2
  <1>3. CapturedIsHeld'
    BY DEF HolderInv, CapturedIsHeld
  <1>4. RefundFollowsDebit'
    <2> SUFFICES ASSUME NEW e \in Deliveries, NEW c \in Couriers, HasEntry(c, e, "REFUND")'
                 PROVE  HasEntry(c, e, "DEBIT")'
      BY DEF RefundFollowsDebit
    <2> QED
      BY DEF HolderInv, RefundFollowsDebit
  <1>5. ASSUME NEW t \in Sessions, tx'[t].pc # "idle"
        PROVE  /\ t # s /\ tx'[t] = tx[t] /\ tx[t].pc # "idle"
               /\ tx[t].del \in Deliveries /\ tx[t].obj \in Delivery \cup {None}
    <2>1. t # s /\ tx'[t] = tx[t] /\ tx[t].pc # "idle"
      BY <1>5, EndOthers
    <2>2. tx[t] \in Transaction
      BY DEF TypeInv, TypeOK
    <2>3. tx[t].obj \in Delivery \cup {None}
      BY <2>2 DEF Transaction
    <2> QED
      BY <2>1, <2>3 DEF TypeInv, TxInv
  <1>6. ObjectInv'
    <2> SUFFICES ASSUME NEW t \in Sessions, tx'[t].pc # "idle"
                 PROVE  /\ tx[t].op \in {"deliver", "release"} => tx[t].obj = None
                        /\ \/ tx[t].obj = None
                           \/ tx[t].obj.courier = None
                           \/ HasEntry(tx[t].obj.courier, tx[t].del, "DEBIT")'
      BY <1>5 DEF ObjectInv, HasEntry
    <2>1. /\ tx[t].op \in {"deliver", "release"} => tx[t].obj = None
          /\ \/ tx[t].obj = None
             \/ tx[t].obj.courier = None
             \/ HasEntry(tx[t].obj.courier, tx[t].del, "DEBIT")
      BY <1>5 DEF HolderInv, ObjectInv
    <2>2. CASE tx[t].obj # None /\ tx[t].obj.courier # None
      <3>1. tx[t].obj.courier \in Couriers
        BY <1>5, <2>2 DEF Delivery
      <3> QED
        BY <1>5, <2>1, <2>2, <3>1
    <2> QED
      BY <2>1, <2>2
  <1>7. LockInv'
    <2> SUFFICES ASSUME NEW t \in Sessions, tx'[t].pc \in {"wallet", "insert", "write"}
                 PROVE  /\ rowLock'[tx[t].del] = t
                        /\ tx[t].op = "release" => deliveries'[tx[t].del].courier = tx[t].cour
      BY <1>5 DEF LockInv
    <2>1. t # s /\ tx'[t] = tx[t] /\ tx[t].del \in Deliveries
      BY <1>5
    <2>2. /\ rowLock[tx[t].del] = t
          /\ tx[t].op = "release" => deliveries[tx[t].del].courier = tx[t].cour
      BY <2>1 DEF HolderInv, LockInv
    <2>3. tx[t].del # d
      BY <2>1, <2>2 DEF ConstantsAssumption
    <2> QED
      BY <2>1, <2>2, <2>3, EndOthers
  <1>8. DeliveredIsCommissioned'
    BY DEF HolderInv, DeliveredIsCommissioned, CommissionDue
  <1> QED
    BY <1>2, <1>3, <1>4, <1>6, <1>7, <1>8 DEF HolderInv

(* A step that writes neither a row nor a ledger.                          *)
LEMMA RowsUntouched ==
    ASSUME TypeInv, HolderInv, UNCHANGED <<deliveries, ledger, commissions>>,
           \A t \in Sessions :
               /\ tx'[t].pc # "idle" => /\ tx[t].pc # "idle"
                                        /\ tx'[t].op = tx[t].op /\ tx'[t].obj = tx[t].obj
                                        /\ tx'[t].del = tx[t].del
               /\ tx'[t].pc \in {"wallet", "insert", "write"} =>
                     /\ rowLock'[tx[t].del] = t
                     /\ tx[t].op = "release" => deliveries[tx[t].del].courier = tx'[t].cour
    PROVE  HolderInv'
  <1>1. PaidHolder' /\ RefundFollowsDebit'
    BY DEF HolderInv, PaidHolder, RefundFollowsDebit, Charged, HasEntry
  <1>2. CapturedIsHeld' /\ DeliveredIsCommissioned'
    BY DEF HolderInv, CapturedIsHeld, DeliveredIsCommissioned, CommissionDue
  <1>3. ObjectInv'
    BY DEF HolderInv, ObjectInv, HasEntry
  <1>4. LockInv'
    BY DEF LockInv
  <1> QED
    BY <1>1, <1>2, <1>3, <1>4 DEF HolderInv

(* A step that writes the status of a free row, but neither its courier    *)
(* nor a ledger.                                                           *)
LEMMA StatusWritten ==
    ASSUME TypeInv, TypeInv', HolderInv, ConstantsAssumption, NEW s \in Sessions, End(s),
           NEW d \in Deliveries, rowLock[d] = None,
           NEW old \in Delivery, NEW new \in Delivery, Flush(d, old, new),
           new.courier = old.courier,
           new.status \in {"CAPTURED", "IN_PROGRESS", "DELIVERED"}
               => deliveries[d].courier # None,
           new.status = "DELIVERED" /\ CommissionDue(d) => d \in commissions',
           commissions \subseteq commissions', UNCHANGED ledger
    PROVE  HolderInv'
  <1>1. deliveries \in [Deliveries -> Delivery]
    BY DEF TypeInv, TypeOK
  <1>2. /\ \A e \in Deliveries \ {d} : deliveries'[e] = deliveries[e]
        /\ deliveries'[d].status \in {new.status, deliveries[d].status}
        /\ deliveries'[d].courier = deliveries[d].courier
    BY <1>1, FlushRow
  <1>3. \A c \in Couriers, e \in Deliveries, k \in {"DEBIT", "REFUND"} :
            HasEntry(c, e, k)' <=> HasEntry(c, e, k)
    BY DEF HasEntry
  <1>4. ASSUME NEW c \in Couriers, deliveries'[d].courier = c
        PROVE  HasEntry(c, d, "DEBIT")' /\ ~HasEntry(c, d, "REFUND")'
    <2>1. deliveries[d].courier = c /\ c # None
      BY <1>2, <1>4 DEF ConstantsAssumption
    <2>2. HasEntry(c, d, "DEBIT") /\ ~HasEntry(c, d, "REFUND")
      BY <2>1 DEF HolderInv, PaidHolder, Charged
    <2> QED
      BY <1>3, <2>2
  <1>5. \A c \in Couriers : HasEntry(c, d, "REFUND")' => HasEntry(c, d, "DEBIT")'
    BY <1>3 DEF HolderInv, RefundFollowsDebit
  <1>6. deliveries'[d].status \in {"CAPTURED", "IN_PROGRESS", "DELIVERED"}
            => deliveries'[d].courier # None
    BY <1>2 DEF HolderInv, CapturedIsHeld
  <1>7. deliveries'[d].status = "DELIVERED" /\ CommissionDue(d) => d \in commissions'
    BY <1>2 DEF HolderInv, DeliveredIsCommissioned
  <1> QED
    BY <1>2, <1>3, <1>4, <1>5, <1>6, <1>7, RowWritten

(* A capture by a courier who has never paid for the delivery, under the   *)
(* row lock, whatever the age of the object it writes from.                *)
LEMMA CaptureWritten ==
    ASSUME TypeInv, TypeInv', HolderInv, ConstantsAssumption, NEW s \in Sessions, End(s),
           tx[s].pc \in {"insert", "write"}, NEW seen \in Int, WriteCapture(s, seen),
           ~HasEntry(tx[s].cour, tx[s].del, "DEBIT")
    PROVE  HolderInv'
  <1>0. PICK d \in Deliveries, c \in Couriers : d = tx[s].del /\ c = tx[s].cour
    BY DEF TypeInv, TxInv
  <1> DEFINE obj == [Loaded(s) EXCEPT !.decision = deliveries[d].decision]
             new == [obj EXCEPT !.status = "CAPTURED", !.courier = c,
                        !.decision = IF tx[s].op = "approve" THEN "approved" ELSE @]
  <1>1. d \in Deliveries /\ c \in Couriers /\ c # None
    BY DEF ConstantsAssumption
  <1>2. deliveries \in [Deliveries -> Delivery] /\ Loaded(s) \in Delivery
    BY LoadedType DEF TypeInv, TypeOK
  <1>3. obj \in Delivery /\ obj.courier = Loaded(s).courier
    BY <1>1, <1>2 DEF Delivery
  <1>4. new \in Delivery /\ new.status = "CAPTURED" /\ new.courier = c
    BY <1>1, <1>3 DEF Delivery, Status
  <1>5. /\ Flush(d, obj, new) /\ Post(c, d, "DEBIT", -Fee[d], seen) /\ UNCHANGED commissions
        /\ -Fee[d] \in Int
    BY <1>0, <1>1 DEF WriteCapture, ConstantsAssumption
  <1>6. rowLock[d] = s
    BY <1>0 DEF HolderInv, LockInv
  <1>7. ~HasEntry(c, d, "DEBIT")
    BY <1>0
  <1>8. Loaded(s).courier # c
    <2>1. SUFFICES ASSUME Loaded(s).courier = c PROVE HasEntry(c, d, "DEBIT")
      BY <1>7
    <2>2. CASE tx[s].obj = None
      <3>1. deliveries[d].courier = c
        BY <1>0, <2>1, <2>2 DEF Loaded
      <3> QED
        BY <1>1, <3>1 DEF HolderInv, PaidHolder, Charged
    <2>3. CASE tx[s].obj # None
      <3>1. tx[s].obj.courier = c
        BY <2>1, <2>3 DEF Loaded
      <3> QED
        BY <1>0, <1>1, <2>3, <3>1 DEF HolderInv, ObjectInv
    <2> QED
      BY <2>2, <2>3
  <1> HIDE DEF obj, new
  <1>9. /\ \A e \in Deliveries \ {d} : deliveries'[e] = deliveries[e]
        /\ deliveries'[d].status \in {"CAPTURED", deliveries[d].status}
        /\ deliveries'[d].courier = c
    BY <1>1, <1>2, <1>3, <1>4, <1>5, <1>8, FlushRow
  <1>10. \A b \in Couriers, e \in Deliveries, k \in {"DEBIT", "REFUND"} :
            HasEntry(b, e, k)' <=> HasEntry(b, e, k) \/ (b = c /\ e = d /\ k = "DEBIT")
    BY <1>1, <1>5, PostEntries
  <1>11. ~HasEntry(c, d, "REFUND")
    BY <1>1, <1>7 DEF HolderInv, RefundFollowsDebit
  <1>12. \A b \in Couriers : deliveries'[d].courier = b =>
             HasEntry(b, d, "DEBIT")' /\ ~HasEntry(b, d, "REFUND")'
    BY <1>1, <1>9, <1>10, <1>11
  <1>13. \A b \in Couriers : HasEntry(b, d, "REFUND")' => HasEntry(b, d, "DEBIT")'
    BY <1>1, <1>10 DEF HolderInv, RefundFollowsDebit
  <1>14. deliveries'[d].status = "DELIVERED" /\ CommissionDue(d) => d \in commissions'
    BY <1>1, <1>5, <1>9 DEF HolderInv, DeliveredIsCommissioned
  <1>15. /\ \A b \in Couriers, e \in Deliveries, k \in {"DEBIT", "REFUND"} :
               /\ HasEntry(b, e, k) => HasEntry(b, e, k)'
               /\ e # d => (HasEntry(b, e, k)' => HasEntry(b, e, k))
         /\ deliveries'[d].courier # None
         /\ commissions \subseteq commissions'
    BY <1>1, <1>5, <1>9, <1>10
  <1> QED
    BY <1>1, <1>6, <1>9, <1>12, <1>13, <1>14, <1>15, RowWritten

(* A refund to the courier who holds the delivery, which it reopens.       *)
LEMMA ReleaseWritten ==
    ASSUME TypeInv, TypeInv', HolderInv, ConstantsAssumption, NEW s \in Sessions,
           ReleaseDelivery(s)
    PROVE  HolderInv'
  <1>0. PICK d \in Deliveries, c \in Couriers : d = tx[s].del /\ c = tx[s].cour
    BY DEF ReleaseDelivery, TypeInv, TxInv
  <1>1. /\ tx[s].pc = "write" /\ tx[s].op = "release" /\ End(s) /\ UNCHANGED commissions
        /\ tx[s].seen \in Int
    BY DEF ReleaseDelivery, TypeInv, TypeOK, Transaction
  <1>2. tx[s].obj = None /\ rowLock[d] = s /\ deliveries[d].courier = c
    BY <1>0, <1>1 DEF HolderInv, ObjectInv, LockInv
  <1>3. Loaded(s) = deliveries[d] /\ deliveries[d] \in Delivery
    BY <1>0, <1>2 DEF Loaded, TypeInv, TypeOK
  <1> DEFINE old == deliveries[d]
             new == [old EXCEPT !.status = "OPEN", !.courier = None]
  <1>4. new \in Delivery /\ new.status = "OPEN" /\ new.courier = None
    BY <1>3 DEF Delivery, Status
  <1>5. Flush(d, old, new) /\ Post(c, d, "REFUND", Fee[d], tx[s].seen) /\ Fee[d] \in Int
    BY <1>0, <1>3 DEF ReleaseDelivery, ConstantsAssumption
  <1>6. /\ \A e \in Deliveries \ {d} : deliveries'[e] = deliveries[e]
        /\ deliveries'[d].status = "OPEN" /\ deliveries'[d].courier = None
    <2>1. deliveries \in [Deliveries -> Delivery]
      BY DEF TypeInv, TypeOK
    <2> HIDE DEF new
    <2>2. /\ \A e \in Deliveries \ {d} : deliveries'[e] = deliveries[e]
          /\ deliveries'[d].status = IF new.status # old.status THEN new.status ELSE old.status
          /\ deliveries'[d].courier = IF new.courier # old.courier THEN new.courier ELSE old.courier
      BY <1>3, <1>4, <1>5, <2>1, FlushRow
    <2> QED
      BY <1>4, <2>2
  <1>7. \A b \in Couriers, e \in Deliveries, k \in {"DEBIT", "REFUND"} :
            HasEntry(b, e, k)' <=> HasEntry(b, e, k) \/ (b = c /\ e = d /\ k = "REFUND")
    BY <1>1, <1>5, PostEntries
  <1>8. HasEntry(c, d, "DEBIT")
    BY <1>2 DEF HolderInv, PaidHolder, Charged, ConstantsAssumption
  <1>9. \A b \in Couriers : HasEntry(b, d, "REFUND")' => HasEntry(b, d, "DEBIT")'
    BY <1>7, <1>8 DEF HolderInv, RefundFollowsDebit
  <1>10. /\ \A b \in Couriers, e \in Deliveries, k \in {"DEBIT", "REFUND"} :
               /\ HasEntry(b, e, k) => HasEntry(b, e, k)'
               /\ e # d => (HasEntry(b, e, k)' => HasEntry(b, e, k))
         /\ \A b \in Couriers : deliveries'[d].courier # b
    BY <1>6, <1>7 DEF ConstantsAssumption
  <1> QED
    BY <1>1, <1>2, <1>6, <1>9, <1>10, RowWritten

(* Every step of a session keeps what is known of holders.                 *)
LEMMA StepHolder ==
    ASSUME TypeInv, TypeInv', WalletInv, HolderInv, ConstantsAssumption,
           NEW s \in Sessions, Step(s)
    PROVE  HolderInv'
  <1>a. ASSUME End(s), UNCHANGED <<deliveries, ledger, commissions>> PROVE HolderInv'
    <2>1. \A t \in Sessions : tx'[t].pc # "idle" =>
             t # s /\ tx'[t] = tx[t] /\ tx[t].del \in Deliveries
      BY <1>a, EndOthers DEF TypeInv, TxInv
    <2>2. ASSUME NEW t \in Sessions, tx'[t].pc \in {"wallet", "insert", "write"}
          PROVE  /\ rowLock'[tx[t].del] = t
                 /\ tx[t].op = "release" => deliveries[tx[t].del].courier = tx'[t].cour
      BY <1>a, <2>1, <2>2, EndOthers DEF HolderInv, LockInv
    <2> QED
      BY <1>a, <2>1, <2>2, RowsUntouched
  <1>b. tx[s] \in Transaction /\ tx \in [Sessions -> Transaction]
    BY DEF TypeInv, TypeOK
  <1>c. tx[s].pc # "idle" => tx[s].del \in Deliveries /\ Loaded(s) \in Delivery
    BY LoadedType DEF TypeInv, TxInv
  <1>1. CASE Refuse(s)
    BY <1>1, <1>a DEF Refuse, money
  <1>2. CASE LockDelivery(s)
    <2>1. /\ tx[s].pc = "lock" /\ rowLock[tx[s].del] = None
          /\ Admits(tx[s].op, Loaded(s), tx[s].del, tx[s].cour)
          /\ rowLock' = [rowLock EXCEPT ![tx[s].del] = s]
          /\ UNCHANGED <<deliveries, ledger, commissions>>
      BY <1>2 DEF LockDelivery, Locking, RowFree, Proceeds, money
    <2>2. /\ tx'[s].pc = "wallet" /\ tx'[s].op = tx[s].op /\ tx'[s].del = tx[s].del
          /\ tx'[s].obj = tx[s].obj /\ (tx[s].op = "release" => tx'[s].cour = tx[s].cour)
          /\ \A t \in Sessions \ {s} : tx'[t] = tx[t]
      BY <1>2, <1>b DEF LockDelivery, Transaction
    <2>3. tx[s].op = "release" => deliveries[tx[s].del].courier = tx[s].cour
      <3> SUFFICES ASSUME tx[s].op = "release" PROVE deliveries[tx[s].del].courier = tx[s].cour
        OBVIOUS
      <3>1. tx[s].obj = None
        BY <2>1 DEF HolderInv, ObjectInv
      <3>2. Loaded(s).courier = tx[s].cour
        BY <2>1 DEF Admits, ReleaseAdmits
      <3> QED
        BY <3>1, <3>2 DEF Loaded
    <2>4. ASSUME NEW t \in Sessions, tx'[t].pc \in {"wallet", "insert", "write"}
          PROVE  /\ rowLock'[tx[t].del] = t
                 /\ tx[t].op = "release" => deliveries[tx[t].del].courier = tx'[t].cour
      <3>1. CASE t = s
        BY <1>c, <2>1, <2>2, <2>3, <3>1 DEF TypeInv, TypeOK
      <3>2. CASE t # s
        <4>1. /\ rowLock[tx[t].del] = t /\ tx[t].del \in Deliveries
              /\ tx[t].op = "release" => deliveries[tx[t].del].courier = tx[t].cour
          BY <2>2, <2>4, <3>2 DEF HolderInv, LockInv, TypeInv, TxInv
        <4>2. tx[t].del # tx[s].del
          BY <2>1, <4>1 DEF ConstantsAssumption
        <4> QED
          BY <2>1, <2>2, <3>2, <4>1, <4>2 DEF TypeInv, TypeOK
      <3> QED
        BY <3>1, <3>2
    <2> QED
      BY <2>1, <2>2, <2>4, RowsUntouched
  <1>3. CASE Request(s) \/ Reject(s) \/ AutoCancel(s) \/ Cancel(s)
    <2>1. /\ tx[s].pc # "idle" /\ End(s) /\ rowLock[tx[s].del] = None
          /\ UNCHANGED <<ledger, commissions>>
      BY <1>3 DEF Request, Reject, AutoCancel, Cancel, Locking, RowFree, money
    <2>2. PICK old \in Delivery, new \in Delivery :
             /\ Flush(tx[s].del, old, new) /\ new.courier = old.courier
             /\ new.status \in {"OPEN", "PENDING_APPROVAL", "CANCELLED"}
      <3>1. CASE Request(s)
        <4>1. tx[s].cour \in Couriers
          BY <3>1 DEF Request, Locking, TypeInv, TxInv
        <4> DEFINE new == [Loaded(s) EXCEPT !.status = "PENDING_APPROVAL",
                                            !.requester = tx[s].cour, !.decision = None]
        <4>2. new \in Delivery /\ new.courier = Loaded(s).courier /\ new.status = "PENDING_APPROVAL"
          BY <1>c, <2>1, <4>1 DEF Delivery, Status
        <4>3. Flush(tx[s].del, Loaded(s), new)
          BY <3>1 DEF Request
        <4> HIDE DEF new
        <4> QED
          BY <1>c, <2>1, <4>2, <4>3
      <3>2. CASE Reject(s)
        <4> DEFINE new == [Loaded(s) EXCEPT !.status = "OPEN", !.requester = None,
                                            !.decision = "rejected"]
        <4>1. new \in Delivery /\ new.courier = Loaded(s).courier /\ new.status = "OPEN"
          BY <1>c, <2>1 DEF Delivery, Status
        <4>2. Flush(tx[s].del, Loaded(s), new)
          BY <3>2 DEF Reject
        <4> HIDE DEF new
        <4> QED
          BY <1>c, <2>1, <4>1, <4>2
      <3>3. CASE AutoCancel(s)
        BY <1>c, <2>1, <3>3 DEF AutoCancel, Delivery, Status
      <3>4. CASE Cancel(s)
        <4>1. tx[s].obj \in Delivery
          BY <3>4 DEF Cancel, TypeInv, TxInv
        <4> QED
          BY <2>1, <3>4, <4>1 DEF Cancel, Delivery, Status
      <3> QED
        BY <1>3, <3>1, <3>2, <3>3, <3>4
    <2>3. PICK d \in Deliveries : d = tx[s].del
      BY <1>c, <2>1
    <2> QED
      BY <2>1, <2>2, <2>3, StatusWritten
  <1>4. CASE MarkDelivered(s)
    <2>1. PICK d \in Deliveries : d = tx[s].del
      BY <1>4, <1>c DEF MarkDelivered, Locking
    <2>2. /\ tx[s].pc # "idle" /\ tx[s].op = "deliver" /\ End(s) /\ rowLock[d] = None
          /\ UNCHANGED ledger /\ Loaded(s).status \in {"CAPTURED", "IN_PROGRESS"}
      BY <1>4, <2>1 DEF MarkDelivered, Locking, RowFree, Proceeds, Admits
    <2>3. Loaded(s) = deliveries[d] /\ deliveries[d] \in Delivery
      BY <1>c, <2>1, <2>2 DEF HolderInv, ObjectInv, Loaded
    <2>4. deliveries[d].courier # None
      BY <2>2, <2>3 DEF HolderInv, CapturedIsHeld
    <2>5. CASE CommissionDue(d) /\ d \in commissions
      <3>1. UNCHANGED <<deliveries, commissions>>
        BY <1>4, <2>1, <2>5 DEF MarkDelivered
      <3> QED
        BY <1>a, <2>2, <3>1
    <2>6. CASE ~(CommissionDue(d) /\ d \in commissions)
      <3> DEFINE old == deliveries[d]
                 new == [old EXCEPT !.status = "DELIVERED"]
      <3>1. /\ Flush(d, old, new)
            /\ commissions' = IF CommissionDue(d) THEN commissions \cup {d} ELSE commissions
        BY <1>4, <2>1, <2>3, <2>6 DEF MarkDelivered
      <3>2. new \in Delivery /\ new.courier = old.courier
        BY <2>3 DEF Delivery, Status
      <3> HIDE DEF old, new
      <3>3. /\ commissions \subseteq commissions'
            /\ CommissionDue(d) => d \in commissions'
        BY <3>1
      <3> QED
        BY <2>2, <2>3, <2>4, <3>1, <3>2, <3>3, StatusWritten DEF old
    <2> QED
      BY <2>5, <2>6
  <1>5. CASE LockWallet(s)
    <2>1. UNCHANGED <<deliveries, ledger, commissions>> /\ tx[s].pc = "wallet"
      BY <1>5 DEF LockWallet, money
    <2>2. CASE End(s)
      BY <1>a, <2>1, <2>2
    <2>3. CASE ~End(s)
      <3>1. /\ tx' = [tx EXCEPT ![s].pc = "write", ![s].seen = balance[tx[s].cour]]
            /\ UNCHANGED rowLock
        BY <1>5, <2>3 DEF LockWallet
      <3>2. /\ tx'[s].op = tx[s].op /\ tx'[s].del = tx[s].del /\ tx'[s].obj = tx[s].obj
            /\ tx'[s].cour = tx[s].cour
            /\ \A t \in Sessions \ {s} : tx'[t] = tx[t]
        BY <3>1, <1>b DEF Transaction
      <3>3. ASSUME NEW t \in Sessions, tx'[t].pc \in {"wallet", "insert", "write"}
            PROVE  /\ rowLock'[tx[t].del] = t
                   /\ tx[t].op = "release" => deliveries[tx[t].del].courier = tx'[t].cour
        <4>1. tx[t].pc \in {"wallet", "insert", "write"} /\ tx'[t].cour = tx[t].cour
          BY <2>1, <3>2, <3>3
        <4> QED
          BY <3>1, <4>1 DEF HolderInv, LockInv
      <3>4. \A t \in Sessions : tx'[t].pc # "idle" =>
                /\ tx[t].pc # "idle" /\ tx'[t].op = tx[t].op
                /\ tx'[t].obj = tx[t].obj /\ tx'[t].del = tx[t].del
        BY <2>1, <3>2
      <3> QED
        BY <2>1, <3>3, <3>4, RowsUntouched
    <2> QED
      BY <2>2, <2>3
  <1>6. CASE FindNoWallet(s)
    <2>1. /\ UNCHANGED <<deliveries, ledger, commissions, rowLock>> /\ tx[s].pc = "wallet"
          /\ tx' = [tx EXCEPT ![s].pc = "insert"]
      BY <1>6 DEF FindNoWallet, money
    <2>2. /\ tx'[s].op = tx[s].op /\ tx'[s].del = tx[s].del /\ tx'[s].obj = tx[s].obj
          /\ tx'[s].cour = tx[s].cour
          /\ \A t \in Sessions \ {s} : tx'[t] = tx[t]
      BY <2>1, <1>b DEF Transaction
    <2> QED
      BY <2>1, <2>2, RowsUntouched DEF HolderInv, LockInv
  <1>7. CASE InsertWallet(s)
    <2>1. tx[s].pc = "insert" /\ tx[s].cour \in Couriers /\ End(s)
      BY <1>7 DEF InsertWallet, TypeInv, TxInv
    <2>2. CASE UNCHANGED <<deliveries, ledger, commissions>>
      BY <1>a, <2>1, <2>2
    <2>3. CASE ~UNCHANGED <<deliveries, ledger, commissions>>
      <3>1. tx[s].cour \notin wallets /\ WriteCapture(s, 0)
        BY <1>7, <2>3 DEF InsertWallet, money
      <3>2. ~HasEntry(tx[s].cour, tx[s].del, "DEBIT")
        <4>1. ledger[tx[s].cour] = <<>>
          BY <2>1, <3>1 DEF WalletInv, NoWalletInv
        <4> QED
          BY <4>1 DEF HasEntry
      <3> QED
        BY <2>1, <3>1, <3>2, CaptureWritten
    <2> QED
      BY <2>2, <2>3
  <1>8. CASE Capture(s)
    <2>1. tx[s].pc = "write" /\ End(s) /\ tx[s].seen \in Int
      BY <1>8, <1>b DEF Capture, Transaction
    <2>2. CASE HasEntry(tx[s].cour, tx[s].del, "DEBIT")
      BY <1>8, <1>a, <2>1, <2>2 DEF Capture, money
    <2>3. CASE ~HasEntry(tx[s].cour, tx[s].del, "DEBIT")
      <3>1. WriteCapture(s, tx[s].seen)
        BY <1>8, <2>3 DEF Capture
      <3> QED
        BY <2>1, <2>3, <3>1, CaptureWritten
    <2> QED
      BY <2>2, <2>3
  <1>9. CASE ReleaseDelivery(s)
    BY <1>9, ReleaseWritten
  <1> QED
    BY <1>1, <1>2, <1>3, <1>4, <1>5, <1>6, <1>7, <1>8, <1>9 DEF Step

(* Holders, for every step of the system.                                  *)
LEMMA HolderInvariant == Spec => []HolderInv
  <1>1. Init => HolderInv
    <2> SUFFICES ASSUME Init PROVE HolderInv
      OBVIOUS
    <2>1. /\ \A d \in Deliveries : deliveries[d].courier = None /\ deliveries[d].status = "OPEN"
          /\ \A c \in Couriers : ledger[c] = <<>>
          /\ \A s \in Sessions : tx[s].pc = "idle"
      BY DEF Init, NewDelivery, Idle
    <2>2. PaidHolder /\ CapturedIsHeld /\ DeliveredIsCommissioned
      BY <2>1 DEF PaidHolder, CapturedIsHeld, DeliveredIsCommissioned
    <2>3. RefundFollowsDebit
      BY <2>1 DEF RefundFollowsDebit, HasEntry
    <2>4. ObjectInv /\ LockInv
      BY <2>1 DEF ObjectInv, LockInv
    <2> QED
      BY <2>2, <2>3, <2>4 DEF HolderInv
  <1>2. TypeInv /\ TypeInv' /\ WalletInv /\ HolderInv /\ [Next]_vars => HolderInv'
    <2> SUFFICES ASSUME TypeInv, TypeInv', WalletInv, HolderInv, [Next]_vars PROVE HolderInv'
      OBVIOUS
    <2>1. ASSUME NEW s \in Sessions, Begin(s) PROVE HolderInv'
      <3>0. PICK d \in Deliveries :
               \E pc \in {"lock", "update"}, op \in Operations, c \in Couriers \cup {None} :
               \E obj \in {None, deliveries[d]} :
                   /\ Start(s, pc, op, d, c, obj)
                   /\ op \in {"deliver", "release"} => obj = None
        BY <2>1 DEF Begin, CaptureRoute, FollowLink, DispatcherDecides, DeliverRoute,
                    ReleaseCall, CancelRoute, SelectExpired, Operations
      <3>1. PICK pc \in {"lock", "update"}, op \in Operations, c \in Couriers \cup {None},
                 obj \in {None, deliveries[d]} :
                   /\ Start(s, pc, op, d, c, obj)
                   /\ op \in {"deliver", "release"} => obj = None
        BY <3>0
      <3>2. /\ UNCHANGED <<deliveries, ledger, commissions, rowLock>>
            /\ tx' = [tx EXCEPT ![s] = [pc |-> pc, op |-> op, del |-> d, cour |-> c,
                                        obj |-> obj, seen |-> 0]]
        BY <3>1 DEF Start, money
      <3>3. /\ tx'[s].pc = pc /\ tx'[s].op = op /\ tx'[s].del = d /\ tx'[s].obj = obj
            /\ \A t \in Sessions \ {s} : tx'[t] = tx[t]
        BY <3>2 DEF TypeInv, TypeOK
      <3>4. PaidHolder' /\ RefundFollowsDebit' /\ CapturedIsHeld' /\ DeliveredIsCommissioned'
        <4>1. PaidHolder' /\ RefundFollowsDebit'
          BY <3>2 DEF HolderInv, PaidHolder, RefundFollowsDebit, Charged, HasEntry
        <4>2. CapturedIsHeld' /\ DeliveredIsCommissioned'
          BY <3>2 DEF HolderInv, CapturedIsHeld, DeliveredIsCommissioned, CommissionDue
        <4> QED
          BY <4>1, <4>2
      <3>5. ObjectInv'
        <4>1. obj = None \/ obj.courier = None \/ HasEntry(obj.courier, d, "DEBIT")
          BY DEF HolderInv, PaidHolder, Charged
        <4> QED
          BY <3>1, <3>2, <3>3, <4>1, SMTT(30) DEF HolderInv, ObjectInv, HasEntry
      <3>6. LockInv'
        BY <3>2, <3>3 DEF HolderInv, LockInv
      <3> QED
        BY <3>4, <3>5, <3>6 DEF HolderInv
    <2>2. ASSUME NEW s \in Sessions, Step(s) PROVE HolderInv'
      BY <2>2, StepHolder, ConstantsAssumption
    <2>3. CASE UNCHANGED <<deliveries, ledger, commissions, tx, rowLock>>
      BY <2>3, RowsUntouched DEF HolderInv, LockInv
    <2> QED
      BY <2>1, <2>2, <2>3 DEF Next, vars, money, AddToBlacklist, RemoveFromBlacklist
  <1> QED
    BY <1>1, <1>2, TypeInvariant, WalletInvariant, PTL DEF Spec

(* Whoever holds a captured or delivered delivery has paid for it, even    *)
(* where stale objects overwrite its status.                               *)
THEOREM HolderCorrect == Spec => []HolderIsCharged
  <1>1. HolderInv => HolderIsCharged
    BY DEF HolderInv, PaidHolder, CapturedIsHeld, HolderIsCharged
  <1> QED
    BY <1>1, HolderInvariant, PTL

(* No delivered delivery lacks the commission its station is due.          *)
THEOREM CommissionCorrect == Spec => []DeliveredIsCommissioned
  <1>1. HolderInv => DeliveredIsCommissioned
    BY DEF HolderInv
  <1> QED
    BY <1>1, HolderInvariant, PTL

-----------------------------------------------------------------------------
(* The dispatcher's approval, under every interleaving of every entry      *)
(* point but the capture route                                             *)
NoCaptureRoute == \A s \in Sessions : "capture" \notin Entry[s]

(* A capture that asks no dispatcher is then of a direct delivery: behind  *)
(* a link, the station of the delivery chooses the service.                *)
ApprovalInv ==
    /\ \A s \in Sessions :
          tx[s].pc # "idle" /\ tx[s].op = "capture" => StationOf[tx[s].del] = None
    /\ StationCaptureApproved

(* A write that does not capture leaves the decision of a row it leaves    *)
(* captured.                                                               *)
LEMMA DecisionStays ==
    ASSUME TypeInv, StationCaptureApproved, NEW d \in Deliveries,
           NEW old \in Delivery, NEW new \in Delivery, Flush(d, old, new),
           new.status # "CAPTURED",
           new.decision # old.decision => new.status # old.status
    PROVE  StationCaptureApproved'
  <1>1. deliveries \in [Deliveries -> Delivery] BY DEF TypeInv, TypeOK
  <1>2. /\ \A e \in Deliveries \ {d} : deliveries'[e] = deliveries[e]
        /\ deliveries'[d].status = IF new.status # old.status THEN new.status
                                   ELSE deliveries[d].status
        /\ deliveries'[d].decision = IF new.decision # old.decision THEN new.decision
                                     ELSE deliveries[d].decision
    BY <1>1 DEF Flush, Delivery
  <1>3. QED BY <1>2 DEF StationCaptureApproved

(* An approval writes its decision with the capture, whatever the row      *)
(* holds by then; the other captures are of direct deliveries.             *)
LEMMA DecisionWritten ==
    ASSUME TypeInv, ApprovalInv, NEW s \in Sessions, tx[s].pc \in {"insert", "write"},
           tx[s].op # "release", NEW seen \in Int, WriteCapture(s, seen)
    PROVE  StationCaptureApproved'
  <1>1. PICK d \in Deliveries : d = tx[s].del BY DEF TypeInv, TxInv
  <1>2. deliveries \in [Deliveries -> Delivery] BY DEF TypeInv, TypeOK
  <1>3. \A e \in Deliveries \ {d} : deliveries'[e] = deliveries[e]
    BY <1>1, <1>2 DEF WriteCapture, Flush
  <1>4. StationOf[d] = None \/ deliveries'[d].decision = "approved"
    <2>1. CASE tx[s].op = "capture" BY <1>1, <2>1 DEF ApprovalInv
    <2>2. CASE tx[s].op = "approve"
      <3> DEFINE obj == [Loaded(s) EXCEPT !.decision = deliveries[d].decision]
                 new == [obj EXCEPT !.status = "CAPTURED", !.courier = tx[s].cour,
                                    !.decision = "approved"]
      <3>1. Flush(d, obj, new) BY <1>1, <2>2 DEF WriteCapture
      <3>2. obj.decision = deliveries[d].decision /\ new.decision = "approved"
        BY LoadedType DEF Delivery
      <3> HIDE DEF obj, new
      <3>3. QED BY <1>2, <3>1, <3>2 DEF Flush
    <2>3. QED BY <2>1, <2>2 DEF TypeInv, TxInv
  <1>5. QED BY <1>3, <1>4 DEF ApprovalInv, StationCaptureApproved

(* What the steps of a session write, and what is left of the sessions.    *)
LEMMA ApprovalStep ==
    ASSUME TypeInv, ApprovalInv, NEW s \in Sessions, Step(s)
    PROVE  ApprovalInv'
  <1>a. tx[s] \in Transaction /\ tx \in [Sessions -> Transaction]
    BY DEF TypeInv, TypeOK
  <1>b. tx[s].pc # "idle" => tx[s].del \in Deliveries /\ Loaded(s) \in Delivery
    BY LoadedType DEF TypeInv, TxInv
  <1>c. ASSUME StationCaptureApproved',
               \/ End(s)
               \/ /\ tx[s].pc # "idle" /\ tx'[s].op = tx[s].op /\ tx'[s].del = tx[s].del
                  /\ \A t \in Sessions \ {s} : tx'[t] = tx[t]
        PROVE  ApprovalInv'
    <2>1. CASE End(s) BY <1>c, <2>1, EndOthers DEF ApprovalInv
    <2>2. CASE ~End(s) BY <1>c, <2>2 DEF ApprovalInv
    <2>3. QED BY <2>1, <2>2
  <1>d. ASSUME UNCHANGED deliveries PROVE StationCaptureApproved'
    BY <1>d DEF ApprovalInv, StationCaptureApproved
  <1>e. ASSUME NEW old \in Delivery, NEW new \in Delivery, tx[s].pc # "idle", End(s),
               Flush(tx[s].del, old, new), new.status # "CAPTURED",
               new.decision # old.decision => new.status # old.status
        PROVE  ApprovalInv'
    <2>1. PICK d \in Deliveries : d = tx[s].del BY <1>b, <1>e
    <2>2. StationCaptureApproved' BY <1>e, <2>1, DecisionStays DEF ApprovalInv
    <2>3. QED BY <1>c, <1>e, <2>2
  <1>1. CASE Refuse(s) BY <1>1, <1>c, <1>d DEF Refuse
  <1>2. CASE LockDelivery(s)
    <2>1. /\ tx[s].pc = "lock" /\ UNCHANGED deliveries
          /\ tx'[s].op = tx[s].op /\ tx'[s].del = tx[s].del
          /\ \A t \in Sessions \ {s} : tx'[t] = tx[t]
      BY <1>2, <1>a DEF LockDelivery, Locking, Transaction
    <2>2. QED BY <2>1, <1>c, <1>d
  <1>3. CASE Request(s)
    <2> DEFINE old == Loaded(s)
               new == [old EXCEPT !.status = "PENDING_APPROVAL", !.requester = tx[s].cour,
                                  !.decision = None]
    <2>1. /\ tx[s].pc # "idle" /\ End(s) /\ Flush(tx[s].del, old, new)
          /\ tx[s].cour \in Couriers /\ old.status = "OPEN"
      BY <1>3 DEF Request, Locking, Proceeds, Admits, TypeInv, TxInv
    <2>2. new \in Delivery /\ new.status = "PENDING_APPROVAL" /\ old \in Delivery
      BY <1>b, <2>1 DEF Delivery, Status
    <2> HIDE DEF old, new
    <2>3. QED BY <1>e, <2>1, <2>2
  <1>4. CASE Reject(s)
    <2> DEFINE old == Loaded(s)
               new == [old EXCEPT !.status = "OPEN", !.requester = None,
                                  !.decision = "rejected"]
    <2>1. /\ tx[s].pc # "idle" /\ End(s) /\ Flush(tx[s].del, old, new)
          /\ old.status = "PENDING_APPROVAL"
      BY <1>4 DEF Reject, Locking, Proceeds, Admits
    <2>2. new \in Delivery /\ new.status = "OPEN" /\ old \in Delivery
      BY <1>b, <2>1 DEF Delivery, Status
    <2> HIDE DEF old, new
    <2>3. QED BY <1>e, <2>1, <2>2
  <1>5. CASE MarkDelivered(s)
    <2> DEFINE old == Loaded(s)
               new == [old EXCEPT !.status = "DELIVERED"]
    <2>1. /\ tx[s].pc # "idle" /\ End(s)
          /\ UNCHANGED deliveries \/ Flush(tx[s].del, old, new)
      BY <1>5 DEF MarkDelivered, Locking
    <2>2. /\ new \in Delivery /\ new.status = "DELIVERED" /\ new.decision = old.decision
          /\ old \in Delivery
      BY <1>b, <2>1 DEF Delivery, Status
    <2> HIDE DEF old, new
    <2>3. QED BY <1>c, <1>d, <1>e, <2>1, <2>2
  <1>6. CASE AutoCancel(s) \/ Cancel(s)
    <2>1. PICK old \in Delivery :
              /\ tx[s].pc # "idle" /\ End(s)
              /\ Flush(tx[s].del, old, [old EXCEPT !.status = "CANCELLED"])
      BY <1>6, <1>b DEF AutoCancel, Cancel, Locking, TypeInv, TxInv
    <2> DEFINE new == [old EXCEPT !.status = "CANCELLED"]
    <2>2. new \in Delivery /\ new.status = "CANCELLED" /\ new.decision = old.decision
      BY DEF Delivery, Status
    <2>3. Flush(tx[s].del, old, new) BY <2>1
    <2> HIDE DEF new
    <2>4. QED BY <1>e, <2>1, <2>2, <2>3
  <1>7. CASE LockWallet(s) \/ FindNoWallet(s)
    <2>1. /\ tx[s].pc = "wallet" /\ UNCHANGED deliveries
          /\ \/ End(s)
             \/ /\ tx'[s].op = tx[s].op /\ tx'[s].del = tx[s].del
                /\ \A t \in Sessions \ {s} : tx'[t] = tx[t]
      BY <1>7, <1>a DEF LockWallet, FindNoWallet, Transaction
    <2>2. QED BY <2>1, <1>c, <1>d
  <1>8. CASE InsertWallet(s)
    <2>1. /\ tx[s].pc = "insert" /\ tx[s].op # "release" /\ End(s)
          /\ UNCHANGED deliveries \/ WriteCapture(s, 0)
      BY <1>8 DEF InsertWallet, TypeInv, TxInv
    <2>2. StationCaptureApproved' BY <1>d, <2>1, DecisionWritten
    <2>3. QED BY <1>c, <2>1, <2>2
  <1>9. CASE Capture(s)
    <2>1. /\ tx[s].pc = "write" /\ tx[s].op # "release" /\ End(s) /\ tx[s].seen \in Int
          /\ UNCHANGED deliveries \/ WriteCapture(s, tx[s].seen)
      BY <1>9, <1>a DEF Capture, Transaction
    <2>2. StationCaptureApproved' BY <1>d, <2>1, DecisionWritten
    <2>3. QED BY <1>c, <2>1, <2>2
  <1>10. CASE ReleaseDelivery(s)
    <2> DEFINE old == Loaded(s)
               new == [old EXCEPT !.status = "OPEN", !.courier = None]
    <2>1. tx[s].pc # "idle" /\ End(s) /\ Flush(tx[s].del, old, new)
      BY <1>10 DEF ReleaseDelivery
    <2>2. /\ new \in Delivery /\ new.status = "OPEN" /\ new.decision = old.decision
          /\ old \in Delivery
      BY <1>b, <2>1 DEF Delivery, Status
    <2> HIDE DEF old, new
    <2>3. QED BY <1>e, <2>1, <2>2
  <1>11. QED
    BY <1>1, <1>2, <1>3, <1>4, <1>5, <1>6, <1>7, <1>8, <1>9, <1>10 DEF Step

LEMMA ApprovalBegin ==
    ASSUME TypeInv, NoCaptureRoute, ApprovalInv, NEW s \in Sessions, Begin(s)
    PROVE  ApprovalInv'
  <1>1. PICK d \in Deliveries, pc \in {"lock", "update"}, op \in Operations,
             c \in Couriers \cup {None} :
                 /\ Start(s, pc, op, d, c, None) \/ Start(s, pc, op, d, c, deliveries[d])
                 /\ op = "capture" => StationOf[d] = None
    BY DEF NoCaptureRoute, Begin, FollowLink, DispatcherDecides, DeliverRoute,
           ReleaseCall, CancelRoute, SelectExpired, Operations
  <1>2. /\ tx'[s].op = op /\ tx'[s].del = d /\ UNCHANGED deliveries
        /\ \A t \in Sessions \ {s} : tx'[t] = tx[t]
    BY <1>1 DEF Start, TypeInv, TypeOK
  <1>3. QED BY <1>1, <1>2 DEF ApprovalInv, StationCaptureApproved

(* A station's delivery is captured only after its dispatcher's approval,  *)
(* however the requests overlap and whatever stale rows they write, unless *)
(* the capture route is used on it.                                        *)
THEOREM ApprovalCorrect ==
    ASSUME NoCaptureRoute
    PROVE  Spec => []StationCaptureApproved
  <1>1. Init => ApprovalInv
    BY DEF Init, ApprovalInv, StationCaptureApproved, Idle, NewDelivery
  <1>2. TypeInv /\ ApprovalInv /\ [Next]_vars => ApprovalInv'
    <2> SUFFICES ASSUME TypeInv, ApprovalInv, [Next]_vars PROVE ApprovalInv'
      OBVIOUS
    <2>1. ASSUME NEW s \in Sessions, Begin(s) PROVE ApprovalInv' BY <2>1, ApprovalBegin
    <2>2. ASSUME NEW s \in Sessions, Step(s) PROVE ApprovalInv' BY <2>2, ApprovalStep
    <2>3. CASE UNCHANGED <<deliveries, tx>>
      BY <2>3 DEF ApprovalInv, StationCaptureApproved
    <2>4. QED
      BY <2>1, <2>2, <2>3 DEF Next, vars, AddToBlacklist, RemoveFromBlacklist
  <1>3. ApprovalInv => StationCaptureApproved BY DEF ApprovalInv
  <1>4. QED BY <1>1, <1>2, <1>3, TypeInvariant, PTL DEF Spec

-----------------------------------------------------------------------------
(* The atomic contract, where no request moves an uncaptured delivery      *)
(* while another one works on an object of it that it loaded before it     *)
(* took the lock                                                           *)
Settles == {"deliver", "release"}

(* The session works on an object that it loaded without a lock.           *)
HasRead(s) == tx[s].obj # None \/ tx[s].pc = "update"

Apart ==
    \A s, t \in Sessions :
        /\ s # t /\ tx[s].pc # "idle" /\ tx[t].pc # "idle"
        /\ tx[s].del = tx[t].del /\ HasRead(s)
        => tx[t].op \in Settles

(* What the entry points make sure of.                                     *)
EntryInv ==
    \A s \in Sessions :
        tx[s].pc # "idle" =>
            /\ tx[s].pc = "update" => tx[s].op = "cancel"
            /\ tx[s].op = "request" => StationOf[tx[s].del] # None

(* An object that admits any operation still equals its row; objects that  *)
(* were captured when they were read may be old, but they are refused.     *)
CurrentInv ==
    \A s \in Sessions :
        tx[s].pc # "idle" /\ HasRead(s) =>
            /\ tx[s].obj.status \in Uncaptured => tx[s].obj = deliveries[tx[s].del]
            /\ tx[s].pc # "lock" => tx[s].obj.status \in Uncaptured

(* What a session has checked under the row lock stays true until it writes. *)
Checked(op, d, c) ==
    /\ op = "capture" => CaptureAdmits(deliveries[d], d, c)
    /\ op = "approve" => /\ deliveries[d].status = "PENDING_APPROVAL"
                         /\ deliveries[d].requester = c
    /\ op = "release" => deliveries[d].status = "CAPTURED"

CheckedInv ==
    \A s \in Sessions :
        tx[s].pc \in {"wallet", "insert", "write"} =>
            Checked(tx[s].op, tx[s].del, tx[s].cour)

NoneInProgress == \A d \in Deliveries : deliveries[d].status # "IN_PROGRESS"

AtomicInv == EntryInv /\ CurrentInv /\ CheckedInv /\ NoneInProgress

(* The contract's view of a row.                                           *)
Waiting(d) == IF deliveries[d].status = "PENDING_APPROVAL" THEN deliveries[d].requester ELSE None

Row(d, status, courier, waiting) ==
    deliveries[d].status = status /\ deliveries[d].courier = courier /\ Waiting(d) = waiting

(* A flush of what was loaded from the row itself writes what it says.     *)
LEMMA FlushFresh ==
    ASSUME deliveries \in [Deliveries -> Delivery], NEW d \in Deliveries,
           NEW new \in Delivery, Flush(d, deliveries[d], new)
    PROVE  /\ \A e \in Deliveries \ {d} : deliveries'[e] = deliveries[e]
           /\ deliveries'[d].status = new.status /\ deliveries'[d].courier = new.courier
           /\ deliveries'[d].requester = new.requester
  BY DEF Flush, Delivery

(* Under the lock, an object that is admitted is the row.                  *)
LEMMA AdmittedIsRow ==
    ASSUME TypeInv, HolderInv, AtomicInv, NEW s \in Sessions, tx[s].pc # "idle",
           tx[s].pc = "lock" => Proceeds(s)
    PROVE  Loaded(s) = deliveries[tx[s].del]
  <1>1. CASE tx[s].obj = None BY <1>1 DEF Loaded
  <1>2. CASE tx[s].obj # None
    <2>1. Loaded(s) = tx[s].obj /\ tx[s].op \notin Settles
      BY <1>2 DEF Loaded, HolderInv, ObjectInv, Settles
    <2>2. tx[s].obj.status \in Uncaptured
      <3>1. CASE tx[s].pc = "lock"
        BY <2>1, <3>1 DEF Proceeds, Admits, CaptureAdmits, ExpiryAdmits, Uncaptured, Settles
      <3>2. CASE tx[s].pc # "lock" BY <1>2, <3>2 DEF AtomicInv, CurrentInv, HasRead
      <3>3. QED BY <3>1, <3>2
    <2>3. QED BY <1>2, <2>1, <2>2 DEF AtomicInv, CurrentInv, HasRead
  <1>3. QED BY <1>1, <1>2

(* A transaction that writes one row, which it has locked or finds         *)
(* unlocked; one that settles writes a captured row.                       *)
Writes(s, d, status, courier, waiting) ==
    /\ End(s)
    /\ rowLock[d] \in {None, s}
    /\ \A e \in Deliveries \ {d} : deliveries'[e] = deliveries[e]
    /\ deliveries'[d].status = status /\ deliveries'[d].courier = courier
    /\ Waiting(d)' = waiting
    /\ tx[s].pc # "idle" /\ tx[s].del = d
    /\ tx[s].op \in Settles => deliveries[d].status = "CAPTURED"

(* What a flush from the row comes to.                                     *)
LEMMA FlushWrites ==
    ASSUME TypeInv, NEW s \in Sessions, tx[s].pc # "idle", End(s), NEW d \in Deliveries, d = tx[s].del,
           rowLock[d] \in {None, s}, NEW new \in Delivery, Flush(d, deliveries[d], new),
           tx[s].op \in Settles => deliveries[d].status = "CAPTURED"
    PROVE  Writes(s, d, new.status, new.courier,
                  IF new.status = "PENDING_APPROVAL" THEN new.requester ELSE None)
  <1>1. deliveries \in [Deliveries -> Delivery] BY DEF TypeInv, TypeOK
  <1>2. QED BY <1>1, FlushFresh DEF Writes, Waiting

(* Whoever else is under a row lock is under another row's, and whoever    *)
(* else has read the row without a lock read it captured.                  *)
LEMMA AtomicWrites ==
    ASSUME Apart, TypeInv, HolderInv, AtomicInv, NEW s \in Sessions, NEW d \in Deliveries,
           NEW status, status # "IN_PROGRESS", NEW courier, NEW waiting,
           Writes(s, d, status, courier, waiting)
    PROVE  AtomicInv'
  <1>1. \A t \in Sessions : tx'[t].pc # "idle" => t # s /\ tx'[t] = tx[t] /\ tx[t].del \in Deliveries
    BY EndOthers DEF Writes, TypeInv, TxInv
  <1>2. EntryInv' BY <1>1 DEF AtomicInv, EntryInv
  <1>3. NoneInProgress' BY DEF AtomicInv, NoneInProgress, Writes
  <1>4. CheckedInv'
    <2> SUFFICES ASSUME NEW t \in Sessions, tx'[t].pc \in {"wallet", "insert", "write"}
                 PROVE  deliveries'[tx[t].del] = deliveries[tx[t].del] /\ tx'[t] = tx[t]
      BY DEF AtomicInv, CheckedInv, Checked
    <2>1. t # s /\ tx'[t] = tx[t] /\ tx[t].del \in Deliveries BY <1>1
    <2>2. rowLock[tx[t].del] = t BY <2>1 DEF HolderInv, LockInv
    <2>3. tx[t].del # d BY <2>1, <2>2, ConstantsAssumption DEF Writes, ConstantsAssumption
    <2>4. QED BY <2>1, <2>3 DEF Writes
  <1>5. CurrentInv'
    <2> SUFFICES ASSUME NEW t \in Sessions, tx'[t].pc # "idle", HasRead(t)'
                 PROVE  /\ tx'[t].obj.status \in Uncaptured => tx'[t].obj = deliveries'[tx'[t].del]
                        /\ tx'[t].pc # "lock" => tx'[t].obj.status \in Uncaptured
      BY DEF CurrentInv
    <2>1. /\ t # s /\ tx'[t] = tx[t] /\ tx[t].del \in Deliveries /\ tx[t].pc # "idle"
          /\ HasRead(t)
      BY <1>1 DEF HasRead
    <2>2. CASE tx[t].del = d
      <3>1. deliveries[d].status = "CAPTURED" BY <2>1, <2>2 DEF Apart, Writes
      <3>2. QED BY <2>1, <2>2, <3>1 DEF AtomicInv, CurrentInv, Uncaptured
    <2>3. CASE tx[t].del # d BY <2>1, <2>3 DEF AtomicInv, CurrentInv, Writes
    <2>4. QED BY <2>2, <2>3
  <1>6. QED BY <1>2, <1>3, <1>4, <1>5 DEF AtomicInv

(* Steps that write no row: a request goes on, or ends.                    *)
LEMMA AtomicStays ==
    ASSUME AtomicInv, UNCHANGED deliveries,
           \A t \in Sessions :
               /\ tx'[t].pc # "idle" => /\ tx[t].pc # "idle"
                                        /\ tx'[t].op = tx[t].op /\ tx'[t].obj = tx[t].obj
                                        /\ tx'[t].del = tx[t].del
                                        /\ tx'[t].pc = "update" => tx[t].pc = "update"
               /\ tx'[t].pc \notin {"idle", "lock"} =>
                     \/ tx[t].pc # "lock"
                     \/ ~HasRead(t) \/ tx[t].obj.status \in Uncaptured
               /\ tx'[t].pc \in {"wallet", "insert", "write"} =>
                     \/ tx[t].pc \in {"wallet", "insert", "write"} /\ tx'[t].cour = tx[t].cour
                     \/ Checked(tx[t].op, tx[t].del, tx'[t].cour)
    PROVE  AtomicInv'
  <1>1. EntryInv' BY DEF AtomicInv, EntryInv
  <1>2. CurrentInv' BY DEF AtomicInv, CurrentInv, HasRead
  <1>3. CheckedInv' BY DEF AtomicInv, CheckedInv, Checked
  <1>4. NoneInProgress' BY DEF AtomicInv, NoneInProgress
  <1>5. QED BY <1>1, <1>2, <1>3, <1>4 DEF AtomicInv

-----------------------------------------------------------------------------
(* The commits of the contract.                                            *)
Asked(s) ==
    \E d \in Deliveries, c \in Couriers :
        /\ Writes(s, d, "PENDING_APPROVAL", deliveries[d].courier, c) /\ UNCHANGED ledger
        /\ deliveries[d].status = "OPEN" /\ StationOf[d] # None

Denied(s) ==
    \E d \in Deliveries :
        /\ Writes(s, d, "OPEN", deliveries[d].courier, None) /\ UNCHANGED ledger
        /\ deliveries[d].status = "PENDING_APPROVAL"

Taken(s) ==
    \E d \in Deliveries, c \in Couriers, seen \in Int :
        /\ Writes(s, d, "CAPTURED", c, None) /\ Post(c, d, "DEBIT", -Fee[d], seen)
        /\ \/ deliveries[d].status = "OPEN" /\ StationOf[d] = None
           \/ deliveries[d].status = "PENDING_APPROVAL" /\ Waiting(d) = c
        /\ ~HasEntry(c, d, "DEBIT")

Returned(s) ==
    \E d \in Deliveries, c \in Couriers, seen \in Int :
        /\ Writes(s, d, "OPEN", None, None) /\ Post(c, d, "REFUND", Fee[d], seen)
        /\ deliveries[d].status = "CAPTURED" /\ deliveries[d].courier = c

Completed(s) ==
    \E d \in Deliveries :
        /\ Writes(s, d, "DELIVERED", deliveries[d].courier, None) /\ UNCHANGED ledger
        /\ deliveries[d].status = "CAPTURED"

Withdrawn(s) ==
    \E d \in Deliveries :
        /\ Writes(s, d, "CANCELLED", deliveries[d].courier, None) /\ UNCHANGED ledger
        /\ deliveries[d].status \in Uncaptured

Commits(s) == \/ Asked(s) \/ Denied(s) \/ Taken(s)
              \/ Returned(s) \/ Completed(s) \/ Withdrawn(s)

LEMMA CaptureTakes ==
    ASSUME TypeInv, WalletInv, HolderInv, AtomicInv, NEW s \in Sessions,
           tx[s].pc \in {"insert", "write"}, tx[s].op # "release", End(s),
           NEW seen \in Int, WriteCapture(s, seen), ~HasEntry(tx[s].cour, tx[s].del, "DEBIT")
    PROVE  Taken(s)
  <1>0. PICK d \in Deliveries, c \in Couriers : d = tx[s].del /\ c = tx[s].cour
    BY DEF TypeInv, TxInv
  <1>1. /\ tx[s].op \in {"capture", "approve"} /\ rowLock[d] = s
        /\ \/ deliveries[d].status = "OPEN" /\ StationOf[d] = None
           \/ deliveries[d].status = "PENDING_APPROVAL" /\ Waiting(d) = c
    BY <1>0 DEF AtomicInv, CheckedInv, Checked, CaptureAdmits, HolderInv, LockInv, TypeInv,
                TxInv, Waiting
  <1>2. Loaded(s) = deliveries[d] /\ deliveries[d] \in Delivery
    BY <1>0, AdmittedIsRow DEF TypeInv, TypeOK
  <1> DEFINE obj == [deliveries[d] EXCEPT !.decision = deliveries[d].decision]
             new == [obj EXCEPT !.status = "CAPTURED", !.courier = c,
                        !.decision = IF tx[s].op = "approve" THEN "approved" ELSE @]
  <1>3. obj = deliveries[d] BY <1>2 DEF Delivery
  <1>4. Flush(d, obj, new) /\ Post(c, d, "DEBIT", -Fee[d], seen)
    BY <1>0, <1>2 DEF WriteCapture
  <1>5. new \in Delivery /\ new.status = "CAPTURED" /\ new.courier = c
    BY <1>2, <1>3 DEF Delivery, Status
  <1> HIDE DEF obj, new
  <1>6. Writes(s, d, "CAPTURED", c, None)
    BY <1>0, <1>1, <1>3, <1>4, <1>5, FlushWrites DEF Settles
  <1>7. QED BY <1>0, <1>1, <1>4, <1>6 DEF Taken

LEMMA ReleaseReturns ==
    ASSUME TypeInv, HolderInv, AtomicInv, NEW s \in Sessions, ReleaseDelivery(s)
    PROVE  Returned(s)
  <1>0. PICK d \in Deliveries, c \in Couriers : d = tx[s].del /\ c = tx[s].cour
    BY DEF ReleaseDelivery, TypeInv, TxInv
  <1>1. tx[s].op = "release" /\ tx[s].pc = "write" /\ End(s) /\ tx[s].seen \in Int
    BY DEF ReleaseDelivery, TypeInv, TypeOK, Transaction
  <1>2. deliveries[d].status = "CAPTURED" /\ rowLock[d] = s /\ deliveries[d].courier = c
    BY <1>0, <1>1 DEF AtomicInv, CheckedInv, Checked, HolderInv, LockInv
  <1>3. Loaded(s) = deliveries[d] /\ deliveries[d] \in Delivery
    BY <1>0, <1>1, AdmittedIsRow DEF TypeInv, TypeOK
  <1> DEFINE new == [deliveries[d] EXCEPT !.status = "OPEN", !.courier = None]
  <1>4. Flush(d, deliveries[d], new) /\ Post(c, d, "REFUND", Fee[d], tx[s].seen)
    BY <1>0, <1>3 DEF ReleaseDelivery
  <1>5. new \in Delivery /\ new.status = "OPEN" /\ new.courier = None
    BY <1>3 DEF Delivery, Status
  <1> HIDE DEF new
  <1>6. Writes(s, d, "OPEN", None, None) BY <1>0, <1>1, <1>2, <1>4, <1>5, FlushWrites
  <1>7. QED BY <1>1, <1>2, <1>4, <1>6 DEF Returned

(* The operations without a wallet lock, check, write and commit at once.  *)
LEMMA RowCommits ==
    ASSUME TypeInv, HolderInv, AtomicInv, NEW s \in Sessions,
           \/ Request(s) \/ Reject(s) \/ AutoCancel(s) \/ Cancel(s)
           \/ MarkDelivered(s) /\ ~(CommissionDue(tx[s].del) /\ tx[s].del \in commissions)
    PROVE  Commits(s)
  <1>0. /\ tx[s].pc \in {"lock", "update"} /\ (tx[s].pc = "lock" => Proceeds(s))
        /\ End(s) /\ UNCHANGED ledger /\ rowLock[tx[s].del] = None
    BY DEF Request, Reject, AutoCancel, Cancel, MarkDelivered, Locking, RowFree, money
  <1>1. PICK d \in Deliveries : d = tx[s].del BY <1>0 DEF TypeInv, TxInv
  <1>2. Loaded(s) = deliveries[d] /\ deliveries[d] \in Delivery
    BY <1>0, <1>1, AdmittedIsRow DEF TypeInv, TypeOK
  <1>3. ASSUME NEW new \in Delivery, Flush(d, deliveries[d], new), new.courier = deliveries[d].courier,
               tx[s].op \in Settles => deliveries[d].status = "CAPTURED"
        PROVE  Writes(s, d, new.status, deliveries[d].courier,
                      IF new.status = "PENDING_APPROVAL" THEN new.requester ELSE None)
    BY <1>0, <1>1, <1>3, FlushWrites
  <1>4. CASE Request(s)
    <2> DEFINE new == [deliveries[d] EXCEPT !.status = "PENDING_APPROVAL",
                                            !.requester = tx[s].cour, !.decision = None]
    <2>1. /\ tx[s].op = "request" /\ deliveries[d].status = "OPEN" /\ StationOf[d] # None
          /\ tx[s].cour \in Couriers /\ Flush(d, deliveries[d], new)
      BY <1>0, <1>1, <1>2, <1>4
      DEF Request, Locking, Proceeds, Admits, AtomicInv, EntryInv, TypeInv, TxInv
    <2>2. /\ new \in Delivery /\ new.status = "PENDING_APPROVAL"
          /\ new.requester = tx[s].cour /\ new.courier = deliveries[d].courier
      BY <1>2, <2>1 DEF Delivery, Status
    <2> HIDE DEF new
    <2>3. Writes(s, d, "PENDING_APPROVAL", deliveries[d].courier, tx[s].cour)
      BY <1>3, <2>1, <2>2 DEF Settles
    <2>4. QED BY <1>0, <2>1, <2>3 DEF Asked, Commits
  <1>5. CASE Reject(s)
    <2> DEFINE new == [deliveries[d] EXCEPT !.status = "OPEN", !.requester = None,
                                            !.decision = "rejected"]
    <2>1. /\ tx[s].op = "reject" /\ deliveries[d].status = "PENDING_APPROVAL"
          /\ Flush(d, deliveries[d], new)
      BY <1>0, <1>1, <1>2, <1>5 DEF Reject, Locking, Proceeds, Admits
    <2>2. new \in Delivery /\ new.status = "OPEN" /\ new.courier = deliveries[d].courier
      BY <1>2, <2>1 DEF Delivery, Status
    <2> HIDE DEF new
    <2>3. Writes(s, d, "OPEN", deliveries[d].courier, None) BY <1>3, <2>1, <2>2 DEF Settles
    <2>4. QED BY <1>0, <2>1, <2>3 DEF Denied, Commits
  <1>6. CASE AutoCancel(s) \/ Cancel(s)
    <2> DEFINE new == [deliveries[d] EXCEPT !.status = "CANCELLED"]
    <2>1. /\ deliveries[d].status \in Uncaptured /\ Flush(d, deliveries[d], new)
      <3>1. CASE AutoCancel(s)
        BY <1>0, <1>1, <1>2, <3>1 DEF AutoCancel, Locking, Proceeds, Admits, ExpiryAdmits
      <3>2. CASE Cancel(s)
        <4>1. tx[s].pc = "update" /\ HasRead(s) BY <3>2 DEF Cancel, HasRead
        <4>2. tx[s].obj.status \in Uncaptured /\ tx[s].obj = deliveries[d]
          BY <1>1, <4>1 DEF AtomicInv, CurrentInv
        <4>3. QED BY <1>1, <3>2, <4>2 DEF Cancel
      <3>3. QED BY <1>6, <3>1, <3>2
    <2>2. new \in Delivery /\ new.status = "CANCELLED" /\ new.courier = deliveries[d].courier
      BY <1>2 DEF Delivery, Status
    <2>3. tx[s].op \notin Settles
      BY <1>6 DEF AutoCancel, Cancel, Locking, Settles, AtomicInv, EntryInv
    <2> HIDE DEF new
    <2>4. Writes(s, d, "CANCELLED", deliveries[d].courier, None) BY <1>3, <2>1, <2>2, <2>3
    <2>5. QED BY <1>0, <2>1, <2>4 DEF Withdrawn, Commits
  <1>7. CASE MarkDelivered(s) /\ ~(CommissionDue(d) /\ d \in commissions)
    <2> DEFINE new == [deliveries[d] EXCEPT !.status = "DELIVERED"]
    <2>1. Flush(d, deliveries[d], new) BY <1>1, <1>2, <1>7 DEF MarkDelivered
    <2>2. deliveries[d].status = "CAPTURED"
      BY <1>0, <1>1, <1>2, <1>7
      DEF MarkDelivered, Locking, Proceeds, Admits, AtomicInv, NoneInProgress
    <2>3. new \in Delivery /\ new.status = "DELIVERED" /\ new.courier = deliveries[d].courier
      BY <1>2 DEF Delivery, Status
    <2> HIDE DEF new
    <2>4. Writes(s, d, "DELIVERED", deliveries[d].courier, None) BY <1>3, <2>1, <2>2, <2>3
    <2>5. QED BY <1>0, <2>2, <2>4 DEF Completed, Commits
  <1>8. QED BY <1>1, <1>4, <1>5, <1>6, <1>7

(* Every step of a session is a commit, or changes nothing the contract    *)
(* sees.                                                                   *)
LEMMA AtomicStep ==
    ASSUME TypeInv, WalletInv, HolderInv, AtomicInv, NEW s \in Sessions, Step(s)
    PROVE  \/ UNCHANGED <<deliveries, ledger>> /\ AtomicInv'
           \/ Commits(s)
  <1>a. ASSUME End(s), UNCHANGED <<deliveries, ledger>>
        PROVE  UNCHANGED <<deliveries, ledger>> /\ AtomicInv'
    <2>1. \A t \in Sessions : tx'[t].pc # "idle" => t # s /\ tx'[t] = tx[t]
      BY <1>a, EndOthers
    <2>2. QED BY <1>a, <2>1, AtomicStays
  <1>b. tx[s] \in Transaction /\ tx \in [Sessions -> Transaction]
    BY DEF TypeInv, TypeOK
  <1>1. CASE Refuse(s) BY <1>1, <1>a DEF Refuse, money
  <1>2. CASE LockDelivery(s)
    <2>1. /\ tx[s].pc = "lock" /\ Proceeds(s) /\ UNCHANGED <<deliveries, ledger>>
          /\ tx[s].op \in {"capture", "approve", "release"}
      BY <1>2 DEF LockDelivery, Locking, money
    <2>2. Loaded(s) = deliveries[tx[s].del] BY <2>1, AdmittedIsRow
    <2>3. /\ tx'[s].pc = "wallet" /\ tx'[s].op = tx[s].op /\ tx'[s].obj = tx[s].obj
          /\ tx'[s].del = tx[s].del
          /\ tx'[s].cour = IF tx[s].op = "approve" THEN Loaded(s).requester ELSE tx[s].cour
          /\ \A t \in Sessions \ {s} : tx'[t] = tx[t]
      BY <1>2, <1>b DEF LockDelivery, Transaction
    <2>4. Checked(tx[s].op, tx[s].del, tx'[s].cour)
      BY <2>1, <2>2, <2>3 DEF Proceeds, Admits, ReleaseAdmits, Checked
    <2>5. HasRead(s) => tx[s].obj.status \in Uncaptured
      <3> SUFFICES ASSUME HasRead(s) PROVE tx[s].obj.status \in Uncaptured
        OBVIOUS
      <3>1. tx[s].obj # None /\ tx[s].op # "release"
        BY <2>1 DEF HasRead, HolderInv, ObjectInv
      <3>2. QED
        BY <2>1, <3>1 DEF Proceeds, Admits, CaptureAdmits, Loaded, Uncaptured
    <2>6. QED BY <2>1, <2>3, <2>4, <2>5, AtomicStays
  <1>3. CASE Request(s) \/ Reject(s) \/ AutoCancel(s) \/ Cancel(s) BY <1>3, RowCommits
  <1>4. CASE MarkDelivered(s)
    <2>1. CASE CommissionDue(tx[s].del) /\ tx[s].del \in commissions
      BY <1>4, <1>a, <2>1 DEF MarkDelivered
    <2>2. CASE ~(CommissionDue(tx[s].del) /\ tx[s].del \in commissions)
      BY <1>4, <2>2, RowCommits
    <2>3. QED BY <2>1, <2>2
  <1>5. CASE LockWallet(s) \/ FindNoWallet(s)
    <2>1. UNCHANGED <<deliveries, ledger>> /\ tx[s].pc = "wallet"
      BY <1>5 DEF LockWallet, FindNoWallet, money
    <2>2. CASE End(s) BY <1>a, <2>1, <2>2
    <2>3. CASE ~End(s)
      <3>1. \/ tx' = [tx EXCEPT ![s].pc = "write", ![s].seen = balance[tx[s].cour]]
            \/ tx' = [tx EXCEPT ![s].pc = "insert"]
        BY <1>5, <2>3 DEF LockWallet, FindNoWallet
      <3>2. /\ tx'[s].op = tx[s].op /\ tx'[s].obj = tx[s].obj /\ tx'[s].del = tx[s].del
            /\ tx'[s].cour = tx[s].cour /\ tx'[s].pc \in {"write", "insert"}
            /\ \A t \in Sessions \ {s} : tx'[t] = tx[t]
        BY <1>b, <3>1 DEF Transaction
      <3>3. QED BY <2>1, <3>2, AtomicStays
    <2>4. QED BY <2>2, <2>3
  <1>6. CASE InsertWallet(s)
    <2>1. tx[s].pc = "insert" /\ tx[s].op # "release" /\ End(s) /\ tx[s].cour \in Couriers
      BY <1>6 DEF InsertWallet, TypeInv, TxInv
    <2>2. CASE UNCHANGED <<deliveries, ledger>> BY <1>a, <2>1, <2>2
    <2>3. CASE ~UNCHANGED <<deliveries, ledger>>
      <3>1. tx[s].cour \notin wallets /\ WriteCapture(s, 0)
        BY <1>6, <2>3 DEF InsertWallet, money
      <3>2. ~HasEntry(tx[s].cour, tx[s].del, "DEBIT")
        BY <2>1, <3>1 DEF WalletInv, NoWalletInv, HasEntry
      <3>3. QED BY <2>1, <3>1, <3>2, CaptureTakes DEF Commits
    <2>4. QED BY <2>2, <2>3
  <1>7. CASE Capture(s)
    <2>1. tx[s].pc = "write" /\ tx[s].op # "release" /\ End(s) /\ tx[s].seen \in Int
      BY <1>7, <1>b DEF Capture, Transaction
    <2>2. CASE HasEntry(tx[s].cour, tx[s].del, "DEBIT")
      BY <1>7, <1>a, <2>1, <2>2 DEF Capture, money
    <2>3. CASE ~HasEntry(tx[s].cour, tx[s].del, "DEBIT")
      <3>1. WriteCapture(s, tx[s].seen) BY <1>7, <2>3 DEF Capture
      <3>2. QED BY <2>1, <2>3, <3>1, CaptureTakes DEF Commits
    <2>4. QED BY <2>2, <2>3
  <1>8. CASE ReleaseDelivery(s) BY <1>8, ReleaseReturns DEF Commits
  <1>9. QED BY <1>1, <1>2, <1>3, <1>4, <1>5, <1>6, <1>7, <1>8 DEF Step

LEMMA AtomicCommit ==
    ASSUME Apart, TypeInv, HolderInv, AtomicInv, NEW s \in Sessions, Commits(s)
    PROVE  AtomicInv'
  BY AtomicWrites DEF Commits, Asked, Denied, Taken, Returned, Completed, Withdrawn

(* An entry point reads the row as it is.                                  *)
LEMMA AtomicBegin ==
    ASSUME TypeInv, AtomicInv, NEW s \in Sessions, Begin(s)
    PROVE  AtomicInv' /\ UNCHANGED <<deliveries, ledger>>
  <1>1. PICK d \in Deliveries, pc \in {"lock", "update"}, op \in Operations,
             c \in Couriers \cup {None} :
                 /\ \/ Start(s, pc, op, d, c, None) /\ pc = "lock"
                    \/ Start(s, pc, op, d, c, deliveries[d])
                 /\ pc = "update" => op = "cancel" /\ deliveries[d].status \in Uncaptured
                 /\ op = "request" => StationOf[d] # None
    BY DEF Begin, CaptureRoute, FollowLink, DispatcherDecides, DeliverRoute, ReleaseCall,
           CancelRoute, SelectExpired, Operations, Uncaptured
  <1>2. UNCHANGED <<deliveries, ledger>> BY <1>1 DEF Start, money
  <1>3. /\ tx'[s].pc = pc /\ tx'[s].op = op /\ tx'[s].del = d
        /\ \/ tx'[s].obj = None /\ pc = "lock"
           \/ tx'[s].obj = deliveries[d]
        /\ \A t \in Sessions \ {s} : tx'[t] = tx[t]
    BY <1>1 DEF Start, TypeInv, TypeOK
  <1>4. EntryInv' BY <1>1, <1>3 DEF AtomicInv, EntryInv
  <1>5. CurrentInv' BY <1>1, <1>2, <1>3 DEF AtomicInv, CurrentInv, HasRead
  <1>6. CheckedInv' BY <1>2, <1>3 DEF AtomicInv, CheckedInv, Checked
  <1>7. NoneInProgress' BY <1>2 DEF AtomicInv, NoneInProgress
  <1>8. QED BY <1>2, <1>4, <1>5, <1>6, <1>7 DEF AtomicInv

LEMMA AtomicInit == Init => AtomicInv
  BY DEF Init, AtomicInv, EntryInv, CurrentInv, CheckedInv, NoneInProgress, Idle, NewDelivery

-----------------------------------------------------------------------------
(* What the contract sees of the rows and of the ledgers.                  *)
Awaited == [e \in Deliveries |-> Waiting(e)]

Paid == {cd \in Couriers \X Deliveries : Charged(cd[1], cd[2])}

(* The columns the contract looks at, when one row is written.             *)
RowMoves(d, status, courier, waiting) ==
    /\ [e \in Deliveries |-> deliveries[e].status]' =
           [[e \in Deliveries |-> deliveries[e].status] EXCEPT ![d] = status]
    /\ [e \in Deliveries |-> deliveries[e].courier]' =
           [[e \in Deliveries |-> deliveries[e].courier] EXCEPT ![d] = courier]
    /\ Awaited' = [Awaited EXCEPT ![d] = waiting]

LEMMA SeenRow ==
    ASSUME NEW s \in Sessions, NEW d \in Deliveries,
           NEW status, NEW courier, NEW waiting, Writes(s, d, status, courier, waiting)
    PROVE  RowMoves(d, status, courier, waiting)
  <1>1. \A e \in Deliveries : deliveries'[e].status = IF e = d THEN status ELSE deliveries[e].status
    BY DEF Writes
  <1>2. \A e \in Deliveries : deliveries'[e].courier = IF e = d THEN courier ELSE deliveries[e].courier
    BY DEF Writes
  <1>3. \A e \in Deliveries : Waiting(e)' = IF e = d THEN waiting ELSE Waiting(e)
    BY DEF Writes, Waiting
  <1>4. Awaited' = [Awaited EXCEPT ![d] = waiting] BY <1>3 DEF Awaited
  <1>5. QED BY <1>1, <1>2, <1>4 DEF RowMoves

(* A column that keeps its value is unchanged.                             *)
LEMMA SeenSame ==
    ASSUME NEW d \in Deliveries
    PROVE  /\ [[e \in Deliveries |-> deliveries[e].courier] EXCEPT ![d] = deliveries[d].courier]
                  = [e \in Deliveries |-> deliveries[e].courier]
           /\ Waiting(d) = None => [Awaited EXCEPT ![d] = None] = Awaited
  BY DEF Awaited

LEMMA SeenLedger == UNCHANGED ledger => Paid' = Paid
  BY DEF Paid, Charged, HasEntry

LEMMA SeenDebit ==
    ASSUME TypeInv, HolderInv, NEW c \in Couriers, NEW d \in Deliveries, NEW seen \in Int,
           Post(c, d, "DEBIT", -Fee[d], seen), ~HasEntry(c, d, "DEBIT")
    PROVE  Paid' = Paid \cup {<<c, d>>}
  <1>1. -Fee[d] \in Int BY ConstantsAssumption DEF ConstantsAssumption
  <1>2. \A b \in Couriers, e \in Deliveries, k \in {"DEBIT", "REFUND"} :
            HasEntry(b, e, k)' <=> HasEntry(b, e, k) \/ (b = c /\ e = d /\ k = "DEBIT")
    BY <1>1, PostEntries
  <1>3. ~HasEntry(c, d, "REFUND") BY DEF HolderInv, RefundFollowsDebit
  <1>4. \A b \in Couriers, e \in Deliveries :
            Charged(b, e)' <=> Charged(b, e) \/ (b = c /\ e = d)
    BY <1>2, <1>3 DEF Charged
  <1>5. \A cd : cd \in Paid' <=> cd \in Paid \/ cd = <<c, d>> BY <1>4 DEF Paid
  <1>6. QED BY <1>5

LEMMA SeenRefund ==
    ASSUME TypeInv, NEW c \in Couriers, NEW d \in Deliveries, NEW seen \in Int,
           Post(c, d, "REFUND", Fee[d], seen)
    PROVE  Paid' = Paid \ {<<c, d>>}
  <1>1. Fee[d] \in Int BY ConstantsAssumption DEF ConstantsAssumption
  <1>2. \A b \in Couriers, e \in Deliveries, k \in {"DEBIT", "REFUND"} :
            HasEntry(b, e, k)' <=> HasEntry(b, e, k) \/ (b = c /\ e = d /\ k = "REFUND")
    BY <1>1, PostEntries
  <1>3. \A b \in Couriers, e \in Deliveries :
            Charged(b, e)' <=> Charged(b, e) /\ ~(b = c /\ e = d)
    BY <1>2 DEF Charged
  <1>4. \A cd : cd \in Paid' <=> cd \in Paid /\ cd # <<c, d>> BY <1>3 DEF Paid
  <1>5. QED BY <1>4

(* Each commit is a step of the contract.                                  *)
LEMMA CommitsMap ==
    ASSUME TypeInv, HolderInv, AtomicInv, NEW s \in Sessions, Commits(s)
    PROVE  Contract!Next
  <1>1. CASE Asked(s)
    <2>1. PICK d \in Deliveries, c \in Couriers :
              /\ Writes(s, d, "PENDING_APPROVAL", deliveries[d].courier, c) /\ UNCHANGED ledger
              /\ deliveries[d].status = "OPEN" /\ StationOf[d] # None
      BY <1>1 DEF Asked
    <2>2. RowMoves(d, "PENDING_APPROVAL", deliveries[d].courier, c) /\ Paid' = Paid
      BY <2>1, SeenRow, SeenLedger
    <2>3. Contract!Ask(d, c)
      BY <2>1, <2>2, SeenSame
      DEF RowMoves, Contract!Ask, Contract!Move, Paid, Awaited, Waiting
    <2>4. QED BY <2>3 DEF Contract!Next
  <1>2. CASE Denied(s)
    <2>1. PICK d \in Deliveries :
              /\ Writes(s, d, "OPEN", deliveries[d].courier, None) /\ UNCHANGED ledger
              /\ deliveries[d].status = "PENDING_APPROVAL"
      BY <1>2 DEF Denied
    <2>2. RowMoves(d, "OPEN", deliveries[d].courier, None) /\ Paid' = Paid
      BY <2>1, SeenRow, SeenLedger
    <2>3. Contract!Deny(d)
      BY <2>1, <2>2, SeenSame
      DEF RowMoves, Contract!Deny, Contract!Move, Paid, Awaited, Waiting
    <2>4. QED BY <2>3 DEF Contract!Next
  <1>3. CASE Taken(s)
    <2>1. PICK d \in Deliveries, c \in Couriers, seen \in Int :
              /\ Writes(s, d, "CAPTURED", c, None) /\ Post(c, d, "DEBIT", -Fee[d], seen)
              /\ \/ deliveries[d].status = "OPEN" /\ StationOf[d] = None
                 \/ deliveries[d].status = "PENDING_APPROVAL" /\ Waiting(d) = c
              /\ ~HasEntry(c, d, "DEBIT")
      BY <1>3 DEF Taken
    <2>2. RowMoves(d, "CAPTURED", c, None) BY <2>1, SeenRow
    <2>3. Paid' = Paid \cup {<<c, d>>} BY <2>1, SeenDebit
    <2>4. Contract!Take(d, c)
      BY <2>1, <2>2, <2>3
      DEF RowMoves, Contract!Take, Contract!Move, Paid, Awaited, Waiting
    <2>5. QED BY <2>4 DEF Contract!Next
  <1>4. CASE Returned(s)
    <2>1. PICK d \in Deliveries, c \in Couriers, seen \in Int :
              /\ Writes(s, d, "OPEN", None, None) /\ Post(c, d, "REFUND", Fee[d], seen)
              /\ deliveries[d].status = "CAPTURED" /\ deliveries[d].courier = c
      BY <1>4 DEF Returned
    <2>2. RowMoves(d, "OPEN", None, None) BY <2>1, SeenRow
    <2>3. Paid' = Paid \ {<<c, d>>} BY <2>1, SeenRefund
    <2>4. Awaited' = Awaited BY <2>1, <2>2, SeenSame DEF RowMoves, Waiting
    <2>5. Contract!Return(d)
      BY <2>1, <2>2, <2>3, <2>4
      DEF RowMoves, Contract!Return, Contract!Move, Paid, Awaited, Waiting
    <2>6. QED BY <2>5 DEF Contract!Next
  <1>5. CASE Completed(s)
    <2>1. PICK d \in Deliveries :
              /\ Writes(s, d, "DELIVERED", deliveries[d].courier, None) /\ UNCHANGED ledger
              /\ deliveries[d].status = "CAPTURED"
      BY <1>5 DEF Completed
    <2>2. RowMoves(d, "DELIVERED", deliveries[d].courier, None) /\ Paid' = Paid
      BY <2>1, SeenRow, SeenLedger
    <2>3. Awaited' = Awaited BY <2>1, <2>2, SeenSame DEF RowMoves, Waiting
    <2>4. Contract!Complete(d)
      BY <2>1, <2>2, <2>3, SeenSame
      DEF RowMoves, Contract!Complete, Contract!Move, Paid, Awaited, Waiting
    <2>5. QED BY <2>4 DEF Contract!Next
  <1>6. CASE Withdrawn(s)
    <2>1. PICK d \in Deliveries :
              /\ Writes(s, d, "CANCELLED", deliveries[d].courier, None) /\ UNCHANGED ledger
              /\ deliveries[d].status \in Uncaptured
      BY <1>6 DEF Withdrawn
    <2>2. RowMoves(d, "CANCELLED", deliveries[d].courier, None) /\ Paid' = Paid
      BY <2>1, SeenRow, SeenLedger
    <2>3. Contract!Withdraw(d)
      BY <2>1, <2>2, SeenSame
      DEF RowMoves, Contract!Withdraw, Contract!Move, Paid, Awaited, Waiting, Uncaptured
    <2>4. QED BY <2>3 DEF Contract!Next
  <1>7. QED BY <1>1, <1>2, <1>3, <1>4, <1>5, <1>6 DEF Commits

(* A step keeps what is known of the rows, and is a step of the contract   *)
(* or a stutter.                                                           *)
LEMMA AtomicNext ==
    ASSUME Apart, TypeInv, WalletInv, HolderInv, AtomicInv, [Next]_vars
    PROVE  AtomicInv' /\ [Contract!Next]_(Contract!vars)
  <1>1. ASSUME UNCHANGED <<deliveries, ledger>> PROVE UNCHANGED Contract!vars
    BY <1>1 DEF Contract!vars, Charged, HasEntry
  <1>2. ASSUME NEW s \in Sessions, Begin(s) PROVE AtomicInv' /\ [Contract!Next]_(Contract!vars)
    BY <1>1, <1>2, AtomicBegin
  <1>3. ASSUME NEW s \in Sessions, Step(s) PROVE AtomicInv' /\ [Contract!Next]_(Contract!vars)
    <2>1. CASE UNCHANGED <<deliveries, ledger>> /\ AtomicInv' BY <1>1, <2>1
    <2>2. CASE Commits(s) BY <2>2, AtomicCommit, CommitsMap
    <2>3. QED BY <1>3, <2>1, <2>2, AtomicStep
  <1>4. CASE UNCHANGED <<deliveries, ledger, tx>>
    <2>1. AtomicInv' BY <1>4, AtomicStays
    <2>2. QED BY <1>1, <1>4, <2>1
  <1>5. QED
    BY <1>2, <1>3, <1>4 DEF Next, vars, money, AddToBlacklist, RemoveFromBlacklist

LEMMA ContractInit == Init => Contract!Init
  <1> SUFFICES ASSUME Init PROVE Contract!Init
    OBVIOUS
  <1>1. \A d \in Deliveries : deliveries[d] = NewDelivery BY DEF Init
  <1>2. \A c \in Couriers, d \in Deliveries : ~Charged(c, d) BY DEF Init, Charged, HasEntry
  <1>3. Paid = {} BY <1>2 DEF Paid
  <1>4. QED BY <1>1, <1>3 DEF Contract!Init, NewDelivery, Paid

(* As long as no request moves a delivery that another one has read        *)
(* without a lock, the services implement the atomic contract: asking the  *)
(* dispatcher, his answer, taking a delivery and paying for it, returning  *)
(* it and the refund, delivering and cancelling look like single steps.    *)
THEOREM ContractCorrect == Spec /\ []Apart => ImplementsContract
  <1>1. Apart /\ TypeInv /\ WalletInv /\ HolderInv /\ AtomicInv /\ [Next]_vars
            => AtomicInv' /\ [Contract!Next]_(Contract!vars)
    BY AtomicNext
  <1>2. QED
    BY <1>1, AtomicInit, ContractInit, TypeInvariant, WalletInvariant, HolderInvariant, PTL
    DEF Spec, ImplementsContract, Contract!Spec

(* What is proved of the contract, of the services.                        *)
Promise == INSTANCE DeliveryContract_proofs WITH
    status  <- [d \in Deliveries |-> deliveries[d].status],
    wanted  <- [d \in Deliveries |-> IF deliveries[d].status = "PENDING_APPROVAL"
                                     THEN deliveries[d].requester ELSE None],
    holder  <- [d \in Deliveries |-> deliveries[d].courier],
    charged <- {cd \in Couriers \X Deliveries : Charged(cd[1], cd[2])}

(* Then two couriers never both pay for a delivery.                        *)
THEOREM OneChargedCorrect == Spec /\ []Apart => []OneCourierCharged
  <1>1. Contract!Spec => Promise!Spec
    <2>1. Contract!Init => Promise!Init BY DEF Contract!Init, Promise!Init
    <2>2. [Contract!Next]_(Contract!vars) => [Promise!Next]_(Promise!vars)
      BY DEF Contract!Next, Promise!Next, Contract!vars, Promise!vars, Contract!Take, Promise!Take,
             Contract!Return, Promise!Return, Contract!Complete, Promise!Complete, Contract!Ask,
             Promise!Ask, Contract!Deny, Promise!Deny, Contract!Withdraw, Promise!Withdraw,
             Contract!Move, Promise!Move
    <2>3. QED BY <2>1, <2>2, PTL DEF Contract!Spec, Promise!Spec
  <1>2. Promise!Spec => []Promise!OnePays BY Promise!OnePaysCorrect
  <1>3. Promise!OnePays => OneCourierCharged BY DEF Promise!OnePays, OneCourierCharged
  <1>4. QED BY <1>1, <1>2, <1>3, ContractCorrect, PTL DEF ImplementsContract

-----------------------------------------------------------------------------
(* Two ways to serve requests that keep them apart: every request locks    *)
(* the row before it reads it, or one session at a time serves all that    *)
(* move an uncaptured delivery.                                            *)
LocksFirst == \A s \in Sessions : Entry[s] \subseteq {"capture", "deliver", "release"}

OneMover == \E s \in Sessions : \A t \in Sessions \ {s} : Entry[t] \subseteq Settles

(* The entry points behind what a session does.                            *)
ServesInv ==
    \A s \in Sessions :
        tx[s].pc # "idle" =>
            /\ HasRead(s) => ~(Entry[s] \subseteq {"capture", "deliver", "release"})
            /\ tx[s].op \notin Settles => ~(Entry[s] \subseteq Settles)

LEMMA ServedApart ==
    ASSUME LocksFirst \/ OneMover, ServesInv
    PROVE  Apart
  <1>1. Settles \subseteq {"capture", "deliver", "release"} BY DEF Settles
  <1>2. QED BY <1>1 DEF LocksFirst, OneMover, ServesInv, Apart

LEMMA ServesInvariant == Spec => []ServesInv
  <1>1. Init => ServesInv BY DEF Init, ServesInv, Idle
  <1>2. TypeInv /\ ServesInv /\ [Next]_vars => ServesInv'
    <2> SUFFICES ASSUME TypeInv, ServesInv, [Next]_vars PROVE ServesInv'
      OBVIOUS
    <2>a. tx \in [Sessions -> Transaction] BY DEF TypeInv, TypeOK
    <2>1. ASSUME NEW s \in Sessions, Begin(s) PROVE ServesInv'
      <3>1. PICK d \in Deliveries, pc \in {"lock", "update"}, op \in Operations,
                 c \in Couriers \cup {None} :
              /\ \/ Start(s, pc, op, d, c, None) /\ pc = "lock"
                 \/ /\ Start(s, pc, op, d, c, deliveries[d])
                    /\ ~(Entry[s] \subseteq {"capture", "deliver", "release"})
              /\ op \notin Settles => ~(Entry[s] \subseteq Settles)
        <4>1. PICK d \in Deliveries :
                \/ "capture" \in Entry[s] /\ \E c \in Couriers : CaptureRoute(s, d, c)
                \/ "link" \in Entry[s] /\ \E c \in Couriers : FollowLink(s, d, c)
                \/ "approve" \in Entry[s] /\ DispatcherDecides(s, "approve", d)
                \/ "reject" \in Entry[s] /\ DispatcherDecides(s, "reject", d)
                \/ DeliverRoute(s, d)
                \/ \E c \in Couriers : ReleaseCall(s, d, c)
                \/ "cancel" \in Entry[s] /\ CancelRoute(s, d)
                \/ "auto_cancel" \in Entry[s] /\ SelectExpired(s, d)
          BY <2>1 DEF Begin
        <4>2. QED
          BY <4>1 DEF CaptureRoute, FollowLink, DispatcherDecides, DeliverRoute,
             ReleaseCall, CancelRoute, SelectExpired, Operations, Settles
      <3>2. /\ tx'[s].pc = pc /\ tx'[s].op = op
            /\ \/ tx'[s].obj = None /\ pc = "lock"
               \/ ~(Entry[s] \subseteq {"capture", "deliver", "release"})
            /\ \A t \in Sessions \ {s} : tx'[t] = tx[t]
        BY <2>a, <3>1 DEF Start
      <3>3. QED BY <3>1, <3>2 DEF ServesInv, HasRead
    <2>2. ASSUME NEW s \in Sessions, Step(s) PROVE ServesInv'
      <3>1. \A t \in Sessions : tx'[t].pc # "idle" =>
                /\ tx[t].pc # "idle" /\ tx'[t].op = tx[t].op /\ tx'[t].obj = tx[t].obj
                /\ tx'[t].pc = "update" => tx[t].pc = "update"
        <4>1. CASE End(s) BY <4>1, EndOthers
        <4>2. CASE ~End(s)
          <5>1. LockDelivery(s) \/ LockWallet(s) \/ FindNoWallet(s)
            BY <2>2, <4>2 DEF Step, Refuse, Request, Reject, MarkDelivered, AutoCancel, Cancel,
                              InsertWallet, Capture, ReleaseDelivery
          <5>2. QED
            BY <2>a, <4>2, <5>1 DEF LockDelivery, LockWallet, FindNoWallet, Locking, Transaction
        <4>3. QED BY <4>1, <4>2
      <3>2. QED BY <3>1 DEF ServesInv, HasRead
    <2>3. CASE UNCHANGED tx BY <2>3 DEF ServesInv, HasRead
    <2>4. QED
      BY <2>1, <2>2, <2>3 DEF Next, vars, AddToBlacklist, RemoveFromBlacklist
  <1>3. QED BY <1>1, <1>2, TypeInvariant, PTL DEF Spec

(* Served in one of these ways, the services implement the contract.       *)
THEOREM ServedContract ==
    ASSUME LocksFirst \/ OneMover
    PROVE  Spec => ImplementsContract
  <1>1. ServesInv => Apart BY ServedApart
  <1>2. QED BY <1>1, ServesInvariant, ContractCorrect, PTL

(* Row locks prevent a double capture, where everybody takes them first.   *)
THEOREM LockFirstOneCharged ==
    ASSUME LocksFirst
    PROVE  Spec => []OneCourierCharged
  <1>1. ServesInv => Apart BY ServedApart
  <1>2. QED BY <1>1, ServesInvariant, OneChargedCorrect, PTL

=============================================================================
