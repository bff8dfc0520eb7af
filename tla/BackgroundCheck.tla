-------------------------- MODULE BackgroundCheck --------------------------
(***************************************************************************)
(* Background-check orders of the integration app.  The supplier reports   *)
(* each change of an order's status by a callback delivered at least once: *)
(* late, repeated and out of order, until it is answered with success.     *)
(* No transaction spans a handler, so each of its writes is an action,     *)
(* handlers interleave, and a failed write or a dead worker leaves what    *)
(* was already written.                                                    *)
(*                                                                         *)
(* Kept of a row: its status, whether it has a completion time and whether *)
(* a supplier's configuration is attached.  Kept of the sync log: the      *)
(* callbacks it shows; its result column is written and never read.        *)
(* Events form a set: two equal events count once.                         *)
(***************************************************************************)
EXTENDS Naturals

CONSTANTS Orders, Handlers, Idle, NoOrder, NoStatus,
          MaxReports,    \* bound on the supplier's reports of one order
          Reported,      \* bound: the statuses its nth report may carry
          MaxRequests,   \* bound on the platform's cancellations and deletions
          MaxFailures    \* bound on late deliveries, failed writes and dead workers

BGOrderStatus == {"ACCEPTED", "COMPLETED", "PENDING_AUTH", "IN_PROGRESS",
                  "AUTH_EXPIRED", "PENDING_PAYMENT", "CANCELLED",
                  "STAGE_REPORT", "AUTH_REVOKED"}

ASSUME ReportedAssumption == Reported \in [1..MaxReports -> SUBSET BGOrderStatus]
ASSUME NoneAssumption == /\ NoStatus \notin BGOrderStatus
                         /\ MaxFailures \in Nat /\ MaxReports \in Nat
                         /\ MaxRequests \in Nat

ALLOWED_ORDER_TRANSITIONS ==
    [s \in BGOrderStatus |->
        CASE s = "ACCEPTED"        -> {"PENDING_AUTH", "IN_PROGRESS", "PENDING_PAYMENT",
                                       "CANCELLED", "STAGE_REPORT", "AUTH_REVOKED"}
          [] s = "PENDING_AUTH"    -> {"IN_PROGRESS", "AUTH_EXPIRED", "AUTH_REVOKED"}
          [] s = "IN_PROGRESS"     -> {"COMPLETED", "CANCELLED", "STAGE_REPORT", "AUTH_REVOKED"}
          [] s = "PENDING_PAYMENT" -> {"IN_PROGRESS", "CANCELLED"}
          [] s = "STAGE_REPORT"    -> {"COMPLETED", "IN_PROGRESS", "CANCELLED", "AUTH_REVOKED"}
          [] s = "COMPLETED"       -> {"CANCELLED"}
          [] OTHER                 -> {}]

Row == [status : BGOrderStatus, timed : BOOLEAN, config : BOOLEAN]
Event == [from : BGOrderStatus \cup {NoStatus}, to : BGOrderStatus]

(* A callback is one report of the supplier, the nth of its order, however *)
(* often it is delivered.  The view knows it by (number, status,           *)
(* completionTime); only a completion carries a time, and an order is      *)
(* completed once, so a later report of a status has the key of the first. *)
Notice == [order : Orders, status : BGOrderStatus, nth : 1..MaxReports]
Timed(n) == n.status = "COMPLETED"
SameKey(m, n) == m.order = n.order /\ m.status = n.status

VARIABLES
    row,        \* order number -> its row, or NoOrder
    events,     \* order number -> the events of the row, deleted with it
    audit,      \* the callbacks the sync log shows
    supplier,   \* order number -> its status at the supplier, or NoStatus
    sent,       \* the callbacks the supplier has sent
    acked,      \* those it has had a success for
    held,       \* handler -> Idle or the work it is doing
    failures,   \* late deliveries, failed writes and dead workers so far
    requests,   \* cancellations and deletions so far
    lost,       \* history: callbacks refused as late or broken off
    applied     \* history: callbacks an order was brought to, or found at

vars == <<row, events, audit, supplier, sent, acked, held, failures, requests, lost, applied>>

Init ==
    /\ row = [o \in Orders |-> NoOrder]
    /\ events = [o \in Orders |-> {}]
    /\ audit = {}
    /\ supplier = [o \in Orders |-> NoStatus]
    /\ sent = {} /\ acked = {} /\ lost = {} /\ applied = {}
    /\ held = [h \in Handlers |-> Idle]
    /\ failures = 0 /\ requests = 0

(* What a handler is doing: its stage, the order and status it is about,   *)
(* which report it handles (0 at the platform's own requests), and the row *)
(* it loaded or inserted, NoOrder when that row is gone.                   *)
CallbackStages == {"checked", "audited", "inserted", "found", "recorded"}
PlatformStages == {"placed", "filed", "cancelling", "cancelled"}
Work == [stage : CallbackStages \cup PlatformStages, order : Orders,
         status : BGOrderStatus, nth : 0..MaxReports, row : Row \cup {NoOrder}]

ASSUME IdleAssumption == Idle \notin Work /\ NoOrder \notin Row

At(h, stage) == held[h] # Idle /\ held[h].stage = stage
NoticeOf(h) == [order |-> held[h].order, status |-> held[h].status, nth |-> held[h].nth]
Begin(h, stage, o, s, k, r) ==
    held' = [held EXCEPT ![h] =
                [stage |-> stage, order |-> o, status |-> s, nth |-> k, row |-> r]]
Continue(h, stage, r) == Begin(h, stage, held[h].order, held[h].status, held[h].nth, r)
Finish(h) == held' = [held EXCEPT ![h] = Idle]

RecordEvent(o, from, to) ==
    events' = [events EXCEPT ![o] = @ \cup {[from |-> from, to |-> to]}]

-----------------------------------------------------------------------------
(* The supplier (external) follows the published table, which lets an      *)
(* order go back and forth between IN_PROGRESS and STAGE_REPORT.           *)
Report(o, s, k) ==
    /\ supplier[o] # NoStatus
    /\ s \in ALLOWED_ORDER_TRANSITIONS[supplier[o]] \cap Reported[k]
    /\ \A j \in 1..MaxReports : (\E n \in sent : n.order = o /\ n.nth = j) <=> j < k
    /\ supplier' = [supplier EXCEPT ![o] = s]
    /\ sent' = sent \cup {[order |-> o, status |-> s, nth |-> k]}
    /\ UNCHANGED <<row, events, audit, acked, held, failures, requests, lost, applied>>

-----------------------------------------------------------------------------
(* BackgroundCheckCallbackView.  A delivery out of the replay window is    *)
(* audited with its payload and answered 401.                              *)
RefuseLate(n) ==
    /\ n \in sent \ audit
    /\ failures < MaxFailures /\ failures' = failures + 1
    /\ audit' = audit \cup {n}
    /\ lost' = lost \cup {n}
    /\ UNCHANGED <<row, events, supplier, sent, acked, held, requests, applied>>

AnswerSameOrder(n) ==
    /\ n \in sent \ acked
    /\ \E a \in audit : a.order = n.order
    /\ acked' = acked \cup {n}
    /\ UNCHANGED <<row, events, audit, supplier, sent, held, failures, requests, lost, applied>>

(* Any sync log of the same key answers a delivery with success: also of   *)
(* another report, of the same status.                                     *)
Logged(n) == \E m \in audit : SameKey(m, n)

AnswerConflict(n) ==
    /\ n \in sent \ acked /\ Logged(n)
    /\ UNCHANGED vars

AnswerDuplicate(n) ==
    /\ n \in sent \ acked /\ Logged(n)
    /\ acked' = acked \cup {n}
    /\ UNCHANGED <<row, events, audit, supplier, sent, held, failures, requests, lost, applied>>

Receive(h, n) ==
    /\ held[h] = Idle
    /\ n \in sent /\ ~ Logged(n)
    /\ Begin(h, "checked", n.order, n.status, n.nth, NoOrder)
    /\ UNCHANGED <<row, events, audit, supplier, sent, acked, failures, requests, lost, applied>>

AuditOnlyFailures(h) ==
    /\ At(h, "checked")
    /\ Continue(h, "audited", NoOrder)
    /\ UNCHANGED <<row, events, audit, supplier, sent, acked, failures, requests, lost, applied>>

WriteAudit(h) ==
    /\ At(h, "checked")
    /\ audit' = audit \cup {NoticeOf(h)}
    /\ Continue(h, "audited", NoOrder)
    /\ UNCHANGED <<row, events, supplier, sent, acked, failures, requests, lost, applied>>

(* apply_callback_to_order: get_or_create, and nothing to do when the row  *)
(* shows this status and completion time already.                          *)
InsertOrder(h) ==
    LET o == held[h].order
        r == [status |-> held[h].status, timed |-> Timed(NoticeOf(h)),
              config |-> TRUE]
    IN  /\ At(h, "audited")
        /\ row[o] = NoOrder
        /\ row' = [row EXCEPT ![o] = r]
        /\ applied' = applied \cup {NoticeOf(h)}
        /\ Continue(h, "inserted", r)
        /\ UNCHANGED <<events, audit, supplier, sent, acked, failures, requests, lost>>

SameAlready(h) ==
    LET r == row[held[h].order]
    IN  r.status = held[h].status /\ r.timed = Timed(NoticeOf(h))

LeaveOrder(h) ==
    /\ At(h, "audited")
    /\ row[held[h].order] # NoOrder
    /\ SameAlready(h)
    /\ applied' = applied \cup {NoticeOf(h)}
    /\ acked' = acked \cup {NoticeOf(h)}
    /\ Finish(h)
    /\ UNCHANGED <<row, events, audit, supplier, sent, failures, requests, lost>>

FindOrder(h) ==
    /\ At(h, "audited")
    /\ row[held[h].order] # NoOrder
    /\ ~ SameAlready(h)
    /\ Continue(h, "found", row[held[h].order])
    /\ UNCHANGED <<row, events, audit, supplier, sent, acked, failures, requests, lost, applied>>

RecordBirth(h) ==
    /\ At(h, "inserted")
    /\ held[h].row # NoOrder
    /\ RecordEvent(held[h].order, NoStatus, held[h].status)
    /\ acked' = acked \cup {NoticeOf(h)}
    /\ Finish(h)
    /\ UNCHANGED <<row, audit, supplier, sent, failures, requests, lost, applied>>

SaveFirst(h) ==
    /\ At(h, "found")
    /\ held[h].row # NoOrder
    /\ row' = [row EXCEPT ![held[h].order].status = held[h].status]
    /\ Continue(h, "recorded", held[h].row)
    /\ UNCHANGED <<events, audit, supplier, sent, acked, failures, requests, lost, applied>>

RecordChange(h) ==
    /\ At(h, "found")
    /\ held[h].row # NoOrder
    /\ RecordEvent(held[h].order, held[h].row.status, held[h].status)
    /\ Continue(h, "recorded", held[h].row)
    /\ UNCHANGED <<row, audit, supplier, sent, acked, failures, requests, lost, applied>>

(* save(update_fields=...): status and completion time of the instance.    *)
SaveChange(h) ==
    /\ At(h, "recorded")
    /\ held[h].row # NoOrder
    /\ row' = [row EXCEPT ![held[h].order] =
                  [@ EXCEPT !.status = held[h].status,
                            !.timed  = held[h].row.timed \/ Timed(NoticeOf(h))]]
    /\ applied' = applied \cup {NoticeOf(h)}
    /\ acked' = acked \cup {NoticeOf(h)}
    /\ Finish(h)
    /\ UNCHANGED <<events, audit, supplier, sent, failures, requests, lost>>

-----------------------------------------------------------------------------
(* create-order: the supplier has opened the order and its answer is on    *)
(* the way; get_or_create may find the row a callback made meanwhile.      *)
PlaceOrder(h, o) ==
    /\ held[h] = Idle
    /\ supplier[o] = NoStatus /\ row[o] = NoOrder
    /\ supplier' = [supplier EXCEPT ![o] = "ACCEPTED"]
    /\ Begin(h, "placed", o, "ACCEPTED", 0, NoOrder)
    /\ UNCHANGED <<row, events, audit, sent, acked, failures, requests, lost, applied>>

FileAlways(h) ==
    LET o == held[h].order
        r == [status |-> "ACCEPTED", timed |-> FALSE, config |-> TRUE]
    IN  /\ At(h, "placed")
        /\ row' = IF row[o] = NoOrder THEN [row EXCEPT ![o] = r] ELSE row
        /\ Continue(h, "filed", row'[o])
        /\ UNCHANGED <<events, audit, supplier, sent, acked, failures, requests, lost, applied>>

FileOrder(h) ==
    LET o == held[h].order
        r == [status |-> "ACCEPTED", timed |-> FALSE, config |-> TRUE]
    IN  /\ At(h, "placed")
        /\ IF row[o] = NoOrder
           THEN row' = [row EXCEPT ![o] = r] /\ Continue(h, "filed", r)
           ELSE Finish(h) /\ UNCHANGED row
        /\ UNCHANGED <<events, audit, supplier, sent, acked, failures, requests, lost, applied>>

(* upload-report: a completed order of no supplier.                        *)
UploadReport(h, o) ==
    LET r == [status |-> "COMPLETED", timed |-> TRUE, config |-> FALSE]
    IN  /\ held[h] = Idle
        /\ supplier[o] = NoStatus /\ row[o] = NoOrder
        /\ row' = [row EXCEPT ![o] = r]
        /\ Begin(h, "filed", o, "COMPLETED", 0, r)
        /\ UNCHANGED <<events, audit, supplier, sent, acked, failures, requests, lost, applied>>

(* The CREATE event of a placed or an uploaded order.  The configuration   *)
(* column of an event does not allow NULL, that of an order does.          *)
RecordFiling(h) ==
    /\ At(h, "filed")
    /\ held[h].row # NoOrder
    /\ held[h].row.config
    /\ RecordEvent(held[h].order, NoStatus, held[h].status)
    /\ Finish(h)
    /\ UNCHANGED <<row, audit, supplier, sent, acked, failures, requests, lost, applied>>

(* cancel: loads the order, asks the supplier whatever it answers, then    *)
(* records and saves from the loaded instance.                             *)
BeginCancel(h, o) ==
    /\ requests < MaxRequests /\ requests' = requests + 1
    /\ held[h] = Idle
    /\ row[o] # NoOrder
    /\ row[o].status # "CANCELLED"
    /\ Begin(h, "cancelling", o, "CANCELLED", 0, row[o])
    /\ UNCHANGED <<row, events, audit, supplier, sent, acked, failures, lost, applied>>

RecordCancel(h) ==
    /\ At(h, "cancelling")
    /\ held[h].row # NoOrder
    /\ held[h].row.config
    /\ RecordEvent(held[h].order, held[h].row.status, "CANCELLED")
    /\ Continue(h, "cancelled", held[h].row)
    /\ UNCHANGED <<row, audit, supplier, sent, acked, failures, requests, lost, applied>>

SaveCancel(h) ==
    /\ At(h, "cancelled")
    /\ held[h].row # NoOrder
    /\ row' = [row EXCEPT ![held[h].order].status = "CANCELLED"]
    /\ Finish(h)
    /\ UNCHANGED <<events, audit, supplier, sent, acked, failures, requests, lost, applied>>

DestroyRowAlone(o) ==
    /\ requests < MaxRequests /\ requests' = requests + 1
    /\ row[o] # NoOrder
    /\ row' = [row EXCEPT ![o] = NoOrder]
    /\ held' = [h \in Handlers |->
                   IF held[h] # Idle /\ held[h].order = o
                   THEN [held[h] EXCEPT !.row = NoOrder] ELSE held[h]]
    /\ UNCHANGED <<events, audit, supplier, sent, acked, failures, lost, applied>>

(* The endpoint deletes the row itself, its events with it.                *)
Destroy(o) ==
    /\ requests < MaxRequests /\ requests' = requests + 1
    /\ row[o] # NoOrder
    /\ row' = [row EXCEPT ![o] = NoOrder]
    /\ events' = [events EXCEPT ![o] = {}]
    /\ held' = [h \in Handlers |->
                   IF held[h] # Idle /\ held[h].order = o
                   THEN [held[h] EXCEPT !.row = NoOrder] ELSE held[h]]
    /\ UNCHANGED <<audit, supplier, sent, acked, failures, lost, applied>>

-----------------------------------------------------------------------------
(* A write fails or the worker dies: what it wrote stays.  Some writes     *)
(* cannot but fail: of a row that is gone, of an event with no             *)
(* configuration.                                                          *)
RowStages == {"inserted", "found", "recorded", "filed", "cancelling", "cancelled"}
MustFail(h) ==
    /\ held[h] # Idle
    /\ held[h].stage \in RowStages
    /\ held[h].row # NoOrder =>
          held[h].stage \in {"filed", "cancelling"} /\ ~ held[h].row.config

BreakOff(h) ==
    /\ held[h] # Idle
    /\ \/ MustFail(h) /\ UNCHANGED failures
       \/ ~ MustFail(h) /\ failures < MaxFailures /\ failures' = failures + 1
    /\ lost' = IF held[h].stage \in CallbackStages \ {"checked"}
               THEN lost \cup {NoticeOf(h)} ELSE lost
    /\ Finish(h)
    /\ UNCHANGED <<row, events, audit, supplier, sent, acked, requests, applied>>

Handle(h) ==
    \/ WriteAudit(h) \/ InsertOrder(h) \/ LeaveOrder(h) \/ FindOrder(h)
    \/ RecordBirth(h) \/ RecordChange(h) \/ SaveChange(h)
    \/ FileOrder(h) \/ RecordFiling(h) \/ RecordCancel(h) \/ SaveCancel(h)
    \/ MustFail(h) /\ BreakOff(h)

(* A delivery within the replay window.                                    *)
Deliver(n) == AnswerDuplicate(n) \/ \E h \in Handlers : Receive(h, n)

Next ==
    \/ \E o \in Orders, s \in BGOrderStatus, k \in 1..MaxReports : Report(o, s, k)
    \/ \E n \in sent : RefuseLate(n) \/ Deliver(n)
    \/ \E h \in Handlers : Handle(h) \/ BreakOff(h)
    \/ \E h \in Handlers, o \in Orders :
          PlaceOrder(h, o) \/ UploadReport(h, o) \/ BeginCancel(h, o)
    \/ \E o \in Orders : Destroy(o)

Spec == Init /\ [][Next]_vars

(* A handler that does not die goes on, and the supplier sends a callback  *)
(* until it is answered with success.                                      *)
Fairness ==
    /\ \A h \in Handlers : WF_vars(held[h] # Idle /\ Handle(h))
    /\ \A o \in Orders, k \in 1..MaxReports :
          SF_vars(\E n \in sent \ acked : n.order = o /\ n.nth = k /\ Deliver(n))

FairSpec == Spec /\ Fairness

-----------------------------------------------------------------------------
TypeOK ==
    /\ row \in [Orders -> Row \cup {NoOrder}]
    /\ events \in [Orders -> SUBSET Event]
    /\ supplier \in [Orders -> BGOrderStatus \cup {NoStatus}]
    /\ sent \subseteq Notice /\ audit \subseteq sent /\ acked \subseteq sent
    /\ lost \subseteq audit /\ applied \subseteq audit
    /\ held \in [Handlers -> Work \cup {Idle}]
    /\ failures \in 0..MaxFailures /\ requests \in 0..MaxRequests

(* Each status an existing order takes is one an event of it shows already:*)
(* the history is written ahead of the order, in every overlap and         *)
(* whichever write fails.                                                  *)
ChangeIsRecorded ==
    [][\A o \in Orders :
          (row[o] # NoOrder /\ row'[o] # NoOrder /\ row'[o].status # row[o].status)
             => \E e \in events[o] : e.to = row'[o].status]_vars

(* However a callback and the answer to create-order race, an order begins *)
(* once.                                                                   *)
OneBeginning ==
    \A o \in Orders : \A e, f \in events[o] :
        (e.from = NoStatus /\ f.from = NoStatus) => e = f

(* A report answered with success was applied itself, is still in hand, or *)
(* was lost for a known reason: a breakdown, or that it repeats the status *)
(* of another report of the order, which is answered as a duplicate of it. *)
InHand(n) == \E h \in Handlers :
                /\ held[h] # Idle
                /\ held[h].stage \in CallbackStages \ {"checked"}
                /\ NoticeOf(h) = n
Repeats(n) == \E m \in audit : SameKey(m, n) /\ m.nth # n.nth
OnlyRepeatsAndBreakdownsLose ==
    \A n \in acked : n \in applied \/ InHand(n) \/ n \in lost \/ Repeats(n)

(* What the view's comment promises, that a callback which could not be    *)
(* applied is never answered with success: violated.                       *)
AckedIsApplied ==
    \A n \in acked : n \in applied \/ InHand(n)

(* The supplier comes to rest after its last report of an order: each      *)
(* callback is answered with success in the end, also one that failed.     *)
SupplierSettles == []<>(sent = acked)

-----------------------------------------------------------------------------
(* The orders and what is told of them, as the rows and events have them.  *)
statusOf == [o \in Orders |-> IF row[o] = NoOrder THEN NoStatus ELSE row[o].status]
toldOf ==
    [o \in Orders |->
        {[first |-> e.from = NoStatus, status |-> e.to] : e \in events[o]}]

Ledger == INSTANCE OrderLedger
          WITH status <- statusOf, told <- toldOf,
               Statuses <- BGOrderStatus, Missing <- NoStatus

(* Whatever is delivered late, twice or out of order, and wherever a write *)
(* fails, each step of a handler that shows is one of the ledger: the      *)
(* history of an order is written ahead of it, begins once, and an order   *)
(* made again under a deleted number starts with an empty one.             *)
KeepsLedger == Ledger!Spec

=============================================================================
