------------------------ MODULE BackgroundCheckProofs ------------------------
(***************************************************************************)
(* Theorems about the orders of background checks, for every number of     *)
(* orders and handlers, whatever the supplier reports and however many     *)
(* writes fail.                                                            *)
(***************************************************************************)
EXTENDS BackgroundCheck, TLAPS

(* What is answered with success has the key of a callback that is logged; *)
(* what is in hand was sent, and audited once it has been checked.         *)
Notices ==
    /\ \A n \in acked : Logged(n)
    /\ \A h \in Handlers :
          /\ held[h] # Idle /\ held[h].stage \in CallbackStages
                => NoticeOf(h) \in sent
          /\ held[h] # Idle /\ held[h].stage \in CallbackStages \ {"checked"}
                => NoticeOf(h) \in audit
          /\ held[h] # Idle /\ held[h].stage \in {"cancelling", "cancelled"}
                => held[h].status = "CANCELLED"

(* A loaded row exists as long as it is held; a row that does not exist has*)
(* no events.                                                              *)
Presence ==
    /\ \A h \in Handlers : held[h] # Idle /\ held[h].row # NoOrder
                              => row[held[h].order] # NoOrder
    /\ \A o \in Orders : row[o] = NoOrder => events[o] = {}

Basis == TypeOK /\ Notices /\ Presence

(* A step that deletes no row, and writes rows and events of their types.  *)
RowsKept ==
    /\ row' \in [Orders -> Row \cup {NoOrder}]
    /\ events' \in [Orders -> SUBSET Event]
    /\ \A o \in Orders : /\ row[o] # NoOrder => row'[o] # NoOrder
                         /\ row'[o] = NoOrder => events'[o] = {}

(* The callback a piece of work is about, and the bounds that are kept.    *)
NoticeIn(w) == [order |-> w.order, status |-> w.status, nth |-> w.nth]
Counted == failures' \in 0..MaxFailures /\ requests' \in 0..MaxRequests

-----------------------------------------------------------------------------
(* The work of one handler changes, and what it writes has its type.       *)
LEMMA OneHandler ==
    ASSUME Basis, NEW h \in Handlers, NEW w \in Work \cup {Idle},
           held' = [held EXCEPT ![h] = w],
           RowsKept,
           supplier' = supplier, sent' = sent, Counted,
           audit \subseteq audit', audit' \subseteq sent,
           acked' \subseteq acked \cup audit',
           lost' \subseteq audit', applied' \subseteq audit',
           w # Idle /\ w.stage \in CallbackStages => NoticeIn(w) \in sent,
           w # Idle /\ w.stage \in CallbackStages \ {"checked"} => NoticeIn(w) \in audit',
           w # Idle /\ w.stage \in {"cancelling", "cancelled"} => w.status = "CANCELLED",
           w # Idle /\ w.row # NoOrder => row'[w.order] # NoOrder
    PROVE  Basis'
<1>1. held' \in [Handlers -> Work \cup {Idle}]
  BY DEF Basis, TypeOK
<1>2. \A g \in Handlers : held'[g] = IF g = h THEN w ELSE held[g]
  BY DEF Basis, TypeOK
<1>3. Notices'
  <2>1. \A n \in acked' : Logged(n)'
    BY DEF Basis, Notices, Logged, SameKey
  <2> QED BY <1>2, <2>1 DEF Basis, Notices, NoticeOf, NoticeIn
<1>4. TypeOK'
  BY <1>1 DEF Basis, TypeOK, RowsKept, Counted
<1>5. Presence'
  BY <1>2 DEF Basis, TypeOK, Presence, RowsKept, Work
<1> QED BY <1>3, <1>4, <1>5 DEF Basis

(* A handler goes on to another stage.                                     *)
LEMMA GoesOn ==
    ASSUME Basis, NEW h \in Handlers, held[h] # Idle,
           NEW stage \in CallbackStages \cup PlatformStages, NEW r \in Row \cup {NoOrder},
           Continue(h, stage, r),
           RowsKept,
           audit \subseteq audit', audit' \subseteq sent,
           UNCHANGED <<supplier, sent, acked, failures, requests, lost>>,
           applied' \subseteq audit',
           stage \in CallbackStages
              => held[h].stage \in CallbackStages /\ NoticeOf(h) \in audit',
           stage \in {"cancelling", "cancelled"} => held[h].stage = "cancelling",
           r # NoOrder => row'[held[h].order] # NoOrder
    PROVE  Basis'
<1> DEFINE w == [stage |-> stage, order |-> held[h].order, status |-> held[h].status,
                 nth |-> held[h].nth, row |-> r]
<1>1. w \in Work
  BY DEF Basis, TypeOK, Work
<1>2. held' = [held EXCEPT ![h] = w]
  BY DEF Continue, Begin
<1>3. /\ w.stage = stage
      /\ NoticeIn(w) = NoticeOf(h)
      /\ w.status = held[h].status /\ w.order = held[h].order /\ w.row = r
  BY DEF NoticeOf, NoticeIn
<1>4. Counted /\ acked' \subseteq acked \cup audit' /\ lost' \subseteq audit'
  BY DEF Basis, TypeOK, Counted
<1>5. /\ held[h].stage \in CallbackStages => NoticeOf(h) \in sent
      /\ held[h].stage = "cancelling" => held[h].status = "CANCELLED"
  BY DEF Basis, Notices
<1> HIDE DEF w
<1> QED BY <1>1, <1>2, <1>3, <1>4, <1>5, OneHandler

(* A handler is done.                                                      *)
LEMMA Finishes ==
    ASSUME Basis, NEW h \in Handlers, Finish(h),
           RowsKept,
           UNCHANGED <<audit, supplier, sent>>, Counted,
           acked' \subseteq acked \cup audit, lost' \subseteq audit, applied' \subseteq audit
    PROVE  Basis'
<1>1. held' = [held EXCEPT ![h] = Idle]
  BY DEF Finish
<1>2. audit \subseteq audit' /\ audit' \subseteq sent /\ audit' = audit
  BY DEF Basis, TypeOK
<1> QED BY <1>1, <1>2, OneHandler

(* A platform request begins.                                              *)
LEMMA PlatformBegins ==
    ASSUME Basis, NEW h \in Handlers, held[h] = Idle,
           NEW stage \in {"placed", "filed", "cancelling"}, NEW o \in Orders,
           NEW s \in BGOrderStatus, NEW r \in Row \cup {NoOrder},
           Begin(h, stage, o, s, 0, r),
           RowsKept, r # NoOrder => row'[o] # NoOrder,
           UNCHANGED <<events, audit, sent, acked, lost, applied>>, Counted,
           supplier' = supplier,
           stage = "cancelling" => s = "CANCELLED"
    PROVE  Basis'
<1> DEFINE w == [stage |-> stage, order |-> o, status |-> s, nth |-> 0, row |-> r]
<1>1. /\ w \in Work /\ w.stage \notin CallbackStages /\ w.stage = stage /\ w.status = s
      /\ w.row = r /\ w.order = o
  BY NoneAssumption DEF Work, CallbackStages, PlatformStages
<1>2. held' = [held EXCEPT ![h] = w]
  BY DEF Begin
<1>3. /\ audit \subseteq audit' /\ audit' \subseteq sent
      /\ acked' \subseteq acked \cup audit'
      /\ lost' \subseteq audit' /\ applied' \subseteq audit'
  BY DEF Basis, TypeOK
<1> HIDE DEF w
<1> QED BY <1>1, <1>2, <1>3, OneHandler

(* The events of an order that exists grow by one.                         *)
LEMMA EventAdded ==
    ASSUME Basis, NEW o \in Orders, NEW from \in BGOrderStatus \cup {NoStatus},
           NEW to \in BGOrderStatus, RecordEvent(o, from, to),
           row' = row, row[o] # NoOrder
    PROVE  RowsKept
<1>1. [from |-> from, to |-> to] \in Event
  BY DEF Event
<1> QED BY <1>1 DEF RecordEvent, Basis, TypeOK, Presence, RowsKept

(* One row is written, whether it was there or not.                        *)
LEMMA RowWritten ==
    ASSUME Basis, NEW o \in Orders, NEW r \in Row, row' = [row EXCEPT ![o] = r],
           events' = events
    PROVE  RowsKept /\ row'[o] # NoOrder
  BY IdleAssumption DEF Basis, TypeOK, Presence, RowsKept

(* A step that writes neither rows nor events.                             *)
LEMMA RowsUntouched ==
    ASSUME Basis, UNCHANGED <<row, events>>
    PROVE  RowsKept
  BY DEF Basis, TypeOK, Presence, RowsKept

(* What a handler saves of an order is a row again.                        *)
LEMMA RowSaved ==
    ASSUME NEW r \in Row, NEW s \in BGOrderStatus, NEW timed \in BOOLEAN
    PROVE  /\ [r EXCEPT !.status = s, !.timed = timed] \in Row
           /\ [r EXCEPT !.status = s] \in Row
  BY DEF Row

(* A handler whose row is gone.                                            *)
LEMMA RowGone ==
    ASSUME NEW w \in Work
    PROVE  LET v == [w EXCEPT !.row = NoOrder]
           IN  /\ v \in Work /\ v # Idle /\ v.row = NoOrder
               /\ v.stage = w.stage /\ NoticeIn(v) = NoticeIn(w)
               /\ v.order = w.order /\ v.status = w.status /\ v.nth = w.nth
<1> DEFINE v == [w EXCEPT !.row = NoOrder]
<1>1. /\ v.row = NoOrder /\ v.stage = w.stage /\ v.order = w.order
      /\ v.status = w.status /\ v.nth = w.nth
  BY DEF Work
<1>2. v \in Work
  BY DEF Work
<1> QED BY <1>1, <1>2, IdleAssumption DEF NoticeIn

(* What is left of the work of h when order o is deleted.                  *)
AfterDestroy(h, o) ==
    /\ held'[h] = Idle <=> held[h] = Idle
    /\ held[h] # Idle =>
          /\ held'[h].stage = held[h].stage
          /\ held'[h].order = held[h].order
          /\ held'[h].status = held[h].status
          /\ held'[h].nth = held[h].nth
          /\ held'[h].row = IF held[h].order = o THEN NoOrder ELSE held[h].row

LEMMA DestroyLeaves ==
    ASSUME TypeOK, NEW o \in Orders, Destroy(o), NEW h \in Handlers
    PROVE  held'[h] \in Work \cup {Idle} /\ AfterDestroy(h, o)
<1>1. IF held[h] # Idle /\ held[h].order = o
      THEN held'[h] = [held[h] EXCEPT !.row = NoOrder] ELSE held'[h] = held[h]
  BY DEF Destroy
<1>2. CASE held[h] = Idle
  BY <1>1, <1>2 DEF AfterDestroy
<1>3. CASE held[h] # Idle /\ held[h].order = o
  <2>1. held[h] \in Work
    BY <1>3 DEF TypeOK
  <2> QED BY <1>1, <1>3, <2>1, RowGone DEF AfterDestroy
<1>4. CASE held[h] # Idle /\ held[h].order # o
  BY <1>1, <1>4 DEF AfterDestroy, TypeOK
<1> QED BY <1>2, <1>3, <1>4

LEMMA BasisInit == Init => Basis
  BY NoneAssumption DEF Init, Basis, TypeOK, Notices, Presence

LEMMA BasisStep == Basis /\ [Next]_vars => Basis'
<1> SUFFICES ASSUME Basis, [Next]_vars PROVE Basis'
  OBVIOUS
<1>t. TypeOK /\ Notices /\ Presence
  BY DEF Basis
<1>h. ASSUME NEW h \in Handlers, held[h] # Idle
      PROVE  /\ held[h] \in Work /\ held[h].order \in Orders
             /\ held[h].status \in BGOrderStatus
             /\ held[h].row \in Row \cup {NoOrder}
             /\ held[h].nth \in 0..MaxReports
  BY <1>t, <1>h DEF TypeOK, Work
<1>n. \A n \in sent : /\ n.order \in Orders /\ n.status \in BGOrderStatus
                       /\ n.nth \in 0..MaxReports
                       /\ n = [order |-> n.order, status |-> n.status, nth |-> n.nth]
  BY <1>t DEF TypeOK, Notice
<1>1. ASSUME NEW o \in Orders, NEW s \in BGOrderStatus, NEW k \in 1..MaxReports,
             Report(o, s, k)
      PROVE  Basis'
  <2>1. [order |-> o, status |-> s, nth |-> k] \in Notice
    BY DEF Notice
  <2>2. supplier' \in [Orders -> BGOrderStatus \cup {NoStatus}]
    BY <1>1, <1>t DEF Report, TypeOK
  <2>3. TypeOK'
    BY <1>1, <1>t, <2>1, <2>2 DEF Report, TypeOK
  <2>4. Notices'
    BY <1>1, <1>t DEF Report, Notices, NoticeOf, Logged
  <2>5. Presence'
    BY <1>1, <1>t DEF Report, Presence
  <2> QED BY <2>3, <2>4, <2>5 DEF Basis
<1>2. ASSUME NEW n \in sent, RefuseLate(n) \/ AnswerDuplicate(n) PROVE Basis'
  <2>1. Presence' /\ UNCHANGED <<row, events, supplier, sent, held, requests, applied>>
    BY <1>2, <1>t DEF RefuseLate, AnswerDuplicate, Presence
  <2>2. TypeOK'
    BY <1>2, <1>t, NoneAssumption DEF RefuseLate, AnswerDuplicate, TypeOK
  <2>3. \A m \in acked' : Logged(m)'
    BY <1>2, <1>t DEF RefuseLate, AnswerDuplicate, Notices, Logged
  <2>4. Notices'
    BY <1>2, <1>t, <2>1, <2>3 DEF RefuseLate, AnswerDuplicate, Notices, NoticeOf
  <2> QED BY <2>1, <2>2, <2>4 DEF Basis
<1>u. /\ failures \in 0..MaxFailures /\ requests \in 0..MaxRequests
      /\ lost \subseteq audit /\ applied \subseteq audit /\ audit \subseteq sent
      /\ UNCHANGED <<failures, requests>> => Counted
      /\ \A o \in Orders : row[o] # NoOrder => row[o] \in Row
  BY <1>t DEF TypeOK, Counted
<1>a. ASSUME NEW h \in Handlers, held[h] # Idle,
             held[h].stage \in CallbackStages \ {"checked"}
      PROVE  NoticeOf(h) \in audit
  BY <1>a, <1>t DEF Notices
<1>r. ASSUME NEW h \in Handlers, held[h] # Idle, held[h].row # NoOrder
      PROVE  /\ held[h].row \in Row /\ held[h].row.status \in BGOrderStatus
             /\ held[h].row.timed \in BOOLEAN
             /\ row[held[h].order] # NoOrder
  BY <1>r, <1>h, <1>t DEF Row, Presence
<1>3. ASSUME NEW h \in Handlers, NEW n \in sent, Receive(h, n) PROVE Basis'
  <2> DEFINE w == [stage |-> "checked", order |-> n.order, status |-> n.status,
                   nth |-> n.nth, row |-> NoOrder]
  <2>1. w \in Work
    BY <1>t, <1>n DEF TypeOK, Work, CallbackStages
  <2>2. held' = [held EXCEPT ![h] = w]
    BY <1>3 DEF Receive, Begin
  <2>3. NoticeIn(w) \in sent
    BY <1>n DEF NoticeIn
  <2> QED BY <1>3, <1>u, <2>1, <2>2, <2>3, RowsUntouched, OneHandler DEF Receive
<1>4. ASSUME NEW h \in Handlers, WriteAudit(h) PROVE Basis'
  <2>1. NoticeOf(h) \in sent
    BY <1>4, <1>t DEF WriteAudit, At, Notices, CallbackStages
  <2>2. /\ held[h] # Idle /\ held[h].stage = "checked" /\ Continue(h, "audited", NoOrder)
        /\ audit \subseteq audit' /\ audit' \subseteq sent /\ NoticeOf(h) \in audit'
    BY <1>4, <1>u, <2>1 DEF WriteAudit, At
  <2>3. applied' \subseteq audit'
    BY <1>4, <1>u DEF WriteAudit
  <2> QED BY <1>4, <2>2, <2>3, RowsUntouched, GoesOn DEF WriteAudit, CallbackStages
<1>5. ASSUME NEW h \in Handlers, InsertOrder(h) PROVE Basis'
  <2> DEFINE r == [status |-> held[h].status, timed |-> Timed(NoticeOf(h)),
                   config |-> TRUE]
  <2>1. /\ held[h] # Idle /\ held[h].stage = "audited" /\ Continue(h, "inserted", r)
        /\ row' = [row EXCEPT ![held[h].order] = r]
    BY <1>5 DEF InsertOrder, At
  <2>2. r \in Row
    BY <1>h, <2>1 DEF Row, Timed
  <2> HIDE DEF r
  <2>3. RowsKept /\ row'[held[h].order] # NoOrder
    BY <1>5, <1>h, <2>1, <2>2, RowWritten DEF InsertOrder
  <2> QED BY <1>5, <1>u, <1>a, <2>1, <2>2, <2>3, GoesOn DEF InsertOrder, CallbackStages
<1>6. ASSUME NEW h \in Handlers, LeaveOrder(h) PROVE Basis'
  BY <1>6, <1>u, <1>a, RowsUntouched, Finishes DEF LeaveOrder, At, CallbackStages
<1>7. ASSUME NEW h \in Handlers, FindOrder(h) PROVE Basis'
  <2>1. /\ held[h] # Idle /\ held[h].stage = "audited"
        /\ Continue(h, "found", row[held[h].order])
        /\ row[held[h].order] \in Row \cup {NoOrder}
        /\ row[held[h].order] # NoOrder
    BY <1>7, <1>u, <1>h DEF FindOrder, At
  <2> QED BY <1>7, <1>u, <1>a, <2>1, RowsUntouched, GoesOn DEF FindOrder, CallbackStages
<1>8. ASSUME NEW h \in Handlers, RecordBirth(h) PROVE Basis'
  <2>1. RowsKept
    BY <1>8, <1>h, <1>r, EventAdded DEF RecordBirth, At
  <2> QED BY <1>8, <1>u, <1>a, <2>1, Finishes DEF RecordBirth, At, CallbackStages
<1>9. ASSUME NEW h \in Handlers, RecordChange(h) PROVE Basis'
  <2>1. /\ held[h] # Idle /\ held[h].stage = "found" /\ held[h].row # NoOrder
        /\ Continue(h, "recorded", held[h].row)
    BY <1>9 DEF RecordChange, At
  <2>2. RowsKept
    BY <1>9, <2>1, <1>h, <1>r, EventAdded DEF RecordChange
  <2>3. row'[held[h].order] # NoOrder
    BY <1>9, <2>1, <1>r DEF RecordChange
  <2> QED BY <1>9, <1>u, <1>a, <1>h, <2>1, <2>2, <2>3, GoesOn
          DEF RecordChange, CallbackStages
<1>10. ASSUME NEW h \in Handlers, SaveChange(h) PROVE Basis'
  <2> DEFINE o == held[h].order
             timed == held[h].row.timed \/ Timed(NoticeOf(h))
             r == [row[o] EXCEPT !.status = held[h].status, !.timed = timed]
  <2>1. held[h] # Idle /\ held[h].stage = "recorded" /\ held[h].row # NoOrder
    BY <1>10 DEF SaveChange, At
  <2>2. timed \in BOOLEAN /\ row[o] \in Row
    BY <2>1, <1>h, <1>r, <1>u DEF Timed
  <2>3. r \in Row
    <3> HIDE DEF timed
    <3> QED BY <2>1, <2>2, <1>h, RowSaved
  <2>4. row' = [row EXCEPT ![o] = r]
    BY <1>10 DEF SaveChange
  <2> HIDE DEF r
  <2>5. RowsKept
    BY <1>10, <2>1, <2>3, <2>4, <1>h, RowWritten DEF SaveChange
  <2> QED BY <1>10, <1>u, <1>a, <2>1, <2>5, Finishes DEF SaveChange, CallbackStages
<1>11. ASSUME NEW h \in Handlers, FileOrder(h) PROVE Basis'
  <2> DEFINE r == [status |-> "ACCEPTED", timed |-> FALSE, config |-> TRUE]
  <2>1. r \in Row
    BY DEF Row, BGOrderStatus
  <2>2. held[h] # Idle /\ held[h].stage = "placed" /\ held[h].order \in Orders
    BY <1>11, <1>h DEF FileOrder, At
  <2>3. CASE row[held[h].order] = NoOrder
    <3>1. row' = [row EXCEPT ![held[h].order] = r] /\ Continue(h, "filed", r)
      BY <1>11, <2>3 DEF FileOrder
    <3> HIDE DEF r
    <3>2. RowsKept /\ row'[held[h].order] # NoOrder
      BY <1>11, <2>1, <2>2, <3>1, RowWritten DEF FileOrder
    <3> QED BY <1>11, <1>u, <2>1, <2>2, <3>1, <3>2, GoesOn
            DEF FileOrder, CallbackStages, PlatformStages
  <2>4. CASE row[held[h].order] # NoOrder
    BY <1>11, <1>u, <2>4, RowsUntouched, Finishes DEF FileOrder
  <2> QED BY <2>3, <2>4
<1>12. ASSUME NEW h \in Handlers, RecordFiling(h) PROVE Basis'
  <2>1. RowsKept
    BY <1>12, <1>h, <1>r, EventAdded DEF RecordFiling, At
  <2> QED BY <1>12, <1>u, <2>1, Finishes DEF RecordFiling
<1>13. ASSUME NEW h \in Handlers, RecordCancel(h) PROVE Basis'
  <2>1. /\ held[h] # Idle /\ held[h].stage = "cancelling" /\ held[h].row # NoOrder
        /\ Continue(h, "cancelled", held[h].row)
    BY <1>13 DEF RecordCancel, At
  <2>2. RowsKept
    BY <1>13, <2>1, <1>h, <1>r, EventAdded DEF RecordCancel, BGOrderStatus
  <2>3. row'[held[h].order] # NoOrder
    BY <1>13, <2>1, <1>r DEF RecordCancel
  <2> QED BY <1>13, <1>u, <1>h, <2>1, <2>2, <2>3, GoesOn
          DEF RecordCancel, CallbackStages, PlatformStages
<1>14. ASSUME NEW h \in Handlers, SaveCancel(h) PROVE Basis'
  <2> DEFINE o == held[h].order
             r == [row[o] EXCEPT !.status = "CANCELLED"]
  <2>1. held[h] # Idle /\ held[h].row # NoOrder /\ "CANCELLED" \in BGOrderStatus
    BY <1>14 DEF SaveCancel, At, BGOrderStatus
  <2>2. r \in Row
    BY <2>1, <1>h, <1>r, <1>u, RowSaved
  <2>3. row' = [row EXCEPT ![o] = r]
    BY <1>14 DEF SaveCancel
  <2> HIDE DEF r
  <2>4. RowsKept
    BY <1>14, <2>1, <2>2, <2>3, <1>h, RowWritten DEF SaveCancel
  <2> QED BY <1>14, <1>u, <2>4, Finishes DEF SaveCancel
<1>15. ASSUME NEW h \in Handlers, BreakOff(h) PROVE Basis'
  <2>1. Counted
    BY <1>15, <1>u, NoneAssumption DEF BreakOff, Counted
  <2>2. lost' \subseteq audit
    BY <1>15, <1>u, <1>a DEF BreakOff
  <2> QED BY <1>15, <1>u, <2>1, <2>2, RowsUntouched, Finishes DEF BreakOff
<1>16. ASSUME NEW h \in Handlers, NEW o \in Orders, PlaceOrder(h, o) PROVE Basis'
  <2>1. /\ held' = [held EXCEPT ![h] = [stage |-> "placed", order |-> o,
                                       status |-> "ACCEPTED", nth |-> 0,
                                       row |-> NoOrder]]
        /\ supplier' = [supplier EXCEPT ![o] = "ACCEPTED"]
        /\ UNCHANGED <<row, events, audit, sent, acked, failures, requests, lost, applied>>
    BY <1>16 DEF PlaceOrder, Begin
  <2>2. /\ "ACCEPTED" \in BGOrderStatus /\ "ACCEPTED" # NoStatus
        /\ "placed" \in PlatformStages /\ "placed" \notin CallbackStages
    BY NoneAssumption DEF BGOrderStatus, PlatformStages, CallbackStages
  <2>3. TypeOK'
    BY <1>t, <2>1, <2>2, NoneAssumption DEF TypeOK, Work
  <2>4. Notices'
    BY <1>t, <2>1, <2>2 DEF TypeOK, Notices, NoticeOf, Logged
  <2>5. Presence'
    BY <1>t, <2>1 DEF TypeOK, Presence
  <2> QED BY <2>3, <2>4, <2>5 DEF Basis
<1>17. ASSUME NEW h \in Handlers, NEW o \in Orders, UploadReport(h, o) PROVE Basis'
  <2> DEFINE r == [status |-> "COMPLETED", timed |-> TRUE, config |-> FALSE]
  <2>1. r \in Row /\ "COMPLETED" \in BGOrderStatus
    BY DEF Row, BGOrderStatus
  <2>2. Begin(h, "filed", o, "COMPLETED", 0, r) /\ row' = [row EXCEPT ![o] = r]
    BY <1>17 DEF UploadReport
  <2> HIDE DEF r
  <2>3. RowsKept /\ row'[o] # NoOrder
    BY <1>17, <2>1, <2>2, RowWritten DEF UploadReport
  <2> QED BY <1>17, <1>u, <2>1, <2>2, <2>3, PlatformBegins DEF UploadReport
<1>18. ASSUME NEW h \in Handlers, NEW o \in Orders, BeginCancel(h, o) PROVE Basis'
  <2>1. row[o] \in Row \cup {NoOrder} /\ row[o] # NoOrder /\ "CANCELLED" \in BGOrderStatus
    BY <1>18, <1>u DEF BeginCancel, BGOrderStatus
  <2>2. Counted
    BY <1>18, <1>u, NoneAssumption DEF BeginCancel, Counted
  <2> QED BY <1>18, <2>1, <2>2, RowsUntouched, PlatformBegins DEF BeginCancel
<1>19. ASSUME NEW o \in Orders, Destroy(o) PROVE Basis'
  <2>2. \A h \in Handlers : held'[h] \in Work \cup {Idle} /\ AfterDestroy(h, o)
    BY <1>19, <1>t, DestroyLeaves
  <2>3. TypeOK'
    BY <1>19, <1>t, <2>2, NoneAssumption DEF Destroy, TypeOK
  <2>4. Notices'
    BY <1>19, <1>t, <2>2 DEF Destroy, AfterDestroy, Notices, NoticeOf, Logged
  <2>5. Presence'
    BY <1>19, <1>t, <2>2 DEF Destroy, AfterDestroy, Presence, TypeOK
  <2> QED BY <2>3, <2>4, <2>5 DEF Basis
<1>20. CASE UNCHANGED vars
  BY <1>t, <1>20 DEF vars, Basis, TypeOK, Notices, NoticeOf, Logged, Presence
<1> QED BY <1>1, <1>2, <1>3, <1>4, <1>5, <1>6, <1>7, <1>8, <1>9, <1>10, <1>11, <1>12,
           <1>13, <1>14, <1>15, <1>16, <1>17, <1>18, <1>19, <1>20
       DEF Next, Deliver, Handle

THEOREM BasisAlways == Spec => []Basis
  BY BasisInit, BasisStep, PTL DEF Spec

-----------------------------------------------------------------------------
(* A handler about to save an order has written the event of the change.   *)
ToSave(w) == w # Idle /\ w.stage \in {"recorded", "cancelled"} /\ w.row # NoOrder
Shows(o, s) == \E e \in events[o] : e.to = s
Written == \A h \in Handlers : ToSave(held[h]) => Shows(held[h].order, held[h].status)

LEMMA WrittenMoves ==
    ASSUME Basis, Written, NEW h \in Handlers, NEW w, held' = [held EXCEPT ![h] = w],
           \A o \in Orders : events[o] \subseteq events'[o],
           ToSave(w) => Shows(w.order, w.status)'
    PROVE  Written'
<1>1. \A g \in Handlers : held'[g] = IF g = h THEN w ELSE held[g]
  BY DEF Basis, TypeOK
<1>2. \A g \in Handlers : ToSave(held[g]) => held[g].order \in Orders
  BY DEF Basis, TypeOK, ToSave, Work
<1> QED BY <1>1, <1>2 DEF Written, Shows

(* An event that is recorded is shown, and no event is lost.               *)
LEMMA EventShown ==
    ASSUME Basis, NEW o \in Orders, NEW from, NEW to, RecordEvent(o, from, to)
    PROVE  /\ \A x \in Orders : events[x] \subseteq events'[x]
           /\ Shows(o, to)'
           /\ events'[o] = events[o] \cup {[from |-> from, to |-> to]}
           /\ \A x \in Orders : x # o => events'[x] = events[x]
<1>1. /\ events'[o] = events[o] \cup {[from |-> from, to |-> to]}
      /\ \A x \in Orders : x # o => events'[x] = events[x]
  BY DEF RecordEvent, Basis, TypeOK
<1>2. [from |-> from, to |-> to].to = to
  OBVIOUS
<1> QED BY <1>1, <1>2 DEF Shows

LEMMA WrittenStep == Basis /\ Written /\ [Next]_vars => Written'
<1> SUFFICES ASSUME Basis, Written, [Next]_vars PROVE Written'
  OBVIOUS
<1>h. \A h \in Handlers : held[h] # Idle => held[h].order \in Orders
  BY DEF Basis, TypeOK, Work
<1>1. ASSUME UNCHANGED <<held, events>> PROVE Written'
  BY <1>1 DEF Written, Shows
<1>2. ASSUME NEW h \in Handlers, NEW w, held' = [held EXCEPT ![h] = w], ~ ToSave(w),
             UNCHANGED events
      PROVE  Written'
  BY <1>2, WrittenMoves
<1>3. ASSUME NEW h \in Handlers, Finish(h), UNCHANGED events PROVE Written'
  BY <1>2, <1>3 DEF Finish, ToSave
<1>4. ASSUME NEW h \in Handlers, NEW stage, NEW o, NEW s, NEW k, NEW r,
             Begin(h, stage, o, s, k, r),
             stage \notin {"recorded", "cancelled"}, UNCHANGED events
      PROVE  Written'
  BY <1>2, <1>4 DEF Begin, ToSave
<1>5. ASSUME NEW h \in Handlers, RecordBirth(h) \/ RecordFiling(h) PROVE Written'
  <2>1. held' = [held EXCEPT ![h] = Idle] /\ ~ ToSave(Idle)
    BY <1>5 DEF RecordBirth, RecordFiling, Finish, ToSave
  <2>2. \A o \in Orders : events[o] \subseteq events'[o]
    BY <1>5, <1>h, EventShown DEF RecordBirth, RecordFiling, At
  <2> QED BY <2>1, <2>2, WrittenMoves
<1>6. ASSUME NEW h \in Handlers, RecordChange(h) \/ RecordCancel(h) PROVE Written'
  <2>1. PICK w : /\ held' = [held EXCEPT ![h] = w]
                 /\ w.order = held[h].order /\ w.status = held[h].status
    BY <1>6 DEF RecordChange, RecordCancel, Continue, Begin
  <2>2. held[h].order \in Orders
    BY <1>6, <1>h DEF RecordChange, RecordCancel, At
  <2>3. PICK from : RecordEvent(held[h].order, from, held[h].status)
    <3>1. held[h] # Idle /\ held[h].stage = "cancelling" => held[h].status = "CANCELLED"
      BY DEF Basis, Notices
    <3> QED BY <1>6, <3>1 DEF RecordChange, RecordCancel, At
  <2> QED BY <2>1, <2>2, <2>3, EventShown, WrittenMoves
<1>7. ASSUME NEW o \in Orders, Destroy(o) PROVE Written'
  <2>1. \A h \in Handlers : AfterDestroy(h, o)
    BY <1>7, DestroyLeaves DEF Basis
  <2>2. \A x \in Orders : x # o => events'[x] = events[x]
    BY <1>7 DEF Destroy, Basis, TypeOK
  <2> QED BY <1>h, <2>1, <2>2 DEF AfterDestroy, Written, ToSave, Shows
<1>8. CASE \E o \in Orders, s \in BGOrderStatus, k \in 1..MaxReports : Report(o, s, k)
  BY <1>1, <1>8 DEF Report
<1>9. CASE \E n \in sent : RefuseLate(n) \/ Deliver(n)
  BY <1>1, <1>4, <1>9 DEF RefuseLate, Deliver, AnswerDuplicate, Receive
<1>10. ASSUME NEW h \in Handlers, Handle(h) \/ BreakOff(h) PROVE Written'
  <2>1. CASE WriteAudit(h) \/ InsertOrder(h) \/ FindOrder(h)
    BY <2>1, <1>4 DEF WriteAudit, InsertOrder, FindOrder, Continue
  <2>2. CASE LeaveOrder(h) \/ SaveChange(h) \/ SaveCancel(h) \/ BreakOff(h)
    BY <2>2, <1>3 DEF LeaveOrder, SaveChange, SaveCancel, BreakOff
  <2>3. CASE FileOrder(h)
    BY <2>3, <1>3, <1>4 DEF FileOrder, Continue
  <2> QED BY <1>5, <1>6, <1>10, <2>1, <2>2, <2>3 DEF Handle
<1>11. ASSUME NEW h \in Handlers, NEW o \in Orders,
              PlaceOrder(h, o) \/ UploadReport(h, o) \/ BeginCancel(h, o)
       PROVE  Written'
  BY <1>4, <1>11 DEF PlaceOrder, UploadReport, BeginCancel
<1>12. CASE UNCHANGED vars
  BY <1>1, <1>12 DEF vars
<1> QED BY <1>7, <1>8, <1>9, <1>10, <1>11, <1>12 DEF Next

LEMMA WrittenInit == Init => Written
  BY DEF Init, Written, ToSave

(* The status of an existing order changes.                                *)
Changed(o) == row[o] # NoOrder /\ row'[o] # NoOrder /\ row'[o].status # row[o].status

LEMMA ChangesAreShown ==
    ASSUME Basis, Written, Next, NEW o \in Orders, Changed(o)
    PROVE  Shows(o, row'[o].status)
<1>r. row \in [Orders -> Row \cup {NoOrder}]
  BY DEF Basis, TypeOK
<1>h. \A h \in Handlers : held[h] # Idle => held[h].order \in Orders
  BY DEF Basis, TypeOK, Work
<1>1. row' # row
  BY DEF Changed
<1>2. ASSUME NEW h \in Handlers, SaveChange(h) \/ SaveCancel(h) PROVE Shows(o, row'[o].status)
  <2>1. /\ held[h] # Idle /\ held[h].order \in Orders /\ ToSave(held[h])
        /\ row[held[h].order] # NoOrder
    BY <1>2, <1>h DEF SaveChange, SaveCancel, At, ToSave, Basis, Presence
  <2>2. held[h].order = o
    BY <1>2, <1>r, <2>1 DEF SaveChange, SaveCancel, Changed
  <2>3. row'[o].status = held[h].status
    <3>1. row[o] \in Row
      BY <1>r DEF Changed
    <3>2. held[h].stage = "cancelled" => held[h].status = "CANCELLED"
      BY <2>1 DEF Basis, Notices
    <3>3. CASE SaveCancel(h)
      BY <3>1, <3>2, <3>3, <1>r, <2>2 DEF SaveCancel, At, Row
    <3>4. CASE SaveChange(h)
      BY <3>1, <3>4, <1>r, <2>2 DEF SaveChange, Row
    <3> QED BY <1>2, <3>3, <3>4
  <2> QED BY <2>1, <2>2, <2>3 DEF Written
<1>3. ASSUME NEW h \in Handlers, InsertOrder(h) \/ FileOrder(h) PROVE FALSE
  BY <1>1, <1>3, <1>r DEF InsertOrder, FileOrder, Changed
<1>4. ASSUME NEW h \in Handlers, NEW x \in Orders, UploadReport(h, x) PROVE FALSE
  BY <1>4, <1>r DEF UploadReport, Changed
<1>5. ASSUME NEW x \in Orders, Destroy(x) PROVE FALSE
  BY <1>5, <1>r DEF Destroy, Changed
<1>6. ASSUME NEW h \in Handlers, Handle(h) \/ BreakOff(h)
      PROVE  \/ SaveChange(h) \/ SaveCancel(h) \/ InsertOrder(h) \/ FileOrder(h)
  BY <1>1, <1>6 DEF Handle, BreakOff, WriteAudit, LeaveOrder, FindOrder, RecordBirth,
     RecordChange, RecordFiling, RecordCancel
<1> QED BY <1>1, <1>2, <1>3, <1>4, <1>5, <1>6 DEF Next, Deliver, Report, RefuseLate,
        AnswerDuplicate, Receive, PlaceOrder, BeginCancel

-----------------------------------------------------------------------------
(* A handler that has inserted an order and not yet recorded its birth: at *)
(* most one for an order, and the order shows none.                        *)
Birther(w) == w # Idle /\ w.stage \in {"inserted", "filed"} /\ w.row # NoOrder
NotBorn(o) == \A e \in events[o] : e.from # NoStatus
Births ==
    /\ \A h \in Handlers : Birther(held[h]) => NotBorn(held[h].order)
    /\ \A g, h \in Handlers :
          (Birther(held[g]) /\ Birther(held[h]) /\ held[g].order = held[h].order) => g = h
    /\ OneBeginning

(* A handler stops being one, or never was.                                *)
LEMMA NoBirther ==
    ASSUME Basis, Births, NEW h \in Handlers, NEW w, held' = [held EXCEPT ![h] = w],
           ~ Birther(w), UNCHANGED events
    PROVE  Births'
<1>1. \A g \in Handlers : held'[g] = IF g = h THEN w ELSE held[g]
  BY DEF Basis, TypeOK
<1> QED BY <1>1 DEF Births, NotBorn, OneBeginning

(* It becomes one by inserting the row.                                    *)
LEMMA NewBirther ==
    ASSUME Basis, Births, NEW h \in Handlers, NEW w, held' = [held EXCEPT ![h] = w],
           w.order \in Orders, row[w.order] = NoOrder, UNCHANGED events
    PROVE  Births'
<1>1. \A g \in Handlers : held'[g] = IF g = h THEN w ELSE held[g]
  BY DEF Basis, TypeOK
<1>2. \A g \in Handlers : Birther(held[g]) => held[g].order # w.order
  BY DEF Basis, Presence, Birther
<1>3. NotBorn(w.order)
  BY DEF Basis, Presence, NotBorn
<1> QED BY <1>1, <1>2, <1>3 DEF Births, NotBorn, OneBeginning

(* It records the birth and is done.                                       *)
LEMMA BirthRecorded ==
    ASSUME Basis, Births, NEW h \in Handlers, Birther(held[h]), Finish(h),
           NEW to, RecordEvent(held[h].order, NoStatus, to)
    PROVE  Births'
<1>1. /\ \A g \in Handlers : held'[g] = IF g = h THEN Idle ELSE held[g]
      /\ held[h].order \in Orders
  BY DEF Finish, Basis, TypeOK, Birther, Work
<1>2. /\ events'[held[h].order] = events[held[h].order] \cup {[from |-> NoStatus, to |-> to]}
      /\ \A x \in Orders : x # held[h].order => events'[x] = events[x]
  BY <1>1, EventShown
<1>3. ~ Birther(Idle) /\ NotBorn(held[h].order)
  BY DEF Births, Birther
<1>4. \A g \in Handlers : Birther(held'[g]) =>
         g # h /\ Birther(held[g]) /\ held'[g] = held[g] /\ held[g].order # held[h].order
  BY <1>1, <1>3 DEF Births
<1>5. \A g \in Handlers : Birther(held[g]) => held[g].order \in Orders
  BY DEF Birther, Basis, TypeOK, Work
<1>6. \A g \in Handlers : Birther(held'[g]) => NotBorn(held[g].order)'
  BY <1>2, <1>4, <1>5 DEF Births, NotBorn
<1>7. OneBeginning'
  BY <1>2, <1>3 DEF Births, OneBeginning, NotBorn
<1> QED BY <1>4, <1>6, <1>7 DEF Births

(* A change of a status is no birth.                                       *)
LEMMA ChangeRecorded ==
    ASSUME Basis, Births, NEW h \in Handlers, held[h] # Idle, held[h].row # NoOrder,
           NEW stage, stage \notin {"inserted", "filed"}, Continue(h, stage, held[h].row),
           NEW to, RecordEvent(held[h].order, held[h].row.status, to)
    PROVE  Births'
<1>1. held[h].order \in Orders /\ held[h].row.status # NoStatus
  BY NoneAssumption DEF Basis, TypeOK, Work, Row
<1>2. /\ events'[held[h].order] = events[held[h].order]
                                   \cup {[from |-> held[h].row.status, to |-> to]}
      /\ \A x \in Orders : x # held[h].order => events'[x] = events[x]
  BY <1>1, EventShown
<1>3. \A x \in Orders : \A e \in events'[x] : e.from = NoStatus => e \in events[x]
  BY <1>1, <1>2
<1>4. \A g \in Handlers : Birther(held'[g]) => g # h /\ held'[g] = held[g]
  BY DEF Continue, Begin, Birther, Basis, TypeOK
<1>5. \A g \in Handlers : Birther(held[g]) => held[g].order \in Orders
  BY DEF Birther, Basis, TypeOK, Work
<1>6. \A g \in Handlers : Birther(held'[g]) => NotBorn(held[g].order)'
  BY <1>3, <1>4, <1>5 DEF Births, NotBorn
<1>7. OneBeginning'
  BY <1>3 DEF Births, OneBeginning
<1> QED BY <1>4, <1>6, <1>7 DEF Births

LEMMA BirthsStep == Basis /\ Births /\ [Next]_vars => Births'
<1> SUFFICES ASSUME Basis, Births, [Next]_vars PROVE Births'
  OBVIOUS
<1>h. \A h \in Handlers : held[h] # Idle => held[h].order \in Orders
  BY DEF Basis, TypeOK, Work
<1>1. ASSUME UNCHANGED <<held, events>> PROVE Births'
  BY <1>1 DEF Births, NotBorn, OneBeginning
<1>2. ASSUME NEW h \in Handlers, Finish(h), UNCHANGED events PROVE Births'
  BY <1>2, NoBirther DEF Finish, Birther
<1>3. ASSUME NEW h \in Handlers, NEW stage, NEW o, NEW s, NEW k, NEW r,
             Begin(h, stage, o, s, k, r),
             stage \notin {"inserted", "filed"}, UNCHANGED events
      PROVE  Births'
  BY <1>3, NoBirther DEF Begin, Birther
<1>4. ASSUME NEW h \in Handlers, NEW stage, NEW o \in Orders, NEW s, NEW k, NEW r,
             Begin(h, stage, o, s, k, r), row[o] = NoOrder, UNCHANGED events
      PROVE  Births'
  <2>1. [stage |-> stage, order |-> o, status |-> s, nth |-> k, row |-> r].order = o
    OBVIOUS
  <2> QED BY <1>4, <2>1, NewBirther DEF Begin
<1>5. ASSUME NEW h \in Handlers, RecordBirth(h) \/ RecordFiling(h) PROVE Births'
  <2>1. Birther(held[h])
    BY <1>5 DEF RecordBirth, RecordFiling, At, Birther
  <2> QED BY <1>5, <2>1, BirthRecorded DEF RecordBirth, RecordFiling
<1>6. ASSUME NEW h \in Handlers, RecordChange(h) \/ RecordCancel(h) PROVE Births'
  <2>1. CASE RecordChange(h)
    <3>1. /\ held[h] # Idle /\ held[h].row # NoOrder
          /\ Continue(h, "recorded", held[h].row)
          /\ RecordEvent(held[h].order, held[h].row.status, held[h].status)
      BY <2>1 DEF RecordChange, At
    <3>2. "recorded" \notin {"inserted", "filed"}
      OBVIOUS
    <3> QED BY <3>1, <3>2, ChangeRecorded
  <2>2. CASE RecordCancel(h)
    <3>1. /\ held[h] # Idle /\ held[h].row # NoOrder
          /\ Continue(h, "cancelled", held[h].row)
          /\ RecordEvent(held[h].order, held[h].row.status, "CANCELLED")
      BY <2>2 DEF RecordCancel, At
    <3>2. "cancelled" \notin {"inserted", "filed"}
      OBVIOUS
    <3> QED BY <3>1, <3>2, ChangeRecorded
  <2> QED BY <1>6, <2>1, <2>2
<1>7. ASSUME NEW o \in Orders, Destroy(o) PROVE Births'
  <2>1. \A h \in Handlers : AfterDestroy(h, o)
    BY <1>7, DestroyLeaves DEF Basis
  <2>2. events'[o] = {} /\ \A x \in Orders : x # o => events'[x] = events[x]
    BY <1>7 DEF Destroy, Basis, TypeOK
  <2>3. \A h \in Handlers : Birther(held'[h]) =>
           /\ Birther(held[h]) /\ held'[h].order = held[h].order
           /\ held[h].order # o /\ held[h].order \in Orders
    BY <1>h, <2>1 DEF AfterDestroy, Birther
  <2>4. \A h \in Handlers : Birther(held'[h]) => NotBorn(held[h].order)'
    BY <2>2, <2>3 DEF Births, NotBorn
  <2>5. OneBeginning'
    BY <2>2 DEF Births, OneBeginning
  <2> QED BY <2>3, <2>4, <2>5 DEF Births
<1>8. CASE \E o \in Orders, s \in BGOrderStatus, k \in 1..MaxReports : Report(o, s, k)
  BY <1>1, <1>8 DEF Report
<1>9. CASE \E n \in sent : RefuseLate(n) \/ Deliver(n)
  BY <1>1, <1>3, <1>9 DEF RefuseLate, Deliver, AnswerDuplicate, Receive
<1>10. ASSUME NEW h \in Handlers, Handle(h) \/ BreakOff(h) PROVE Births'
  <2>1. CASE WriteAudit(h) \/ FindOrder(h)
    BY <2>1, <1>3 DEF WriteAudit, FindOrder, Continue
  <2>2. CASE LeaveOrder(h) \/ SaveChange(h) \/ SaveCancel(h) \/ BreakOff(h)
    BY <2>2, <1>2 DEF LeaveOrder, SaveChange, SaveCancel, BreakOff
  <2>3. CASE InsertOrder(h)
    BY <2>3, <1>h, <1>4 DEF InsertOrder, Continue, At
  <2>4. CASE FileOrder(h)
    BY <2>4, <1>h, <1>2, <1>4 DEF FileOrder, Continue, At
  <2> QED BY <1>5, <1>6, <1>10, <2>1, <2>2, <2>3, <2>4 DEF Handle
<1>11. ASSUME NEW h \in Handlers, NEW o \in Orders,
              PlaceOrder(h, o) \/ UploadReport(h, o) \/ BeginCancel(h, o)
       PROVE  Births'
  BY <1>3, <1>4, <1>11 DEF PlaceOrder, UploadReport, BeginCancel
<1>12. CASE UNCHANGED vars
  BY <1>1, <1>12 DEF vars
<1> QED BY <1>7, <1>8, <1>9, <1>10, <1>11, <1>12 DEF Next

LEMMA BirthsInit == Init => Births
  BY DEF Init, Births, Birther, OneBeginning

-----------------------------------------------------------------------------
(* Every logged callback was applied, is in hand or was lost; the handler  *)
(* that inserted an order applied its callback by that.                    *)
InHandOf(w) == w # Idle /\ w.stage \in CallbackStages \ {"checked"}
Accounted ==
    /\ \A n \in audit : n \in applied \/ InHand(n) \/ n \in lost
    /\ \A h \in Handlers :
          held[h] # Idle /\ held[h].stage = "inserted" => NoticeOf(h) \in applied

(* One handler moves: it goes on with what it has in hand, or has applied  *)
(* or lost it.                                                             *)
LEMMA AccountMoves ==
    ASSUME Basis, Accounted, NEW h \in Handlers, NEW w, held' = [held EXCEPT ![h] = w],
           applied \subseteq applied', lost \subseteq lost',
           InHandOf(held[h]) =>
              \/ NoticeOf(h) \in applied' \cup lost'
              \/ InHandOf(w) /\ NoticeIn(w) = NoticeOf(h),
           \A n \in audit' \ audit : InHandOf(w) /\ NoticeIn(w) = n,
           w # Idle /\ w.stage = "inserted" => NoticeIn(w) \in applied'
    PROVE  Accounted'
<1>1. \A g \in Handlers : held'[g] = IF g = h THEN w ELSE held[g]
  BY DEF Basis, TypeOK
<1>2. NoticeOf(h)' = NoticeIn(w) /\ \A g \in Handlers : g # h => NoticeOf(g)' = NoticeOf(g)
  BY <1>1 DEF NoticeOf, NoticeIn
<1>3. InHandOf(w) => InHand(NoticeIn(w))'
  BY <1>1, <1>2 DEF InHandOf, InHand
<1>4. \A n \in audit : InHand(n) => n \in applied' \/ InHand(n)' \/ n \in lost'
  <2> SUFFICES ASSUME NEW n \in audit, NEW g \in Handlers, InHandOf(held[g]), NoticeOf(g) = n
               PROVE  n \in applied' \/ InHand(n)' \/ n \in lost'
    BY DEF InHand, InHandOf
  <2>1. CASE g # h
    BY <1>1, <1>2, <2>1 DEF InHand, InHandOf
  <2>2. CASE g = h
    BY <1>3, <2>2
  <2> QED BY <2>1, <2>2
<1>5. \A n \in audit' : n \in applied' \/ InHand(n)' \/ n \in lost'
  BY <1>3, <1>4 DEF Accounted
<1>6. \A g \in Handlers : held'[g] # Idle /\ held'[g].stage = "inserted"
                             => NoticeOf(g)' \in applied'
  BY <1>1, <1>2 DEF Accounted
<1> QED BY <1>5, <1>6 DEF Accounted

LEMMA AccountedStep == Basis /\ Accounted /\ [Next]_vars => Accounted'
<1> SUFFICES ASSUME Basis, Accounted, [Next]_vars PROVE Accounted'
  OBVIOUS
<1>1. ASSUME UNCHANGED <<audit, held, lost, applied>> PROVE Accounted'
  BY <1>1 DEF Accounted, InHand, NoticeOf
(* A handler leaves or does not have a logged callback in hand.            *)
<1>2. ASSUME NEW h \in Handlers, NEW w, held' = [held EXCEPT ![h] = w],
             applied \subseteq applied', lost \subseteq lost', UNCHANGED audit,
             InHandOf(held[h]) => NoticeOf(h) \in applied' \cup lost',
             w # Idle => w.stage # "inserted"
      PROVE  Accounted'
  BY <1>2, AccountMoves
(* A handler takes its callback to another stage.                          *)
<1>3. ASSUME NEW h \in Handlers, held[h] # Idle, NEW stage \in CallbackStages \ {"checked"},
             NEW r \in Row \cup {NoOrder}, Continue(h, stage, r),
             applied \subseteq applied', lost \subseteq lost',
             \A n \in audit' \ audit : n = NoticeOf(h),
             stage = "inserted" => NoticeOf(h) \in applied'
      PROVE  Accounted'
  <2> DEFINE w == [stage |-> stage, order |-> held[h].order, status |-> held[h].status,
                   nth |-> held[h].nth, row |-> r]
  <2>1. w \in Work
    BY <1>3 DEF Basis, TypeOK, Work
  <2>2. w # Idle /\ w.stage = stage /\ NoticeIn(w) = NoticeOf(h)
    BY <2>1, IdleAssumption DEF NoticeIn, NoticeOf
  <2>3. held' = [held EXCEPT ![h] = w]
    BY <1>3 DEF Continue, Begin
  <2> HIDE DEF w
  <2>4. InHandOf(w)
    BY <2>2 DEF InHandOf
  <2> QED BY <1>3, <2>2, <2>3, <2>4, AccountMoves
<1>4. ASSUME NEW n \in sent, RefuseLate(n) PROVE Accounted'
  BY <1>4 DEF RefuseLate, Accounted, InHand, NoticeOf
<1>5. ASSUME NEW h \in Handlers, NEW n \in sent, Receive(h, n) PROVE Accounted'
  BY <1>2, <1>5 DEF Receive, Begin, InHandOf
<1>r. \A o \in Orders : row[o] \in Row \cup {NoOrder}
  BY DEF Basis, TypeOK
<1>h. ASSUME NEW h \in Handlers, held[h] # Idle
      PROVE  /\ held[h].order \in Orders /\ held[h].status \in BGOrderStatus
             /\ held[h].row \in Row \cup {NoOrder}
  BY <1>h DEF Basis, TypeOK, Work
<1>6. ASSUME NEW h \in Handlers, WriteAudit(h) PROVE Accounted'
  BY <1>3, <1>6 DEF WriteAudit, At, CallbackStages
<1>7. ASSUME NEW h \in Handlers, InsertOrder(h) PROVE Accounted'
  <2> DEFINE r == [status |-> held[h].status, timed |-> Timed(NoticeOf(h)),
                   config |-> TRUE]
  <2>1. held[h] # Idle /\ Continue(h, "inserted", r) /\ UNCHANGED <<audit, lost>>
        /\ applied' = applied \cup {NoticeOf(h)}
    BY <1>7 DEF InsertOrder, At
  <2>2. r \in Row
    BY <1>h, <2>1 DEF Row, Timed
  <2> HIDE DEF r
  <2> QED BY <1>3, <2>1, <2>2 DEF CallbackStages
<1>8. ASSUME NEW h \in Handlers, LeaveOrder(h) \/ SaveChange(h) \/ BreakOff(h)
      PROVE  Accounted'
  BY <1>2, <1>8 DEF LeaveOrder, SaveChange, BreakOff, Finish, InHandOf
<1>9. ASSUME NEW h \in Handlers, FindOrder(h) \/ RecordChange(h) PROVE Accounted'
  <2>1. CASE FindOrder(h)
    BY <1>3, <1>r, <1>h, <2>1 DEF FindOrder, At, CallbackStages
  <2>2. CASE RecordChange(h)
    BY <1>3, <1>h, <2>2 DEF RecordChange, At, CallbackStages
  <2> QED BY <1>9, <2>1, <2>2
<1>10. ASSUME NEW h \in Handlers, RecordBirth(h) PROVE Accounted'
  <2>1. NoticeOf(h) \in applied
    BY <1>10 DEF RecordBirth, At, Accounted
  <2> QED BY <1>2, <1>10, <2>1 DEF RecordBirth, Finish
<1>11. ASSUME NEW h \in Handlers,
              FileOrder(h) \/ RecordFiling(h) \/ RecordCancel(h) \/ SaveCancel(h)
       PROVE  Accounted'
  <2>1. ~ InHandOf(held[h]) /\ UNCHANGED <<audit, lost, applied>>
    BY <1>11 DEF FileOrder, RecordFiling, RecordCancel, SaveCancel, At, InHandOf,
       CallbackStages
  <2>2. CASE FileOrder(h)
    BY <1>2, <2>1, <2>2 DEF FileOrder, Continue, Begin, Finish
  <2>3. CASE RecordFiling(h) \/ SaveCancel(h)
    BY <1>2, <2>1, <2>3 DEF RecordFiling, SaveCancel, Finish
  <2>4. CASE RecordCancel(h)
    BY <1>2, <2>1, <2>4 DEF RecordCancel, Continue, Begin
  <2> QED BY <1>11, <2>2, <2>3, <2>4
<1>12. ASSUME NEW h \in Handlers, NEW o \in Orders,
              PlaceOrder(h, o) \/ UploadReport(h, o) \/ BeginCancel(h, o)
       PROVE  Accounted'
  BY <1>2, <1>12 DEF PlaceOrder, UploadReport, BeginCancel, Begin, InHandOf
<1>13. ASSUME NEW o \in Orders, Destroy(o) PROVE Accounted'
  <2>1. /\ \A h \in Handlers : AfterDestroy(h, o)
        /\ UNCHANGED <<audit, lost, applied>>
    BY <1>13, DestroyLeaves DEF Basis, Destroy
  <2>2. \A h \in Handlers : held[h] # Idle => NoticeOf(h)' = NoticeOf(h)
    BY <2>1 DEF AfterDestroy, NoticeOf
  <2> QED BY <2>1, <2>2 DEF Accounted, InHand, AfterDestroy
<1>14. ASSUME NEW n \in sent, AnswerDuplicate(n) PROVE Accounted'
  BY <1>1, <1>14 DEF AnswerDuplicate
<1>15. CASE \E o \in Orders, s \in BGOrderStatus, k \in 1..MaxReports : Report(o, s, k)
  BY <1>1, <1>15 DEF Report
<1>16. CASE UNCHANGED vars
  BY <1>1, <1>16 DEF vars
<1> QED BY <1>4, <1>5, <1>6, <1>7, <1>8, <1>9, <1>10, <1>11, <1>12, <1>13, <1>14, <1>15,
           <1>16 DEF Next, Deliver, Handle

LEMMA AccountedInit == Init => Accounted
  BY DEF Init, Accounted

-----------------------------------------------------------------------------
(* The ledger of the orders: what is told of an order, event by event.     *)
Entry(e) == [first |-> e.from = NoStatus, status |-> e.to]
Entries(S) == {Entry(e) : e \in S}

LEMMA LedgerValues ==
    /\ statusOf = [o \in Orders |-> IF row[o] = NoOrder THEN NoStatus ELSE row[o].status]
    /\ toldOf = [o \in Orders |-> Entries(events[o])]
  BY Zenon DEF statusOf, toldOf, Entries, Entry

LEMMA LedgerValuesNext ==
    /\ statusOf' = [o \in Orders |-> IF row'[o] = NoOrder THEN NoStatus ELSE row'[o].status]
    /\ toldOf' = [o \in Orders |-> Entries(events'[o])]
  BY Zenon DEF statusOf, toldOf, Entries, Entry

LEMMA EntryAdded ==
    ASSUME NEW S, NEW e
    PROVE  Entries(S \cup {e}) = Entries(S) \cup {Entry(e)}
  BY DEF Entries

(* What an entry says, and whether an order has a first one.               *)
LEMMA EntrySays ==
    /\ \A e : Entry(e).status = e.to /\ (Entry(e).first <=> e.from = NoStatus)
    /\ \A from, to : Entry([from |-> from, to |-> to])
                        = [first |-> from = NoStatus, status |-> to]
  BY DEF Entry

(* A row that exists has a status, which NoStatus is not.                  *)
LEMMA StatusOfRow ==
    ASSUME Basis, NEW o \in Orders
    PROVE  /\ row[o] = NoOrder => statusOf[o] = NoStatus
           /\ row[o] # NoOrder => /\ statusOf[o] = row[o].status
                                  /\ statusOf[o] # NoStatus
<1>1. row[o] # NoOrder => row[o].status \in BGOrderStatus
  BY DEF Basis, TypeOK, Row
<1> QED BY <1>1, LedgerValues, NoneAssumption

LEMMA LedgerStutters ==
    ASSUME UNCHANGED <<row, events>>
    PROVE  UNCHANGED <<statusOf, toldOf>>
  BY LedgerValues, LedgerValuesNext

(* One row is written and keeps its events: it appears, or takes a status  *)
(* that is told.                                                           *)
LEMMA RowIsLedgers ==
    ASSUME Basis, NEW o \in Orders, NEW r \in Row, row' = [row EXCEPT ![o] = r],
           row[o] = NoOrder \/ Shows(o, r.status), UNCHANGED events
    PROVE  Ledger!Next
<1>1. r.status \in BGOrderStatus /\ r # NoOrder
  BY IdleAssumption DEF Row
<1>2. row'[o] = r /\ \A x \in Orders : x # o => row'[x] = row[x]
  BY DEF Basis, TypeOK
<1>3. statusOf' = [statusOf EXCEPT ![o] = r.status] /\ toldOf' = toldOf
  BY <1>1, <1>2, LedgerValues, LedgerValuesNext
<1>4. CASE row[o] = NoOrder
  <2>1. statusOf[o] = NoStatus
    BY <1>4, StatusOfRow
  <2> QED BY <1>1, <1>3, <2>1 DEF Ledger!Next, Ledger!Appear
<1>5. CASE row[o] # NoOrder
  <2>1. statusOf[o] # NoStatus
    BY <1>5, StatusOfRow
  <2>2. PICK e \in events[o] : e.to = r.status
    BY <1>5 DEF Shows
  <2>3. Entry(e) \in toldOf[o] /\ Entry(e).status = r.status
    BY <2>2, LedgerValues, EntrySays DEF Entries
  <2> QED BY <1>1, <1>3, <2>1, <2>3 DEF Ledger!Next, Ledger!Take
<1> QED BY <1>4, <1>5

(* An event of an order that exists is told, its first one once.           *)
LEMMA EventIsLedgers ==
    ASSUME Basis, NEW o \in Orders, NEW from, NEW to \in BGOrderStatus,
           RecordEvent(o, from, to), from = NoStatus => NotBorn(o),
           row[o] # NoOrder, UNCHANGED row
    PROVE  Ledger!Next
<1> DEFINE first == (from = NoStatus)
<1>1. /\ events'[o] = events[o] \cup {[from |-> from, to |-> to]}
      /\ \A x \in Orders : x # o => events'[x] = events[x]
  BY EventShown
<1>2. Entries(events'[o]) = Entries(events[o]) \cup {[first |-> first, status |-> to]}
  <2> DEFINE e == [from |-> from, to |-> to]
  <2>1. Entry(e) = [first |-> first, status |-> to]
    BY Zenon DEF Entry
  <2>2. Entries(events[o] \cup {e}) = Entries(events[o]) \cup {Entry(e)}
    BY EntryAdded
  <2> QED BY <1>1, <2>1, <2>2
<1>3. statusOf' = statusOf
  BY LedgerValues, LedgerValuesNext
<1>4. toldOf' = [toldOf EXCEPT ![o] = @ \cup {[first |-> first, status |-> to]}]
  BY <1>1, <1>2, LedgerValues, LedgerValuesNext
<1>5. statusOf[o] # NoStatus
  BY StatusOfRow
<1>6. first => \A t \in toldOf[o] : ~ t.first
  BY LedgerValues, EntrySays DEF NotBorn, Entries
<1>7. first \in BOOLEAN
  OBVIOUS
<1> HIDE DEF first
<1>8. Ledger!Tell(o, to, first)
  BY <1>3, <1>4, <1>5, <1>6 DEF Ledger!Tell
<1> QED BY <1>7, <1>8 DEF Ledger!Next

LEMMA RemovalIsLedgers ==
    ASSUME Basis, NEW o \in Orders, Destroy(o)
    PROVE  Ledger!Next
<1>1. /\ row'[o] = NoOrder /\ events'[o] = {}
      /\ \A x \in Orders : x # o => row'[x] = row[x] /\ events'[x] = events[x]
  BY DEF Destroy, Basis, TypeOK
<1>2. statusOf[o] # NoStatus
  BY StatusOfRow DEF Destroy
<1>3. Entries({}) = {}
  BY DEF Entries
<1>4. /\ statusOf' = [statusOf EXCEPT ![o] = NoStatus]
      /\ toldOf' = [toldOf EXCEPT ![o] = {}]
  BY <1>1, <1>3, LedgerValues, LedgerValuesNext
<1> QED BY <1>2, <1>4 DEF Ledger!Next, Ledger!Remove

LEMMA StepKeepsLedger ==
    ASSUME Basis, Written, Births, [Next]_vars
    PROVE  [Ledger!Next]_<<statusOf, toldOf>>
<1>h. ASSUME NEW h \in Handlers, held[h] # Idle
      PROVE  /\ held[h].order \in Orders /\ held[h].status \in BGOrderStatus
             /\ held[h].row # NoOrder => /\ row[held[h].order] \in Row
                                         /\ held[h].row \in Row
                                         /\ held[h].row.status # NoStatus
             /\ held[h].stage = "cancelling" \/ held[h].stage = "cancelled"
                   => held[h].status = "CANCELLED"
  BY <1>h, NoneAssumption DEF Basis, TypeOK, Presence, Notices, Work, Row
<1>1. CASE UNCHANGED <<row, events>>
  BY <1>1, LedgerStutters
<1>2. ASSUME NEW h \in Handlers, InsertOrder(h) PROVE Ledger!Next
  <2> DEFINE r == [status |-> held[h].status, timed |-> Timed(NoticeOf(h)),
                   config |-> TRUE]
  <2>1. r \in Row /\ held[h].order \in Orders
    BY <1>2, <1>h DEF InsertOrder, At, Row, Timed
  <2>2. row' = [row EXCEPT ![held[h].order] = r] /\ row[held[h].order] = NoOrder
    BY <1>2 DEF InsertOrder
  <2> HIDE DEF r
  <2> QED BY <1>2, <2>1, <2>2, RowIsLedgers DEF InsertOrder
<1>3. ASSUME NEW h \in Handlers, FileOrder(h), row # row' PROVE Ledger!Next
  <2> DEFINE r == [status |-> "ACCEPTED", timed |-> FALSE, config |-> TRUE]
  <2>1. r \in Row /\ held[h].order \in Orders
    BY <1>3, <1>h DEF FileOrder, At, Row, BGOrderStatus
  <2>2. row' = [row EXCEPT ![held[h].order] = r] /\ row[held[h].order] = NoOrder
    BY <1>3 DEF FileOrder
  <2> HIDE DEF r
  <2> QED BY <1>3, <2>1, <2>2, RowIsLedgers DEF FileOrder
<1>4. ASSUME NEW h \in Handlers, NEW o \in Orders, UploadReport(h, o) PROVE Ledger!Next
  <2> DEFINE r == [status |-> "COMPLETED", timed |-> TRUE, config |-> FALSE]
  <2>1. r \in Row
    BY DEF Row, BGOrderStatus
  <2>2. row' = [row EXCEPT ![o] = r] /\ row[o] = NoOrder
    BY <1>4 DEF UploadReport
  <2> HIDE DEF r
  <2> QED BY <1>4, <2>1, <2>2, RowIsLedgers DEF UploadReport
<1>5. ASSUME NEW h \in Handlers, RecordBirth(h) \/ RecordFiling(h) PROVE Ledger!Next
  <2>1. /\ held[h] # Idle /\ held[h].row # NoOrder /\ UNCHANGED row
        /\ RecordEvent(held[h].order, NoStatus, held[h].status)
        /\ Birther(held[h])
    BY <1>5 DEF RecordBirth, RecordFiling, At, Birther
  <2>2. NotBorn(held[h].order) /\ row[held[h].order] # NoOrder
    BY <2>1 DEF Births, Basis, Presence
  <2> QED BY <2>1, <2>2, <1>h, EventIsLedgers
<1>6. ASSUME NEW h \in Handlers, RecordChange(h) \/ RecordCancel(h) PROVE Ledger!Next
  <2>1. /\ held[h] # Idle /\ held[h].row # NoOrder /\ UNCHANGED row
        /\ RecordEvent(held[h].order, held[h].row.status, held[h].status)
    BY <1>6, <1>h DEF RecordChange, RecordCancel, At
  <2>2. row[held[h].order] # NoOrder /\ held[h].row.status # NoStatus
    BY <2>1, <1>h DEF Basis, Presence
  <2> QED BY <2>1, <2>2, <1>h, EventIsLedgers
<1>7. ASSUME NEW h \in Handlers, SaveChange(h) \/ SaveCancel(h) PROVE Ledger!Next
  <2> DEFINE o == held[h].order
  <2>1. /\ ToSave(held[h]) /\ held[h] # Idle /\ held[h].row # NoOrder /\ UNCHANGED events
        /\ o \in Orders /\ row[o] \in Row
    BY <1>7, <1>h DEF SaveChange, SaveCancel, At, ToSave
  <2>2. Shows(o, held[h].status)
    BY <2>1 DEF Written
  <2>3. PICK r \in Row : row' = [row EXCEPT ![o] = r] /\ r.status = held[h].status
    <3>1. CASE SaveChange(h)
      <4> DEFINE timed == held[h].row.timed \/ Timed(NoticeOf(h))
      <4>1. timed \in BOOLEAN
        BY <2>1, <1>h DEF Row, Timed
      <4>2. row' = [row EXCEPT ![o] = [@ EXCEPT !.status = held[h].status, !.timed = timed]]
        BY <3>1 DEF SaveChange
      <4> HIDE DEF timed
      <4> DEFINE r == [row[o] EXCEPT !.status = held[h].status, !.timed = timed]
      <4>3. r.status = held[h].status
        BY <2>1 DEF Row
      <4>4. r \in Row
        BY <2>1, <1>h, <4>1, RowSaved
      <4>5. row' = [row EXCEPT ![o] = r]
        BY <4>2
      <4> HIDE DEF r
      <4> QED BY <4>3, <4>4, <4>5
    <3>2. CASE SaveCancel(h)
      <4>1. held[h].status = "CANCELLED"
        BY <3>2, <1>h, <2>1 DEF SaveCancel, At
      <4>2. row' = [row EXCEPT ![o] = [@ EXCEPT !.status = "CANCELLED"]]
        BY <3>2 DEF SaveCancel
      <4> DEFINE r == [row[o] EXCEPT !.status = "CANCELLED"]
      <4>3. r.status = held[h].status
        BY <2>1, <4>1 DEF Row
      <4>4. r \in Row
        BY <2>1, <1>h, <4>1, RowSaved
      <4>5. row' = [row EXCEPT ![o] = r]
        BY <4>2
      <4> HIDE DEF r
      <4> QED BY <4>3, <4>4, <4>5
    <3> QED BY <1>7, <3>1, <3>2
  <2> HIDE DEF o
  <2> QED BY <2>1, <2>2, <2>3, RowIsLedgers
<1>8. ASSUME NEW o \in Orders, Destroy(o) PROVE Ledger!Next
  BY <1>8, RemovalIsLedgers
<1>9. ASSUME NEW h \in Handlers, Handle(h) \/ BreakOff(h)
      PROVE  [Ledger!Next]_<<statusOf, toldOf>>
  <2>1. CASE WriteAudit(h) \/ LeaveOrder(h) \/ FindOrder(h) \/ BreakOff(h)
    BY <2>1, <1>1 DEF WriteAudit, LeaveOrder, FindOrder, BreakOff
  <2>2. CASE FileOrder(h)
    BY <2>2, <1>1, <1>3 DEF FileOrder
  <2> QED BY <1>2, <1>5, <1>6, <1>7, <1>9, <2>1, <2>2 DEF Handle
<1>10. ASSUME NEW h \in Handlers, NEW o \in Orders,
              PlaceOrder(h, o) \/ UploadReport(h, o) \/ BeginCancel(h, o)
       PROVE  [Ledger!Next]_<<statusOf, toldOf>>
  BY <1>10, <1>1, <1>4 DEF PlaceOrder, BeginCancel
<1>11. CASE \E o \in Orders, s \in BGOrderStatus, k \in 1..MaxReports : Report(o, s, k)
  BY <1>1, <1>11 DEF Report
<1>12. CASE \E n \in sent : RefuseLate(n) \/ Deliver(n)
  BY <1>1, <1>12 DEF RefuseLate, Deliver, AnswerDuplicate, Receive
<1>13. CASE UNCHANGED vars
  BY <1>1, <1>13 DEF vars
<1> QED BY <1>8, <1>9, <1>10, <1>11, <1>12, <1>13 DEF Next

LEMMA InitKeepsLedger == Init => Ledger!Init
<1>1. Entries({}) = {}
  BY DEF Entries
<1> QED BY <1>1, LedgerValues DEF Init, Ledger!Init

-----------------------------------------------------------------------------
(* Type correctness of orders, notices and the work in hand.               *)
THEOREM CallbacksTypeCorrect == Spec => []TypeOK
<1>1. Basis => TypeOK
  BY DEF Basis
<1> QED BY BasisAlways, <1>1, PTL

(* Whatever is delivered again, in whichever order, to however many        *)
(* handlers, and whichever write fails: a status an existing order takes is*)
(* one its events show already.                                            *)
THEOREM ChangeAlwaysRecorded == Spec => ChangeIsRecorded
<1>1. Init => Basis /\ Written
  BY BasisInit, WrittenInit
<1>2. Basis /\ Written /\ [Next]_vars => Basis' /\ Written'
  BY BasisStep, WrittenStep
<1>3. Basis /\ Written /\ [Next]_vars =>
         [\A o \in Orders :
            (row[o] # NoOrder /\ row'[o] # NoOrder /\ row'[o].status # row[o].status)
               => \E e \in events[o] : e.to = row'[o].status]_vars
  BY ChangesAreShown DEF Changed, Shows
<1> QED BY <1>1, <1>2, <1>3, PTL DEF Spec, ChangeIsRecorded

(* However a callback, the answer to create-order and an upload race, an   *)
(* order shows at most one beginning.                                      *)
THEOREM AlwaysOneBeginning == Spec => []OneBeginning
<1>1. Init => Basis /\ Births
  BY BasisInit, BirthsInit
<1>2. Basis /\ Births /\ [Next]_vars => Basis' /\ Births'
  BY BasisStep, BirthsStep
<1>3. Births => OneBeginning
  BY DEF Births
<1> QED BY <1>1, <1>2, <1>3, PTL DEF Spec

(* A report answered with success was applied itself, is in the hand of a  *)
(* handler, was refused as late or broken off, or repeats the status of    *)
(* another report of its order.                                            *)
THEOREM OnlyRepeatsAndBreakdownsEverLose == Spec => []OnlyRepeatsAndBreakdownsLose
<1>1. Init => Basis /\ Accounted
  BY BasisInit, AccountedInit
<1>2. Basis /\ Accounted /\ [Next]_vars => Basis' /\ Accounted'
  BY BasisStep, AccountedStep
<1>3. ASSUME Basis, Accounted, NEW n \in acked
      PROVE  n \in applied \/ InHand(n) \/ n \in lost \/ Repeats(n)
  <2>1. PICK m \in audit : SameKey(m, n)
    BY <1>3 DEF Basis, Notices, Logged
  <2>2. CASE m.nth = n.nth
    <3>1. m = n
      BY <1>3, <2>1, <2>2 DEF SameKey, Basis, TypeOK, Notice
    <3> QED BY <1>3, <3>1 DEF Accounted
  <2> QED BY <2>1, <2>2 DEF Repeats
<1>4. Basis /\ Accounted => OnlyRepeatsAndBreakdownsLose
  BY <1>3 DEF OnlyRepeatsAndBreakdownsLose
<1> QED BY <1>1, <1>2, <1>4, PTL DEF Spec

(* Orders, events and handlers implement the ledger, for every number of   *)
(* orders and handlers: the history of an order is written ahead of it,    *)
(* begins once, and is deleted with it, whatever overlaps and fails.       *)
THEOREM OrdersKeepLedger == Spec => KeepsLedger
<1>1. Init => Basis /\ Written /\ Births
  BY BasisInit, WrittenInit, BirthsInit
<1>2. Basis /\ Written /\ Births /\ [Next]_vars => Basis' /\ Written' /\ Births'
  BY BasisStep, WrittenStep, BirthsStep
<1>3. Basis /\ Written /\ Births /\ [Next]_vars => [Ledger!Next]_<<statusOf, toldOf>>
  BY StepKeepsLedger
<1> QED BY <1>1, <1>2, <1>3, InitKeepsLedger, PTL DEF Spec, KeepsLedger, Ledger!Spec

=============================================================================
