------------------------- MODULE AfterSales_proofs -------------------------
(***************************************************************************)
(* Theorems about AfterSales for every order, every number of tickets,     *)
(* return requests, handlers, crashes and misread answers of the gateway.  *)
(* First the protocol: what the status of a ticket says about its kind,    *)
(* its refund at the gateway and the handlers that are at it               *)
(* (ProtocolInv).  Then the sums: entitlements, refund counters, money     *)
(* that left and copies kept.  Then the points.                            *)
(***************************************************************************)
EXTENDS AfterSales, StockTheorems

-----------------------------------------------------------------------------
(* The shape of the state.                                                 *)

ReturnStatuses == {"NONE", "PENDING", "RETURNING", "REJECTED", "RECEIVED", "CLOSED"}
LinkStatuses == {"INITIATING", "RETURNING", "RETURN_COMPLETED", "FAILED"}
ReshipStatuses == {"PREPARING", "SHIPPED", "DELIVERED", "CANCELLED"}
RefundStatuses == OpenRefund \cup {"REFUND_COMPLETED", "REFUND_FAILED"}
TicketStatuses == {"NONE"} \cup LinkStatuses \cup ReshipStatuses \cup RefundStatuses
Places == {"idle", "reserve", "prepare", "initialize", "create", "approve", "link", "submit",
           "record", "dispatch", "deliver", "sync"}
Answers == {"none", "unknown", "refused", "pending", "paid"}

Lines == [Books -> Nat]
ReturnRecord == [status : ReturnStatuses, items : Lines, amount : Nat]
Resolution == [type : Types \cup {"NONE"}, status : TicketStatuses, items : Lines, amount : Nat,
               req : Requests \cup {NoRequest}]
Job == [pc : Places, ticket : Tickets \cup {NoTicket}, type : Types \cup {"NONE"},
        items : Lines, amount : Nat, req : Requests \cup {NoRequest}, answer : Answers]
GatewayStates == {"none", "pending", "paid", "failed", "disowned"}

TypeInv ==
    /\ method \in {"COD", "VNPAY", "MOMO"}
    /\ status \in {"SHIPPED", "DELIVERED", "REFUNDED"}
    /\ refunded \in Int /\ reservedAmount \in Int /\ paidOut \in Int /\ writtenOff \in Int
    /\ returns \in [Requests -> ReturnRecord]
    /\ resolution \in [Tickets -> Resolution]
    /\ gateway \in [Tickets -> GatewayStates]
    /\ job \in [Handlers -> Job]

-----------------------------------------------------------------------------
(* The protocol.                                                           *)

(* The status of a ticket tells what kind of resolution it holds.          *)
TicketFits(t) ==
    /\ resolution[t].status = "NONE" => resolution[t].type = "NONE"
    /\ resolution[t].status \in LinkStatuses => resolution[t].type = "RETURN_REFUND"
    /\ resolution[t].status \in ReshipStatuses => resolution[t].type \in ReshipTypes
    /\ resolution[t].status \in RefundStatuses =>
           /\ resolution[t].type \in RefundTypes /\ resolution[t].amount > 0
    /\ resolution[t].type = "PARTIAL_REFUND" => status = "DELIVERED"
    /\ resolution[t].status = "INITIATING" => resolution[t].req = NoRequest

(* A refund that the bank has paid or may yet pay, and that the shop has   *)
(* not disowned, is on an open or a completed ticket.                      *)
GatewayFits(t) ==
    /\ gateway[t] \in {"pending", "paid"} =>
           resolution[t].status \in OpenRefund \cup {"REFUND_COMPLETED"}
    /\ gateway[t] = "pending" => method = "VNPAY"
    /\ resolution[t].status = "REFUND_MANUAL_REQUIRED" => method # "VNPAY"

Submits(a) == job[a].pc \in {"submit", "record"}
Links(a) == job[a].pc \in {"create", "approve", "link"}

(* What a handler may rely on when it takes its next step.                 *)
JobFits(a) ==
    LET t == job[a].ticket
    IN  /\ job[a].pc \notin {"idle", "deliver", "sync"} => t \in Tickets
        /\ job[a].pc \in {"approve", "link", "sync"} => job[a].req \in Requests
        /\ job[a].pc = "reserve" => job[a].type \in RefundTypes /\ job[a].amount > 0
        /\ job[a].pc = "prepare" => job[a].type \in ReshipTypes
        /\ job[a].pc = "initialize" => job[a].type = "RETURN_REFUND"
        /\ job[a].type = "PARTIAL_REFUND" => status = "DELIVERED"
        /\ Links(a) => resolution[t].status = "INITIATING"
        /\ job[a].pc = "submit" =>
               /\ method # "COD" /\ gateway[t] = "none"
               /\ resolution[t].status = "REFUND_PENDING" /\ resolution[t].amount = job[a].amount
        /\ job[a].pc = "record" /\ resolution[t].status = "REFUND_PENDING" =>
               /\ job[a].answer = "refused" => gateway[t] = "none"
               /\ job[a].answer = "paid" => gateway[t] = "paid"

(* No two handlers are at the same refund, or at the same linked return.   *)
Apart ==
    \A a, c \in Agents : a # c /\ job[a].ticket = job[c].ticket =>
        ~(Submits(a) /\ Submits(c)) /\ ~(Links(a) /\ Links(c))

(* Goods are returned of an order that was delivered.                      *)
OrderFits == status # "DELIVERED" => \A r \in Requests : returns[r].status = "NONE"

ProtocolInv ==
    /\ TypeInv
    /\ \A t \in Tickets : TicketFits(t) /\ GatewayFits(t)
    /\ \A a \in Agents : JobFits(a)
    /\ Apart
    /\ OrderFits

(* An order that was delivered stays so, and its method is what it is.     *)
OrderGoesOn == method' = method /\ (status = "DELIVERED" => status' = "DELIVERED")

(* A step is judged by the tickets T and the handlers A that it changes,   *)
(* and by the other handlers that are at one of these tickets.             *)
LEMMA ProtocolStep ==
    ASSUME ProtocolInv, TypeInv', OrderFits', OrderGoesOn, NEW T, NEW A,
           \A u \in Tickets \ T : resolution'[u] = resolution[u] /\ gateway'[u] = gateway[u],
           \A u \in Tickets \cap T : TicketFits(u)' /\ GatewayFits(u)',
           \A c \in Agents \ A : job'[c] = job[c],
           \A c \in Agents : c \in A \/ job[c].ticket \in T => JobFits(c)',
           \A c \in Agents \cap A, d \in Agents : c # d /\ job'[c].ticket = job'[d].ticket =>
               ~(Submits(c)' /\ Submits(d)') /\ ~(Links(c)' /\ Links(d)')
    PROVE  ProtocolInv'
<1>1. ASSUME NEW u \in Tickets
      PROVE  TicketFits(u)' /\ GatewayFits(u)'
  <2>1. CASE u \in T
    BY <2>1
  <2>2. CASE u \notin T
    BY <2>2 DEF ProtocolInv, TicketFits, GatewayFits, OrderGoesOn
  <2> QED  BY <2>1, <2>2
<1>2. ASSUME NEW c \in Agents
      PROVE  JobFits(c)'
  <2>1. CASE c \in A \/ job[c].ticket \in T
    BY <2>1
  <2>2. CASE c \notin A /\ job[c].ticket \notin T
    <3>1. job'[c] = job[c] /\ JobFits(c)
      BY <2>2 DEF ProtocolInv
    <3>2. job[c].ticket \in Tickets =>
              /\ resolution'[job[c].ticket] = resolution[job[c].ticket]
              /\ gateway'[job[c].ticket] = gateway[job[c].ticket]
      BY <2>2
    <3> QED  BY <3>1, <3>2 DEF JobFits, Links, OrderGoesOn
  <2> QED  BY <2>1, <2>2
<1>3. Apart'
  <2> SUFFICES ASSUME NEW c \in Agents, NEW d \in Agents, c # d, job'[c].ticket = job'[d].ticket
               PROVE  ~(Submits(c)' /\ Submits(d)') /\ ~(Links(c)' /\ Links(d)')
    BY DEF Apart, Submits, Links
  <2>1. CASE c \in A \/ d \in A
    BY <2>1
  <2>2. CASE c \notin A /\ d \notin A
    BY <2>2 DEF ProtocolInv, Apart, Submits, Links
  <2> QED  BY <2>1, <2>2
<1> QED  BY <1>1, <1>2, <1>3 DEF ProtocolInv

-----------------------------------------------------------------------------
(* Types.                                                                  *)

(* A product of natural numbers is one.                                    *)
LEMMA Products == ASSUME NEW m \in Nat, NEW n \in Nat PROVE m * n \in Nat
  OBVIOUS

(* The value of goods is a natural number.                                 *)
LEMMA GrossType == ASSUME NEW items \in Lines PROVE Gross(items) \in Nat
<1> DEFINE value == [b \in Books |-> Price[b] * items[b]]
<1>1. \A b \in Books : value[b] \in Nat
  BY Products, OrderAssumption DEF Lines
<1>2. IsFiniteSet(Books)
  BY OrderAssumption
<1> HIDE DEF value
<1>3. Total(Books, value) \in Nat
  BY <1>1, <1>2, TotalIsNat
<1> QED
  BY <1>3 DEF Gross, value

(* The order costs something, and more than its delivery.                  *)
LEMMA TotalAmountType == Subtotal \in Nat \ {0} /\ TotalAmount \in Nat \ {0}
<1>1. Qty \in Lines
  BY OrderAssumption DEF Lines
<1>2. Subtotal \in Nat
  BY <1>1, GrossType DEF Subtotal
<1> QED
  BY <1>2, OrderAssumption DEF TotalAmount

(* What the customer and staff may ask for.                                *)
LEMMA BasketType == \A items \in Baskets : items \in Lines
<1>1. UNION {0..Qty[b] : b \in Books} \subseteq Nat
  OBVIOUS
<1> QED
  BY <1>1 DEF Baskets, Lines

(* The amounts that are computed are natural numbers.                      *)
LEMMA AmountType ==
    ASSUME NEW items \in Lines, refunded \in Int, reservedAmount \in Int
    PROVE  /\ calculateRefundAmount(items) \in Nat /\ Headroom \in Nat
           /\ \A t, type : RefundAmount(t, type, items) \in Nat
<1> DEFINE off == RoundedQuotient(Discount * Gross(items), Subtotal)
<1>1. Gross(items) \in Nat /\ Subtotal \in Nat \ {0} /\ TotalAmount \in Nat \ {0}
  BY GrossType, TotalAmountType
<1>2. Discount * Gross(items) \in Nat
  BY <1>1, Products, OrderAssumption
<1>3. off \in Int
  BY <1>1, <1>2 DEF RoundedQuotient
<1>4. calculateRefundAmount(items) = IF items = Qty THEN TotalAmount
                                     ELSE Larger(0, Gross(items) - off)
  BY DEF calculateRefundAmount
<1> HIDE DEF off
<1>5. calculateRefundAmount(items) \in Nat
  BY <1>1, <1>3, <1>4 DEF Larger
<1>6. Headroom \in Nat
  BY <1>1 DEF Headroom, Larger
<1> QED
  BY <1>5, <1>6 DEF RefundAmount, lostRefundAmount

(* The records that a step puts in place are of their kinds.               *)
LEMMA RecordTypes ==
    /\ Nothing \in Lines /\ Idle \in Job
    /\ NoReturn \in ReturnRecord /\ NoResolution \in Resolution
  BY DEF Nothing, Lines, Idle, Job, Places, Answers, NoReturn, ReturnRecord, ReturnStatuses,
         NoResolution, Resolution, TicketStatuses

(* A step of a handler, and the end of its job.                            *)
LEMMA JobType ==
    ASSUME job \in [Handlers -> Job]
    PROVE  /\ \A a : finish(a) => job' \in [Handlers -> Job]
           /\ \A a, pc : pc \in Places /\ goto(a, pc) => job' \in [Handlers -> Job]
<1>1. \A a : finish(a) => job' \in [Handlers -> Job]
  BY RecordTypes DEF finish
<1>2. ASSUME NEW a, NEW pc, pc \in Places, goto(a, pc)
      PROVE  job' \in [Handlers -> Job]
  <2>1. \A c \in Handlers : [job[c] EXCEPT !.pc = pc] \in Job
    BY <1>2 DEF Job
  <2> QED  BY <1>2, <2>1 DEF goto
<1> QED  BY <1>1, <1>2

(* A ticket's status is overwritten.                                       *)
LEMMA StatusType ==
    ASSUME resolution \in [Tickets -> Resolution], NEW t, NEW new \in TicketStatuses,
           resolution' = [resolution EXCEPT ![t].status = new]
    PROVE  resolution' \in [Tickets -> Resolution]
  BY DEF Resolution

(* The linked tickets follow.                                              *)
LEMMA SyncType ==
    ASSUME resolution \in [Tickets -> Resolution], NEW r, syncLinkedTicket(r)
    PROVE  resolution' \in [Tickets -> Resolution]
<1>1. "RETURN_COMPLETED" \in TicketStatuses
  BY DEF TicketStatuses, LinkStatuses
<1>2. \A t \in Tickets : [resolution[t] EXCEPT !.status = "RETURN_COMPLETED"] \in Resolution
  BY <1>1 DEF Resolution
<1> QED
  BY <1>2 DEF syncLinkedTicket

(* A new resolution takes over the ticket.                                 *)
LEMMA ResolveType ==
    ASSUME resolution \in [Tickets -> Resolution], job \in [Handlers -> Job],
           NEW a \in Handlers, NEW new \in TicketStatuses, resolve(a, new)
    PROVE  resolution' \in [Tickets -> Resolution]
<1>1. job[a] \in Job
  OBVIOUS
<1>2. [NoResolution EXCEPT !.type = job[a].type, !.status = new, !.items = job[a].items,
                           !.amount = job[a].amount] \in Resolution
  BY <1>1 DEF Job, NoResolution, Resolution
<1> QED
  BY <1>2 DEF resolve

(* The statuses a ticket goes through.                                     *)
LEMMA StatusNames ==
    TicketStatuses = {"NONE", "INITIATING", "RETURNING", "RETURN_COMPLETED", "FAILED",
                      "PREPARING", "SHIPPED", "DELIVERED", "CANCELLED",
                      "REFUND_PENDING", "REFUND_PROCESSING", "REFUND_MANUAL_REQUIRED",
                      "REFUND_COMPLETED", "REFUND_FAILED"}
  BY DEF TicketStatuses, LinkStatuses, ReshipStatuses, RefundStatuses, OpenRefund

(* Settling and releasing a refund.                                        *)
LEMMA SettleType ==
    ASSUME TypeInv, NEW t \in Tickets, settle(t) \/ release(t) \/ moveToManualRefund(t)
    PROVE  /\ status' \in {"SHIPPED", "DELIVERED", "REFUNDED"}
           /\ refunded' \in Int /\ reservedAmount' \in Int
           /\ resolution' \in [Tickets -> Resolution]
<1>1. resolution[t] \in Resolution /\ resolution[t].amount \in Nat
  BY DEF TypeInv, Resolution
<1>2. CASE settle(t)
  <2>1. [resolution[t] EXCEPT !.status = "REFUND_COMPLETED"] \in Resolution
    BY <1>1, StatusNames DEF Resolution
  <2>2. resolution' \in [Tickets -> Resolution]
    BY <1>2, <1>1, StatusNames DEF settle, TypeInv, Resolution
  <2> QED  BY <1>1, <1>2, <2>2 DEF settle, TypeInv
<1>3. CASE release(t)
  <2>1. resolution' \in [Tickets -> Resolution]
    BY <1>3, StatusType, StatusNames DEF release, TypeInv
  <2> QED  BY <1>1, <1>3, <2>1 DEF release, TypeInv
<1>4. CASE moveToManualRefund(t)
  BY <1>4, StatusType, StatusNames DEF moveToManualRefund, moneyVars, TypeInv
<1> QED  BY <1>2, <1>3, <1>4

(* A return request's status is overwritten.                               *)
LEMMA ReturnType ==
    ASSUME returns \in [Requests -> ReturnRecord], NEW r, NEW new \in ReturnStatuses,
           returns' = [returns EXCEPT ![r].status = new]
    PROVE  returns' \in [Requests -> ReturnRecord]
  BY DEF ReturnRecord

(* Return requests keep the types.                                         *)
LEMMA ReturnsType ==
    ASSUME TypeInv, NEW r \in Requests,
           \/ \E items \in Baskets : ask(r, items)
           \/ \E verdict \in {"RETURNING", "REJECTED"} : answer(r, verdict)
           \/ \E restock \in Restocked : receiveReturnRequest(r, restock)
           \/ closeReturnAndTicket(r)
           \/ \E a \in Agents : executeReturnRefund(a, r)
    PROVE  TypeInv'
<1>1. ASSUME NEW items \in Baskets, ask(r, items)
      PROVE  TypeInv'
  <2>1. [status |-> "PENDING", items |-> items, amount |-> 0] \in ReturnRecord
    BY BasketType DEF ReturnRecord, ReturnStatuses
  <2>2. returns' \in [Requests -> ReturnRecord]
    BY <1>1, <2>1 DEF ask, createReturnRequest, TypeInv
  <2> QED  BY <1>1, <2>2 DEF ask, moneyVars, gatewayVars, mistakeVars, TypeInv
<1>2. ASSUME NEW verdict \in {"RETURNING", "REJECTED"}, answer(r, verdict)
      PROVE  TypeInv'
  <2>1. returns' \in [Requests -> ReturnRecord]
    BY <1>2, ReturnType DEF answer, resolveReturnRequest, ReturnStatuses, TypeInv
  <2> QED  BY <1>2, <2>1 DEF answer, moneyVars, gatewayVars, mistakeVars, TypeInv
<1>3. ASSUME NEW restock \in Restocked, receiveReturnRequest(r, restock)
      PROVE  TypeInv'
  <2> DEFINE amount == Smaller(calculateRefundAmount(returns[r].items), Headroom)
             new == IF amount = 0 THEN "CLOSED" ELSE "RECEIVED"
  <2>1. amount \in Nat
    <3>1. returns[r].items \in Lines
      BY DEF TypeInv, ReturnRecord
    <3> QED  BY <3>1, AmountType DEF Smaller, TypeInv
  <2>2. new \in ReturnStatuses
    BY DEF ReturnStatuses
  <2>3. /\ reservedAmount' = reservedAmount + amount
        /\ returns' = [returns EXCEPT ![r].status = new, ![r].amount = amount]
        /\ resolution' = resolution \/ syncLinkedTicket(r)
        /\ UNCHANGED <<method, status, refunded, gateway, paidOut, writtenOff, job>>
    BY <1>3 DEF receiveReturnRequest, gatewayVars, mistakeVars
  <2> HIDE DEF amount, new
  <2>4. returns' \in [Requests -> ReturnRecord]
    BY <2>1, <2>2, <2>3 DEF TypeInv, ReturnRecord
  <2>5. resolution' \in [Tickets -> Resolution]
    BY <2>3, SyncType DEF TypeInv
  <2> QED  BY <2>1, <2>3, <2>4, <2>5 DEF TypeInv
<1>4. ASSUME closeReturn(r)
      PROVE  /\ returns' \in [Requests -> ReturnRecord]
             /\ refunded' \in Int /\ reservedAmount' \in Int /\ paidOut' \in Int
  <2>1. returns' \in [Requests -> ReturnRecord]
    BY <1>4, ReturnType DEF closeReturn, ReturnStatuses, TypeInv
  <2>2. returns[r].amount \in Nat
    BY DEF TypeInv, ReturnRecord
  <2> QED  BY <1>4, <2>1, <2>2 DEF closeReturn, TypeInv
<1>5. CASE closeReturnAndTicket(r)
  BY <1>4, <1>5, SyncType DEF closeReturnAndTicket, mistakeVars, TypeInv
<1>6. ASSUME NEW a \in Agents, executeReturnRefund(a, r)
      PROVE  TypeInv'
  <2>1. [Idle EXCEPT !.pc = "sync", !.req = r] \in Job
    BY RecordTypes DEF Job, Places
  <2>2. job' \in [Handlers -> Job]
    BY <1>6, <2>1 DEF executeReturnRefund, TypeInv
  <2> QED  BY <1>4, <1>6, <2>2 DEF executeReturnRefund, mistakeVars, TypeInv
<1> QED  BY <1>1, <1>2, <1>3, <1>5, <1>6

(* Staff's requests, and the handlers at work on them, keep the types.     *)
LEMMA HandlersType ==
    ASSUME TypeInv, NEW a \in Agents, JobFits(a),
           \/ Staff(a) \/ (Handler(a) /\ ~\E r \in Requests : executeReturnRefund(a, r))
           \/ crash(a)
    PROVE  TypeInv'
<1> USE DEF moneyVars, gatewayVars, mistakeVars
<1>0. a \in Handlers /\ job[a] \in Job /\ job[a].ticket \in Tickets \cup {NoTicket}
  BY DEF Handlers, TypeInv, Job
<1>1. ASSUME NEW t \in Tickets, NEW type \in Types, NEW items \in Baskets,
             createResolution(a, t, type, items)
      PROVE  TypeInv'
  <2> DEFINE amount == IF type \in RefundTypes THEN RefundAmount(t, type, items) ELSE 0
  <2>1. amount \in Nat
    BY AmountType, BasketType DEF TypeInv
  <2>2. job' = [job EXCEPT ![a] = [Idle EXCEPT !.pc = FirstStep(type), !.ticket = t,
                                     !.type = type, !.items = items, !.amount = amount]]
    BY <1>1 DEF createResolution
  <2> HIDE DEF amount
  <2>3. FirstStep(type) \in Places
    BY DEF FirstStep, Places
  <2>4. [Idle EXCEPT !.pc = FirstStep(type), !.ticket = t, !.type = type, !.items = items,
                     !.amount = amount] \in Job
    BY <2>1, <2>3, BasketType, RecordTypes DEF Job
  <2>5. job' \in [Handlers -> Job]
    BY <2>2, <2>4 DEF TypeInv
  <2> QED  BY <1>1, <2>5 DEF createResolution, TypeInv
<1>2. ASSUME NEW t \in Tickets, bookReship(a, t)
      PROVE  TypeInv'
  <2>1. [Idle EXCEPT !.pc = "dispatch", !.ticket = t] \in Job
    BY RecordTypes DEF Job, Places
  <2>2. job' \in [Handlers -> Job]
    BY <1>2, <2>1 DEF bookReship, TypeInv
  <2> QED  BY <1>2, <2>2 DEF bookReship, TypeInv
<1>3. ASSUME NEW r \in Requests, createLinkedReturn(a, r)
      PROVE  TypeInv'
  <2>1. [status |-> "PENDING", items |-> job[a].items, amount |-> 0] \in ReturnRecord
    BY <1>0 DEF ReturnRecord, ReturnStatuses, Job
  <2>2. returns' \in [Requests -> ReturnRecord]
    BY <1>3, <2>1 DEF createLinkedReturn, createReturnRequest, TypeInv
  <2>3. [job[a] EXCEPT !.pc = "approve", !.req = r] \in Job
    BY <1>0 DEF Job, Places
  <2>4. job' \in [Handlers -> Job]
    BY <1>3, <2>3, <1>0 DEF createLinkedReturn, TypeInv, Job
  <2> QED  BY <1>3, <2>2, <2>4 DEF createLinkedReturn, TypeInv
<1>4. CASE syncAfterRefund(a)
  BY <1>4, SyncType, JobType DEF syncAfterRefund, TypeInv
<1>5. CASE reserveRefundAndResolution(a)
  <2>1. job[a].amount \in Nat
    BY <1>0 DEF Job
  <2>2. resolution' \in [Tickets -> Resolution]
    BY <1>5, <1>0, ResolveType, StatusNames DEF reserveRefundAndResolution, TypeInv
  <2>3. job' \in [Handlers -> Job]
    BY <1>5, JobType DEF reserveRefundAndResolution, TypeInv, Places
  <2>4. gateway' \in [Tickets -> GatewayStates]
    BY <1>5 DEF reserveRefundAndResolution, forgetRefund, TypeInv, GatewayStates
  <2>5. reservedAmount' = reservedAmount + job[a].amount
    BY <1>5 DEF reserveRefundAndResolution
  <2>6. UNCHANGED <<method, status, refunded, returns, paidOut, writtenOff>>
    BY <1>5 DEF reserveRefundAndResolution, forgetRefund
  <2> QED  BY <2>1, <2>2, <2>3, <2>4, <2>5, <2>6 DEF TypeInv
<1>6. CASE submit(a)
  <2>1. job[a].amount \in Nat
    BY <1>0 DEF Job
  <2>2. gateway' \in [Tickets -> GatewayStates] /\ paidOut' \in Int
    <3>1. PICK effect \in {"none", "pending", "paid"} :
              /\ gateway' = [gateway EXCEPT ![job[a].ticket] = effect]
              /\ paidOut' = IF effect = "paid" THEN paidOut + job[a].amount ELSE paidOut
      BY <1>6 DEF submit
    <3>2. effect \in GatewayStates
      BY DEF GatewayStates
    <3>3. gateway' \in [Tickets -> GatewayStates]
      BY <3>1, <3>2 DEF TypeInv
    <3> QED  BY <2>1, <3>1, <3>3 DEF TypeInv
  <2>3. PICK effect \in {"none", "pending", "paid"}, heard \in BOOLEAN :
            job' = [job EXCEPT ![a].pc = "record",
                               ![a].answer = IF ~heard THEN "unknown"
                                             ELSE IF effect = "none" THEN "refused" ELSE effect]
    BY <1>6 DEF submit
  <2>4. \A said \in Answers : [job[a] EXCEPT !.pc = "record", !.answer = said] \in Job
    BY <1>0 DEF Job, Places
  <2>5. job' = [job EXCEPT ![a] = [job[a] EXCEPT
                    !.pc = "record",
                    !.answer = IF ~heard THEN "unknown"
                               ELSE IF effect = "none" THEN "refused" ELSE effect]]
    BY <2>3, <1>0 DEF TypeInv
  <2>6. job' \in [Handlers -> Job]
    BY <2>4, <2>5 DEF TypeInv, Answers
  <2> QED  BY <1>6, <2>2, <2>6 DEF submit, TypeInv
<1>7. CASE recordAnswer(a)
  <2>1. job' \in [Handlers -> Job]
    BY <1>7, JobType DEF recordAnswer, TypeInv
  <2>2. job[a].ticket \in Tickets
    BY <1>7 DEF JobFits, recordAnswer, at
  <2>3. \/ settle(job[a].ticket) \/ release(job[a].ticket)
        \/ /\ UNCHANGED <<status, moneyVars>>
           /\ \/ UNCHANGED resolution
              \/ resolution' = [resolution EXCEPT
                     ![job[a].ticket].status = "REFUND_PROCESSING"]
    BY <1>7 DEF recordAnswer
  <2>4. /\ status' \in {"SHIPPED", "DELIVERED", "REFUNDED"}
        /\ refunded' \in Int /\ reservedAmount' \in Int
        /\ resolution' \in [Tickets -> Resolution]
    <3>1. CASE settle(job[a].ticket) \/ release(job[a].ticket)
      BY <2>2, <3>1, SettleType
    <3>2. CASE /\ UNCHANGED <<status, moneyVars>>
               /\ resolution' = [resolution EXCEPT
                     ![job[a].ticket].status = "REFUND_PROCESSING"]
      <4>1. resolution' \in [Tickets -> Resolution]
        BY <2>2, <3>2, StatusType, StatusNames DEF TypeInv
      <4> QED  BY <3>2, <4>1 DEF TypeInv
    <3> QED  BY <2>3, <3>1, <3>2 DEF TypeInv
  <2> QED  BY <1>7, <2>1, <2>4 DEF recordAnswer, TypeInv
<1>8. CASE prepareReship(a)
  <2>1. resolution' \in [Tickets -> Resolution]
    BY <1>8, <1>0, ResolveType, StatusNames DEF prepareReship, TypeInv
  <2> QED  BY <1>8, <2>1, JobType DEF prepareReship, TypeInv
<1>9. CASE dispatchReship(a)
  <2>1. resolution' \in [Tickets -> Resolution]
    BY <1>9, StatusType, StatusNames DEF dispatchReship, TypeInv
  <2> QED  BY <1>9, <2>1, JobType DEF dispatchReship, TypeInv
<1>10. CASE initializeResolution(a)
  <2>1. resolution' \in [Tickets -> Resolution]
    BY <1>10, <1>0, ResolveType, StatusNames DEF initializeResolution, TypeInv
  <2>2. gateway' \in [Tickets -> GatewayStates] /\ UNCHANGED <<paidOut, writtenOff>>
    BY <1>10 DEF initializeResolution, forgetRefund, TypeInv, GatewayStates
  <2> QED  BY <1>10, <2>1, <2>2, JobType DEF initializeResolution, TypeInv, Places
<1>11. CASE approveLinkedReturn(a)
  <2>1. returns' \in [Requests -> ReturnRecord]
    BY <1>11, ReturnType DEF approveLinkedReturn, resolveReturnRequest, ReturnStatuses, TypeInv
  <2> QED  BY <1>11, <2>1, JobType DEF approveLinkedReturn, TypeInv, Places
<1>12. CASE linkReturn(a)
  <2>1. job[a].req \in Requests \cup {NoRequest}
    BY <1>0 DEF Job
  <2>2. resolution[job[a].ticket] \in Resolution
    BY <1>12 DEF linkReturn, at, JobFits, TypeInv
  <2>3. PICK outcome \in {"RETURNING", "FAILED"} :
            resolution' = [resolution EXCEPT
                ![job[a].ticket] = [resolution[job[a].ticket] EXCEPT !.status = outcome,
                                                                     !.req = job[a].req]]
    BY <1>12 DEF linkReturn
  <2>4. [resolution[job[a].ticket] EXCEPT !.status = outcome, !.req = job[a].req] \in Resolution
    <3>1. outcome \in TicketStatuses
      BY StatusNames
    <3> QED  BY <2>1, <2>2, <3>1 DEF Resolution
  <2>5. resolution' \in [Tickets -> Resolution]
    BY <2>3, <2>4 DEF TypeInv
  <2> QED  BY <1>12, <2>5, JobType DEF linkReturn, TypeInv
<1>13. CASE giveUp(a)
  <2>1. resolution' \in [Tickets -> Resolution]
    BY <1>13, StatusType, StatusNames DEF giveUp, TypeInv
  <2> QED  BY <1>13, <2>1, JobType DEF giveUp, TypeInv
<1>14. CASE refuse(a) \/ crash(a)
  BY <1>14, JobType DEF refuse, crash, TypeInv
<1> QED
  BY <1>1, <1>2, <1>3, <1>4, <1>5, <1>6, <1>7, <1>8, <1>9, <1>10, <1>11, <1>12, <1>13, <1>14
  DEF Staff, Handler

(* What a verdict can come to: a refund given up that the bank will not    *)
(* pay, one that it has paid or may pay, a refund recorded as paid, or one *)
(* handed over to staff.                                                   *)
ReleasedUnpaid(t) == /\ release(t) /\ gateway[t] \notin {"pending", "paid"}
                     /\ UNCHANGED <<gateway, paidOut, writtenOff>>
Disowned(t) ==
    /\ release(t) /\ gateway[t] \in {"pending", "paid"}
    /\ gateway' = [gateway EXCEPT ![t] = "disowned"]
    /\ paidOut' = IF gateway[t] = "pending" THEN paidOut + resolution[t].amount ELSE paidOut
    /\ writtenOff' = writtenOff + resolution[t].amount
Recorded(t) == settle(t) /\ UNCHANGED <<gateway, paidOut, writtenOff>>
HandedOver(t) == /\ method # "VNPAY" /\ moveToManualRefund(t)
                 /\ UNCHANGED <<gateway, paidOut, writtenOff>>

(* Those four.                                                             *)
LEMMA Verdicts ==
    ASSUME NEW t, reconcileProcessingRefund(t)
    PROVE  ReleasedUnpaid(t) \/ Disowned(t) \/ Recorded(t) \/ HandedOver(t)
<1>1. ASSUME takeVerdict(t, Query(t)), UNCHANGED <<gateway, paidOut, writtenOff>>
      PROVE  ReleasedUnpaid(t) \/ Recorded(t) \/ HandedOver(t)
  BY <1>1 DEF takeVerdict, settleProcessingRefund, Query, ReleasedUnpaid, Recorded, HandedOver
<1>2. ASSUME NEW verdict, mistakeVerdict(t, verdict)
      PROVE  ReleasedUnpaid(t) \/ Disowned(t) \/ Recorded(t) \/ HandedOver(t)
  BY <1>2 DEF mistakeVerdict, takeVerdict, settleProcessingRefund, ReleasedUnpaid, Disowned,
     Recorded, HandedOver
<1> QED  BY <1>1, <1>2 DEF reconcileProcessingRefund

(* The desk, the couriers, the bank and the refund job keep the types.     *)
LEMMA OthersType ==
    ASSUME TypeInv,
           \/ \E c \in Couriers : Courier(c)
           \/ \E t \in Tickets : cancelReship(t) \/ deliverReship(t) \/ Refunds(t)
    PROVE  TypeInv'
<1> USE DEF moneyVars, gatewayVars, mistakeVars
<1>1. ASSUME NEW c \in Couriers, Courier(c)
      PROVE  TypeInv'
  <2>1. job' \in [Handlers -> Job]
    BY <1>1, JobType DEF Courier, checkDelivery, adminMarkDelivered, TypeInv, Places
  <2> QED
    BY <1>1, <2>1 DEF Courier, checkDelivery, adminMarkDelivered, becomeDelivered, TypeInv
<1>2. ASSUME NEW t \in Tickets, cancelReship(t) \/ deliverReship(t)
      PROVE  TypeInv'
  <2>1. resolution' \in [Tickets -> Resolution]
    BY <1>2, StatusType, StatusNames DEF cancelReship, deliverReship, TypeInv
  <2> QED
    BY <1>2, <2>1 DEF cancelReship, deliverReship, becomeDelivered, TypeInv
<1>3. ASSUME NEW t \in Tickets, recoverStaleRefundPending(t) \/ bankDecides(t)
      PROVE  TypeInv'
  <2>1. resolution' \in [Tickets -> Resolution]
    BY <1>3, StatusType, StatusNames DEF recoverStaleRefundPending, bankDecides, TypeInv
  <2>2. gateway' \in [Tickets -> GatewayStates]
    BY <1>3 DEF recoverStaleRefundPending, bankDecides, TypeInv, GatewayStates
  <2>3. resolution[t].amount \in Nat
    BY DEF TypeInv, Resolution
  <2>4. paidOut' \in Int
    BY <1>3, <2>3 DEF recoverStaleRefundPending, bankDecides, TypeInv
  <2> QED
    BY <1>3, <2>1, <2>2, <2>4 DEF recoverStaleRefundPending, bankDecides, TypeInv
<1>4. ASSUME NEW t \in Tickets, reconcileProcessingRefund(t)
      PROVE  TypeInv'
  <2>1. settle(t) \/ release(t) \/ moveToManualRefund(t)
    BY <1>4, Verdicts DEF ReleasedUnpaid, Disowned, Recorded, HandedOver
  <2>2. /\ gateway' \in [Tickets -> GatewayStates] /\ paidOut' \in Int /\ writtenOff' \in Int
    <3>1. resolution[t].amount \in Nat
      BY DEF TypeInv, Resolution
    <3>2. CASE ReleasedUnpaid(t) \/ Recorded(t) \/ HandedOver(t)
      BY <3>2 DEF ReleasedUnpaid, Recorded, HandedOver, TypeInv
    <3>3. CASE Disowned(t)
      BY <3>1, <3>3 DEF Disowned, TypeInv, GatewayStates
    <3> QED  BY <1>4, <3>2, <3>3, Verdicts
  <2> QED  BY <1>4, <2>1, <2>2, SettleType DEF reconcileProcessingRefund, TypeInv
<1>5. ASSUME NEW t \in Tickets, completeManualRefund(t)
      PROVE  TypeInv'
  <2>1. resolution[t].amount \in Nat
    BY DEF TypeInv, Resolution
  <2>2. paidOut' \in Int
    BY <1>5, <2>1 DEF completeManualRefund, TypeInv
  <2>3. settle(t)
    BY <1>5 DEF completeManualRefund
  <2> QED  BY <1>5, <2>2, <2>3, SettleType DEF completeManualRefund, TypeInv
<1> QED
  BY <1>1, <1>2, <1>3, <1>4, <1>5 DEF Refunds

(* The five ways the state moves.                                          *)
LEMMA Moves ==
    ASSUME Next
    PROVE  \/ \E r \in Requests :
                  \/ \E items \in Baskets : ask(r, items)
                  \/ \E verdict \in {"RETURNING", "REJECTED"} : answer(r, verdict)
                  \/ \E restock \in Restocked : receiveReturnRequest(r, restock)
                  \/ closeReturnAndTicket(r)
                  \/ \E a \in Agents : executeReturnRefund(a, r)
           \/ \E a \in Agents :
                  \/ Staff(a) \/ (Handler(a) /\ ~\E r \in Requests : executeReturnRefund(a, r))
                  \/ crash(a)
           \/ \E c \in Couriers : Courier(c)
           \/ \E t \in Tickets : cancelReship(t) \/ deliverReship(t) \/ Refunds(t)
  BY DEF Next, Customer, Desk, Handler

(* Every step keeps the types.                                             *)
LEMMA TypeNext == ASSUME TypeInv, \A a \in Agents : JobFits(a), Next PROVE TypeInv'
  BY Moves, ReturnsType, HandlersType, OthersType

-----------------------------------------------------------------------------
(* The protocol is kept.                                                   *)

(* Staff who decide, a transaction that throws and a process that dies     *)
(* leave everything but the handler's own job as it was.                   *)
LEMMA OnlyItsJob ==
    ASSUME NEW a, Staff(a) \/ refuse(a) \/ crash(a)
    PROVE  /\ UNCHANGED <<method, status, refunded, reservedAmount, earned, clawed, givenBack>>
           /\ UNCHANGED <<returns, resolution, gateway, paidOut, writtenOff>>
           /\ UNCHANGED stockVars
<1> USE DEF moneyVars, pointVars, gatewayVars, mistakeVars
<1>1. ASSUME NEW t \in Tickets, NEW type \in Types, NEW items \in Baskets,
             createResolution(a, t, type, items)
      PROVE  UNCHANGED <<method, status, moneyVars, pointVars, returns, resolution, gatewayVars,
                         stockVars>>
  BY <1>1 DEF createResolution
<1>2. ASSUME NEW t \in Tickets, bookReship(a, t)
      PROVE  UNCHANGED <<method, status, moneyVars, pointVars, returns, resolution, gatewayVars,
                         stockVars>>
  BY <1>2 DEF bookReship
<1>3. CASE refuse(a) \/ crash(a)
  BY <1>3 DEF refuse, crash
<1> QED  BY <1>1, <1>2, <1>3 DEF Staff

(* No step takes an order back, and requests for a return are made of      *)
(* delivered orders.                                                       *)
LEMMA OrderNext == ASSUME TypeInv, OrderFits, Next PROVE OrderGoesOn /\ OrderFits'
<1> USE DEF OrderGoesOn, OrderFits
<1>1. ASSUME NEW r \in Requests,
             \/ \E items \in Baskets : ask(r, items)
             \/ \E verdict \in {"RETURNING", "REJECTED"} : answer(r, verdict)
             \/ \E restock \in Restocked : receiveReturnRequest(r, restock)
             \/ closeReturnAndTicket(r)
             \/ \E a \in Agents : executeReturnRefund(a, r)
      PROVE  OrderGoesOn /\ OrderFits'
  <2>1. status = "DELIVERED"
    BY <1>1 DEF ask, createReturnRequest, ReturnEligible, answer, resolveReturnRequest,
                receiveReturnRequest, closeReturnAndTicket, executeReturnRefund, closeReturn
  <2>2. method' = method /\ status' = status
    BY <1>1 DEF ask, answer, receiveReturnRequest, closeReturnAndTicket, executeReturnRefund
  <2> QED  BY <2>1, <2>2
<1>2. ASSUME NEW a \in Agents,
             \/ Staff(a) \/ (Handler(a) /\ ~\E r \in Requests : executeReturnRefund(a, r))
             \/ crash(a)
      PROVE  OrderGoesOn /\ OrderFits'
  <2>1. CASE Staff(a) \/ crash(a)
    BY <2>1, OnlyItsJob
  <2>2. ASSUME NEW r \in Requests, createLinkedReturn(a, r)
        PROVE  OrderGoesOn /\ OrderFits'
    BY <2>2 DEF createLinkedReturn, createReturnRequest, ReturnEligible
  <2>3. CASE approveLinkedReturn(a)
    <3>1. /\ method' = method /\ status' = status
          /\ returns[job[a].req].status = "PENDING"
          /\ returns' = [returns EXCEPT ![job[a].req].status = "RETURNING"]
      BY <2>3 DEF approveLinkedReturn, resolveReturnRequest
    <3>2. \A r \in Requests : r # job[a].req => returns'[r] = returns[r]
      BY <3>1 DEF TypeInv
    <3> QED  BY <3>1, <3>2
  <2>4. CASE recordAnswer(a)
    BY <2>4 DEF recordAnswer, settle, release, LostOrderPaidBack
  <2>5. CASE \/ syncAfterRefund(a) \/ reserveRefundAndResolution(a) \/ submit(a)
             \/ prepareReship(a) \/ dispatchReship(a) \/ initializeResolution(a)
             \/ linkReturn(a) \/ giveUp(a) \/ refuse(a)
    BY <2>5 DEF syncAfterRefund, reserveRefundAndResolution, submit, prepareReship,
                dispatchReship, initializeResolution, linkReturn, giveUp, refuse
  <2> QED  BY <1>2, <2>1, <2>2, <2>3, <2>4, <2>5 DEF Handler
<1>3. ASSUME NEW c \in Couriers, Courier(c)
      PROVE  OrderGoesOn /\ OrderFits'
  BY <1>3 DEF Courier, checkDelivery, adminMarkDelivered, becomeDelivered
<1>4. ASSUME NEW t \in Tickets, cancelReship(t) \/ deliverReship(t)
      PROVE  OrderGoesOn /\ OrderFits'
  BY <1>4 DEF cancelReship, deliverReship, becomeDelivered
<1>5. ASSUME NEW t \in Tickets, Refunds(t)
      PROVE  OrderGoesOn /\ OrderFits'
  BY <1>5 DEF Refunds, recoverStaleRefundPending, reconcileProcessingRefund, takeVerdict,
              mistakeVerdict, settleProcessingRefund, bankDecides, completeManualRefund, settle,
              release, moveToManualRefund, LostOrderPaidBack
<1> QED  BY Moves, <1>1, <1>2, <1>3, <1>4, <1>5

(* A step of one handler that changes no ticket.                           *)
LEMMA HandlerStep ==
    ASSUME ProtocolInv, TypeInv', OrderFits', OrderGoesOn, NEW a,
           UNCHANGED <<resolution, gateway>>,
           \A c \in Agents \ {a} : job'[c] = job[c],
           a \in Agents => JobFits(a)',
           a \in Agents => \A d \in Agents \ {a} : job'[a].ticket = job[d].ticket =>
               ~(Submits(a)' /\ Submits(d)) /\ ~(Links(a)' /\ Links(d))
    PROVE  ProtocolInv'
<1> DEFINE T == {}
           A == {a}
<1>1. \A u \in Tickets \ T : resolution'[u] = resolution[u] /\ gateway'[u] = gateway[u]
  OBVIOUS
<1>2. \A c \in Agents \ A : job'[c] = job[c]
  OBVIOUS
<1>3. \A c \in Agents : c \in A \/ job[c].ticket \in T => JobFits(c)'
  OBVIOUS
<1>4. \A c \in Agents \cap A, d \in Agents : c # d /\ job'[c].ticket = job'[d].ticket =>
          ~(Submits(c)' /\ Submits(d)') /\ ~(Links(c)' /\ Links(d)')
  BY DEF Submits, Links
<1>5. \A u \in Tickets \cap T : TicketFits(u)' /\ GatewayFits(u)'
  OBVIOUS
<1> HIDE DEF T, A
<1> QED  BY <1>1, <1>2, <1>3, <1>4, <1>5, ProtocolStep

(* A step that changes one ticket and no handler.                          *)
LEMMA TicketStep ==
    ASSUME ProtocolInv, TypeInv', OrderFits', OrderGoesOn, NEW t \in Tickets,
           \A u \in Tickets \ {t} : resolution'[u] = resolution[u] /\ gateway'[u] = gateway[u],
           TicketFits(t)', GatewayFits(t)', job' = job,
           \A c \in Agents : job[c].ticket = t => JobFits(c)'
    PROVE  ProtocolInv'
<1> DEFINE T == {t}
           A == {}
<1>1. \A u \in Tickets \ T : resolution'[u] = resolution[u] /\ gateway'[u] = gateway[u]
  OBVIOUS
<1>2. \A c \in Agents \ A : job'[c] = job[c]
  OBVIOUS
<1>3. \A c \in Agents : c \in A \/ job[c].ticket \in T => JobFits(c)'
  OBVIOUS
<1>4. \A c \in Agents \cap A, d \in Agents : c # d /\ job'[c].ticket = job'[d].ticket =>
          ~(Submits(c)' /\ Submits(d)') /\ ~(Links(c)' /\ Links(d)')
  OBVIOUS
<1>5. \A u \in Tickets \cap T : TicketFits(u)' /\ GatewayFits(u)'
  OBVIOUS
<1> HIDE DEF T, A
<1> QED  BY <1>1, <1>2, <1>3, <1>4, <1>5, ProtocolStep

(* A step of one handler on its ticket.                                    *)
LEMMA HandlerTicketStep ==
    ASSUME ProtocolInv, TypeInv', OrderFits', OrderGoesOn, NEW a \in Agents, NEW t \in Tickets,
           \A u \in Tickets \ {t} : resolution'[u] = resolution[u] /\ gateway'[u] = gateway[u],
           TicketFits(t)', GatewayFits(t)',
           \A c \in Agents \ {a} : job'[c] = job[c],
           JobFits(a)',
           \A c \in Agents \ {a} : job[c].ticket = t => JobFits(c)',
           \A d \in Agents \ {a} : job'[a].ticket = job[d].ticket =>
               ~(Submits(a)' /\ Submits(d)) /\ ~(Links(a)' /\ Links(d))
    PROVE  ProtocolInv'
<1> DEFINE T == {t}
           A == {a}
<1>1. \A u \in Tickets \ T : resolution'[u] = resolution[u] /\ gateway'[u] = gateway[u]
  OBVIOUS
<1>2. \A c \in Agents \ A : job'[c] = job[c]
  OBVIOUS
<1>3. \A c \in Agents : c \in A \/ job[c].ticket \in T => JobFits(c)'
  OBVIOUS
<1>4. \A c \in Agents \cap A, d \in Agents : c # d /\ job'[c].ticket = job'[d].ticket =>
          ~(Submits(c)' /\ Submits(d)') /\ ~(Links(c)' /\ Links(d)')
  BY DEF Submits, Links
<1>5. \A u \in Tickets \cap T : TicketFits(u)' /\ GatewayFits(u)'
  OBVIOUS
<1> HIDE DEF T, A
<1> QED  BY <1>1, <1>2, <1>3, <1>4, <1>5, ProtocolStep

(* A handler that is done fits anything, and is in nobody's way.           *)
LEMMA Done ==
    ASSUME NEW a, job'[a] = Idle
    PROVE  JobFits(a)' /\ ~Submits(a)' /\ ~Links(a)'
  BY DEF JobFits, Idle, Submits, Links

(* What the other handlers rely on is not touched when the ticket was      *)
(* neither being linked nor waiting for the gateway.                       *)
LEMMA OthersFit ==
    ASSUME OrderGoesOn, NEW c, JobFits(c), job'[c] = job[c], NEW t, job[c].ticket = t,
           resolution[t].status \notin {"INITIATING", "REFUND_PENDING"},
           resolution'[t].status # "REFUND_PENDING"
    PROVE  JobFits(c)'
  BY DEF OrderGoesOn, JobFits, Links

(* Nor when the ticket's only worker is another.                           *)
LEMMA OthersApart ==
    ASSUME OrderGoesOn, NEW c, JobFits(c), job'[c] = job[c], ~Submits(c), ~Links(c)
    PROVE  JobFits(c)'
  BY DEF OrderGoesOn, JobFits, Submits, Links

(* The end of a job, and the other handlers.                               *)
LEMMA Finished ==
    ASSUME TypeInv, NEW a \in Handlers, finish(a)
    PROVE  job'[a] = Idle /\ \A c \in Handlers \ {a} : job'[c] = job[c]
  BY DEF finish, TypeInv

(* A handler that goes on.                                                 *)
LEMMA WentOn ==
    ASSUME TypeInv, NEW a \in Handlers, NEW pc, goto(a, pc)
    PROVE  /\ job'[a] = [job[a] EXCEPT !.pc = pc]
           /\ \A c \in Handlers \ {a} : job'[c] = job[c]
  BY DEF goto, TypeInv

(* The linked tickets follow a return that was closed.                     *)
LEMMA SyncFits ==
    ASSUME ProtocolInv, OrderGoesOn, NEW r \in Requests, syncLinkedTicket(r), gateway' = gateway,
           NEW t \in Tickets, resolution[t].type = "RETURN_REFUND", resolution[t].req = r
    PROVE  /\ TicketFits(t)' /\ GatewayFits(t)'
           /\ resolution[t].status \in {"RETURNING", "RETURN_COMPLETED", "FAILED"}
           /\ resolution'[t].status = "RETURN_COMPLETED"
<1>1. resolution[t] \in Resolution /\ resolution[t].status \in TicketStatuses
  BY DEF ProtocolInv, TypeInv, Resolution
<1>2. resolution[t].status \in {"RETURNING", "RETURN_COMPLETED", "FAILED"}
  <2>1. TicketFits(t) /\ r # NoRequest
    BY OrderAssumption DEF ProtocolInv
  <2>2. resolution[t].status \notin ReshipStatuses \cup RefundStatuses
                                     \cup {"NONE", "INITIATING"}
    BY <2>1 DEF TicketFits, ReshipTypes, RefundTypes
  <2> QED  BY <1>1, <2>2 DEF TicketStatuses, LinkStatuses
<1>3. resolution'[t] = [resolution[t] EXCEPT !.status = "RETURN_COMPLETED"]
  BY DEF syncLinkedTicket
<1>4. /\ resolution'[t].status = "RETURN_COMPLETED" /\ resolution'[t].type = "RETURN_REFUND"
  BY <1>1, <1>3 DEF Resolution
<1>5. TicketFits(t)'
  BY <1>4 DEF TicketFits, LinkStatuses, ReshipStatuses, RefundStatuses, OpenRefund
<1>6. GatewayFits(t)'
  <2>1. gateway[t] \notin {"pending", "paid"}
    BY <1>2 DEF ProtocolInv, GatewayFits, OpenRefund
  <2> QED  BY <1>4, <2>1 DEF GatewayFits
<1> QED  BY <1>2, <1>4, <1>5, <1>6

(* Steps that follow a closed return up in its tickets.                    *)
LEMMA SyncStep ==
    ASSUME ProtocolInv, TypeInv', OrderFits', OrderGoesOn, NEW r \in Requests,
           syncLinkedTicket(r), gateway' = gateway, NEW a,
           \A c \in Agents \ {a} : job'[c] = job[c],
           a \in Agents => job'[a] \in {job[a], Idle}
    PROVE  ProtocolInv'
<1> DEFINE T == {t \in Tickets : resolution[t].type = "RETURN_REFUND" /\ resolution[t].req = r}
           A == {c \in Agents : job'[c] = Idle}
<1>1. \A u \in Tickets \ T : resolution'[u] = resolution[u] /\ gateway'[u] = gateway[u]
  BY DEF syncLinkedTicket
<1>2. \A c \in Agents \ A : job'[c] = job[c]
  OBVIOUS
<1>3. \A u \in Tickets \cap T : TicketFits(u)' /\ GatewayFits(u)'
  BY SyncFits
<1>4. \A c \in Agents : c \in A \/ job[c].ticket \in T => JobFits(c)'
  <2> SUFFICES ASSUME NEW c \in Agents, c \in A \/ job[c].ticket \in T
               PROVE  JobFits(c)'
    OBVIOUS
  <2>1. CASE c \in A
    BY <2>1, Done
  <2>2. CASE c \notin A
    <3>1. job'[c] = job[c] /\ JobFits(c) /\ job[c].ticket \in T
      BY <2>2, <1>2 DEF ProtocolInv
    <3>2. /\ resolution[job[c].ticket].status \in {"RETURNING", "RETURN_COMPLETED", "FAILED"}
          /\ resolution'[job[c].ticket].status = "RETURN_COMPLETED"
      BY <3>1, SyncFits
    <3> QED  BY <3>1, <3>2, OthersFit
  <2> QED  BY <2>1, <2>2
<1>5. \A c \in Agents \cap A, d \in Agents : c # d /\ job'[c].ticket = job'[d].ticket =>
          ~(Submits(c)' /\ Submits(d)') /\ ~(Links(c)' /\ Links(d)')
  BY Done
<1> HIDE DEF T, A
<1> QED  BY <1>1, <1>2, <1>3, <1>4, <1>5, ProtocolStep

(* Steps on return requests.                                               *)
LEMMA ReturnsProtocol ==
    ASSUME ProtocolInv, TypeInv', OrderFits', OrderGoesOn, NEW r \in Requests,
           \/ \E items \in Baskets : ask(r, items)
           \/ \E verdict \in {"RETURNING", "REJECTED"} : answer(r, verdict)
           \/ \E restock \in Restocked : receiveReturnRequest(r, restock)
           \/ closeReturnAndTicket(r)
           \/ \E a \in Agents : executeReturnRefund(a, r)
    PROVE  ProtocolInv'
<1> USE DEF gatewayVars
<1>1. CASE \/ \E items \in Baskets : ask(r, items)
           \/ \E verdict \in {"RETURNING", "REJECTED"} : answer(r, verdict)
  <2>1. UNCHANGED <<resolution, gateway, job>>
    BY <1>1 DEF ask, answer
  <2> QED  BY <2>1, HandlerStep DEF ProtocolInv, Apart, Submits, Links, JobFits, OrderGoesOn
<1>2. ASSUME NEW restock \in Restocked, receiveReturnRequest(r, restock)
      PROVE  ProtocolInv'
  <2>1. UNCHANGED <<gateway, job>> /\ (UNCHANGED resolution \/ syncLinkedTicket(r))
    BY <1>2 DEF receiveReturnRequest
  <2>2. CASE syncLinkedTicket(r)
    BY <2>1, <2>2, SyncStep
  <2>3. CASE UNCHANGED resolution
    BY <2>1, <2>3, HandlerStep DEF ProtocolInv, Apart, Submits, Links, JobFits, OrderGoesOn
  <2> QED  BY <2>1, <2>2, <2>3
<1>3. CASE closeReturnAndTicket(r)
  <2>1. UNCHANGED <<gateway, job>> /\ syncLinkedTicket(r)
    BY <1>3 DEF closeReturnAndTicket
  <2> QED  BY <2>1, SyncStep
<1>4. ASSUME NEW a \in Agents, executeReturnRefund(a, r)
      PROVE  ProtocolInv'
  <2>1. /\ UNCHANGED <<resolution, gateway>>
        /\ job' = [job EXCEPT ![a] = [Idle EXCEPT !.pc = "sync", !.req = r]]
    BY <1>4 DEF executeReturnRefund
  <2>2. job'[a] = [Idle EXCEPT !.pc = "sync", !.req = r]
    BY <2>1 DEF ProtocolInv, TypeInv, Handlers
  <2>3. \A c \in Agents \ {a} : job'[c] = job[c]
    BY <2>1 DEF ProtocolInv, TypeInv, Handlers
  <2>4. JobFits(a)' /\ ~Submits(a)' /\ ~Links(a)'
    BY <2>2 DEF JobFits, Idle, Submits, Links
  <2> QED  BY <2>1, <2>3, <2>4, HandlerStep
<1> QED  BY <1>1, <1>2, <1>3, <1>4

(* Steps that begin or drop a job.                                         *)
LEMMA JobsProtocol ==
    ASSUME ProtocolInv, TypeInv', OrderFits', OrderGoesOn, NEW a \in Agents,
           Staff(a) \/ refuse(a) \/ crash(a)
    PROVE  ProtocolInv'
<1> USE DEF gatewayVars
<1>0. a \in Handlers /\ TypeInv
  BY DEF Handlers, ProtocolInv
<1>1. ASSUME NEW t \in Tickets, NEW type \in Types, NEW items \in Baskets,
             createResolution(a, t, type, items)
      PROVE  ProtocolInv'
  <2> DEFINE amount == IF type \in RefundTypes THEN RefundAmount(t, type, items) ELSE 0
  <2>1. /\ UNCHANGED <<resolution, gateway, status>>
        /\ job' = [job EXCEPT ![a] = [Idle EXCEPT !.pc = FirstStep(type), !.ticket = t,
                                        !.type = type, !.items = items, !.amount = amount]]
        /\ type \in RefundTypes => amount > 0
        /\ type \in {"PARTIAL_REFUND", "RESHIP"} => status = "DELIVERED"
    BY <1>1 DEF createResolution, OrderAllows
  <2> HIDE DEF amount
  <2>2. job'[a] = [Idle EXCEPT !.pc = FirstStep(type), !.ticket = t, !.type = type,
                               !.items = items, !.amount = amount]
    BY <2>1, <1>0 DEF TypeInv
  <2>3. \A c \in Agents \ {a} : job'[c] = job[c]
    BY <2>1, <1>0 DEF TypeInv, Handlers
  <2>4. /\ job'[a].pc = FirstStep(type) /\ job'[a].ticket = t /\ job'[a].type = type
        /\ job'[a].amount = amount
    BY <2>2 DEF Idle
  <2>5. /\ FirstStep(type) = "reserve" => type \in RefundTypes
        /\ FirstStep(type) = "prepare" => type \in ReshipTypes
        /\ FirstStep(type) = "initialize" => type = "RETURN_REFUND"
        /\ FirstStep(type) \in {"reserve", "prepare", "initialize"}
    BY DEF FirstStep, Types, LINE_COMPENSATION_TYPES, LOST_IN_TRANSIT_TYPES, RefundTypes,
           ReshipTypes
  <2>6. JobFits(a)' /\ ~Submits(a)' /\ ~Links(a)'
    BY <2>1, <2>4, <2>5 DEF JobFits, Submits, Links
  <2> QED  BY <2>1, <2>3, <2>6, HandlerStep
<1>2. ASSUME NEW t \in Tickets, bookReship(a, t)
      PROVE  ProtocolInv'
  <2>1. /\ UNCHANGED <<resolution, gateway>>
        /\ job' = [job EXCEPT ![a] = [Idle EXCEPT !.pc = "dispatch", !.ticket = t]]
    BY <1>2 DEF bookReship
  <2>2. job'[a] = [Idle EXCEPT !.pc = "dispatch", !.ticket = t]
    BY <2>1, <1>0 DEF TypeInv
  <2>3. \A c \in Agents \ {a} : job'[c] = job[c]
    BY <2>1, <1>0 DEF TypeInv, Handlers
  <2>4. JobFits(a)' /\ ~Submits(a)' /\ ~Links(a)'
    BY <2>2 DEF JobFits, Idle, Submits, Links
  <2> QED  BY <2>1, <2>3, <2>4, HandlerStep
<1>3. CASE refuse(a) \/ crash(a)
  <2>1. UNCHANGED <<resolution, gateway>> /\ finish(a)
    BY <1>3 DEF refuse, crash
  <2> QED  BY <2>1, <1>0, Finished, Done, HandlerStep DEF Handlers
<1> QED  BY <1>1, <1>2, <1>3 DEF Staff

(* Steps of a handler that links a return to its ticket.                   *)
LEMMA LinksProtocol ==
    ASSUME ProtocolInv, TypeInv', OrderFits', OrderGoesOn, NEW a \in Agents,
           \/ \E r \in Requests : createLinkedReturn(a, r)
           \/ approveLinkedReturn(a) \/ linkReturn(a) \/ giveUp(a) \/ initializeResolution(a)
           \/ syncAfterRefund(a)
    PROVE  ProtocolInv'
<1> USE DEF gatewayVars
<1>0. a \in Handlers /\ TypeInv /\ JobFits(a) /\ job[a] \in Job
  BY DEF Handlers, ProtocolInv, TypeInv
<1> SUFFICES ASSUME NEW t, t = job[a].ticket
             PROVE  ProtocolInv'
  OBVIOUS
<1>1. ASSUME NEW r \in Requests, createLinkedReturn(a, r)
      PROVE  ProtocolInv'
  <2>1. /\ UNCHANGED <<resolution, gateway, status, method>> /\ job[a].pc = "create"
        /\ job' = [job EXCEPT ![a].pc = "approve", ![a].req = r]
    BY <1>1 DEF createLinkedReturn, at
  <2>2. job'[a] = [job[a] EXCEPT !.pc = "approve", !.req = r]
    BY <2>1, <1>0 DEF TypeInv
  <2>3. \A c \in Agents \ {a} : job'[c] = job[c]
    BY <2>1, <1>0 DEF TypeInv, Handlers
  <2>4. /\ job'[a].pc = "approve" /\ job'[a].ticket = t /\ job'[a].type = job[a].type
        /\ job'[a].req = r
    BY <2>2, <1>0 DEF Job
  <2>5. JobFits(a)' /\ ~Submits(a)' /\ Links(a)
    BY <2>1, <2>4, <1>0 DEF JobFits, Submits, Links
  <2>6. \A d \in Agents \ {a} : job[d].ticket = t => ~Links(d)
    BY <2>5 DEF ProtocolInv, Apart
  <2> QED  BY <2>1, <2>3, <2>4, <2>5, <2>6, HandlerStep
<1>2. CASE approveLinkedReturn(a)
  <2>1. /\ UNCHANGED <<resolution, gateway, status, method>> /\ job[a].pc = "approve"
        /\ goto(a, "link")
    BY <1>2 DEF approveLinkedReturn, at
  <2>2. /\ job'[a] = [job[a] EXCEPT !.pc = "link"]
        /\ \A c \in Agents \ {a} : job'[c] = job[c]
    BY <2>1, <1>0, WentOn DEF Handlers
  <2>4. /\ job'[a].pc = "link" /\ job'[a].ticket = t /\ job'[a].type = job[a].type
        /\ job'[a].req = job[a].req
    BY <2>2, <1>0 DEF Job
  <2>5. JobFits(a)' /\ ~Submits(a)' /\ Links(a)
    BY <2>1, <2>4, <1>0 DEF JobFits, Submits, Links
  <2>6. \A d \in Agents \ {a} : job[d].ticket = t => ~Links(d)
    BY <2>5 DEF ProtocolInv, Apart
  <2> QED  BY <2>1, <2>2, <2>4, <2>5, <2>6, HandlerStep
<1>3. CASE linkReturn(a) \/ giveUp(a)
  <2>1. Links(a) /\ finish(a) /\ gateway' = gateway
    BY <1>3 DEF linkReturn, giveUp, at, Links
  <2>2. t \in Tickets /\ resolution[t].status = "INITIATING" /\ resolution[t] \in Resolution
    BY <2>1, <1>0 DEF JobFits, Links, TypeInv
  <2>3. /\ resolution'[t].status \in {"RETURNING", "FAILED"}
        /\ resolution'[t].type = resolution[t].type
    BY <1>3, <2>2, <1>0 DEF linkReturn, giveUp, TypeInv, Resolution
  <2>4. \A u \in Tickets \ {t} : resolution'[u] = resolution[u] /\ gateway'[u] = gateway[u]
    BY <1>3, <2>1, <1>0 DEF linkReturn, giveUp, TypeInv
  <2>5. TicketFits(t) /\ GatewayFits(t)
    BY <2>2 DEF ProtocolInv
  <2>6. TicketFits(t)' /\ GatewayFits(t)'
    <3>1. resolution'[t].type = "RETURN_REFUND" /\ gateway'[t] \notin {"pending", "paid"}
      BY <2>1, <2>2, <2>3, <2>5 DEF TicketFits, GatewayFits, LinkStatuses, OpenRefund
    <3>2. TicketFits(t)'
      BY <2>3, <3>1 DEF TicketFits, LinkStatuses, ReshipStatuses, RefundStatuses, OpenRefund
    <3> QED  BY <2>3, <3>1, <3>2 DEF GatewayFits
  <2>7. job'[a] = Idle /\ \A c \in Agents \ {a} : job'[c] = job[c]
    BY <2>1, <1>0, Finished DEF Handlers
  <2>8. ASSUME NEW c \in Agents \ {a}, job[c].ticket = t
        PROVE  JobFits(c)'
    <3>1. JobFits(c) /\ job'[c] = job[c] /\ ~Links(c)
      BY <2>1, <2>7, <2>8 DEF ProtocolInv, Apart
    <3>2. job[c].pc # "submit"
      BY <2>2, <2>8, <3>1 DEF JobFits
    <3>3. job'[c].ticket = t /\ job'[c].pc # "submit" /\ ~Links(c)'
      BY <2>8, <3>1, <3>2 DEF Links
    <3>4. resolution'[t].status # "REFUND_PENDING"
      BY <2>3
    <3> QED  BY <3>1, <3>3, <3>4 DEF JobFits, OrderGoesOn
  <2> QED  BY <2>2, <2>4, <2>6, <2>7, <2>8, Done, HandlerTicketStep
<1>4. CASE initializeResolution(a)
  <2>1. /\ job[a].pc = "initialize" /\ Free(t, {"REFUND_FAILED"}) /\ resolve(a, "INITIATING")
        /\ goto(a, "create") /\ gateway' = [gateway EXCEPT ![t] = "none"]
    BY <1>4 DEF initializeResolution, forgetRefund, at
  <2>2. t \in Tickets /\ job[a].type = "RETURN_REFUND"
    BY <2>1, <1>0 DEF JobFits
  <2>3. /\ resolution'[t] = [NoResolution EXCEPT !.type = job[a].type, !.status = "INITIATING",
                                !.items = job[a].items, !.amount = job[a].amount]
        /\ \A u \in Tickets \ {t} : resolution'[u] = resolution[u] /\ gateway'[u] = gateway[u]
        /\ gateway'[t] = "none"
    BY <2>1, <2>2, <1>0 DEF resolve, TypeInv
  <2>4. /\ resolution'[t].status = "INITIATING" /\ resolution'[t].type = "RETURN_REFUND"
        /\ resolution'[t].req = NoRequest
    BY <2>2, <2>3 DEF NoResolution
  <2>5. resolution[t].status \in {"NONE", "FAILED", "REFUND_FAILED"}
    BY <2>1 DEF Free
  <2>6. TicketFits(t)' /\ GatewayFits(t)'
    <3>1. TicketFits(t)'
      BY <2>4 DEF TicketFits, LinkStatuses, ReshipStatuses, RefundStatuses, OpenRefund
    <3> QED  BY <2>3, <2>4, <3>1 DEF GatewayFits
  <2>7. /\ job'[a] = [job[a] EXCEPT !.pc = "create"]
        /\ \A c \in Agents \ {a} : job'[c] = job[c]
    BY <2>1, <1>0, WentOn DEF Handlers
  <2>8. /\ job'[a].pc = "create" /\ job'[a].ticket = t /\ job'[a].type = job[a].type
    BY <2>7, <1>0 DEF Job
  <2>9. JobFits(a)' /\ ~Submits(a)'
    BY <2>2, <2>4, <2>8 DEF JobFits, Submits, Links
  <2>10. ASSUME NEW c \in Agents \ {a}, job[c].ticket = t
         PROVE  JobFits(c)' /\ ~Links(c)
    <3>1. JobFits(c) /\ job'[c] = job[c]
      BY <2>7 DEF ProtocolInv
    <3> QED  BY <2>4, <2>5, <2>10, <3>1, OthersFit DEF JobFits, Links
  <2> QED  BY <2>2, <2>3, <2>6, <2>7, <2>8, <2>9, <2>10, HandlerTicketStep
<1>5. CASE syncAfterRefund(a)
  <2>1. /\ job[a].pc = "sync" /\ syncLinkedTicket(job[a].req) /\ finish(a)
        /\ gateway' = gateway
    BY <1>5 DEF syncAfterRefund, at
  <2>2. job[a].req \in Requests
    BY <2>1, <1>0 DEF JobFits
  <2>3. job'[a] = Idle /\ \A c \in Agents \ {a} : job'[c] = job[c]
    BY <2>1, <1>0, Finished DEF Handlers
  <2> QED  BY <2>1, <2>2, <2>3, SyncStep
<1> QED  BY <1>1, <1>2, <1>3, <1>4, <1>5

(* What a step that moves an open refund on leaves of its ticket.          *)
Keeps(t) == /\ resolution'[t].type = resolution[t].type
            /\ resolution'[t].amount = resolution[t].amount
            /\ resolution'[t].items = resolution[t].items
            /\ \A u \in Tickets \ {t} : resolution'[u] = resolution[u]

(* Settling, releasing and handing over change the status.                 *)
LEMMA RefundMoves ==
    ASSUME TypeInv, NEW t \in Tickets
    PROVE  /\ settle(t) => Keeps(t) /\ resolution'[t].status = "REFUND_COMPLETED"
           /\ release(t) => Keeps(t) /\ resolution'[t].status = "REFUND_FAILED"
           /\ moveToManualRefund(t) =>
                  Keeps(t) /\ resolution'[t].status = "REFUND_MANUAL_REQUIRED"
           /\ resolution' = [resolution EXCEPT ![t].status = "REFUND_PROCESSING"]
                  => Keeps(t) /\ resolution'[t].status = "REFUND_PROCESSING"
<1>1. resolution[t] \in Resolution
  BY DEF TypeInv
<1> QED
  BY <1>1 DEF TypeInv, Resolution, settle, release, moveToManualRefund, Keeps

(* A refund that moves on between its statuses fits.                       *)
LEMMA RefundFits ==
    ASSUME ProtocolInv, OrderGoesOn, NEW t \in Tickets, Keeps(t),
           resolution[t].status \in OpenRefund, resolution'[t].status \in RefundStatuses
    PROVE  TicketFits(t)'
<1>1. TicketFits(t)
  BY DEF ProtocolInv
<1>2. resolution[t].status \in RefundStatuses
  BY DEF RefundStatuses
<1>3. resolution[t].type \in RefundTypes /\ resolution[t].amount > 0
  BY <1>1, <1>2 DEF TicketFits
<1>4. resolution'[t].type \in RefundTypes /\ resolution'[t].amount > 0
  BY <1>3 DEF Keeps
<1>5. resolution'[t].status \notin LinkStatuses \cup ReshipStatuses \cup {"NONE", "INITIATING"}
  BY DEF RefundStatuses, OpenRefund, LinkStatuses, ReshipStatuses
<1>6. resolution'[t].type = "PARTIAL_REFUND" => status' = "DELIVERED"
  BY <1>1 DEF TicketFits, Keeps, OrderGoesOn
<1> QED  BY <1>4, <1>5, <1>6 DEF TicketFits

(* The refund's steps without its handler.                                 *)
LEMMA RefundsProtocol ==
    ASSUME ProtocolInv, TypeInv', OrderFits', OrderGoesOn, NEW t \in Tickets, Refunds(t)
    PROVE  ProtocolInv'
<1> USE DEF gatewayVars
<1>0. TypeInv /\ TicketFits(t) /\ GatewayFits(t) /\ resolution[t] \in Resolution
  BY DEF ProtocolInv, TypeInv
<1>1. CASE recoverStaleRefundPending(t)
  <2>1. /\ resolution[t].status = "REFUND_PENDING" /\ UNCHANGED <<gateway, job>>
        /\ ~\E a \in Agents : job[a].ticket = t /\ job[a].pc = "submit"
        /\ resolution' = [resolution EXCEPT ![t].status = "REFUND_PROCESSING"]
    BY <1>1 DEF recoverStaleRefundPending, at
  <2>2. Keeps(t) /\ resolution'[t].status = "REFUND_PROCESSING"
    BY <2>1, <1>0 DEF Keeps, TypeInv, Resolution
  <2>3. TicketFits(t)'
    BY <2>1, <2>2, RefundFits DEF OpenRefund, RefundStatuses
  <2>4. GatewayFits(t)'
    BY <2>1, <2>2, <1>0 DEF GatewayFits, OpenRefund, OrderGoesOn
  <2>5. ASSUME NEW c \in Agents, job[c].ticket = t
        PROVE  JobFits(c)'
    <3>1. JobFits(c) /\ job'[c] = job[c] /\ job[c].pc # "submit" /\ ~Links(c)
      BY <2>1, <2>5 DEF ProtocolInv, JobFits
    <3> QED  BY <2>2, <2>5, <3>1 DEF JobFits, Links, OrderGoesOn
  <2> QED  BY <2>1, <2>2, <2>3, <2>4, <2>5, TicketStep DEF Keeps
<1>2. CASE bankDecides(t)
  <2>1. /\ gateway[t] = "pending" /\ UNCHANGED <<resolution, job>>
        /\ gateway' = [gateway EXCEPT ![t] = "failed"] \/ gateway' = [gateway EXCEPT ![t] = "paid"]
    BY <1>2 DEF bankDecides
  <2>2. /\ gateway'[t] \in {"failed", "paid"}
        /\ \A u \in Tickets \ {t} : gateway'[u] = gateway[u]
    BY <2>1, <1>0 DEF TypeInv
  <2>3. TicketFits(t)'
    BY <2>1, <1>0 DEF TicketFits, OrderGoesOn
  <2>4. GatewayFits(t)'
    BY <2>1, <2>2, <1>0 DEF GatewayFits, OrderGoesOn
  <2>5. ASSUME NEW c \in Agents, job[c].ticket = t
        PROVE  JobFits(c)'
    <3>1. JobFits(c) /\ job'[c] = job[c]
      BY <2>1 DEF ProtocolInv
    <3>2. /\ job[c].pc # "submit"
          /\ job[c].pc = "record" /\ resolution[t].status = "REFUND_PENDING"
                 => job[c].answer \notin {"refused", "paid"}
      BY <2>1, <2>5, <3>1 DEF JobFits
    <3> QED  BY <2>1, <2>5, <3>1, <3>2 DEF JobFits, Links, OrderGoesOn
  <2> QED  BY <2>1, <2>2, <2>3, <2>4, <2>5, TicketStep
<1>3. ASSUME Keeps(t), resolution[t].status \in {"REFUND_PROCESSING", "REFUND_MANUAL_REQUIRED"},
             resolution'[t].status \in RefundStatuses \ {"REFUND_PENDING"}, GatewayFits(t)',
             \A u \in Tickets \ {t} : gateway'[u] = gateway[u], job' = job
      PROVE  ProtocolInv'
  <2>1. TicketFits(t)'
    BY <1>3, RefundFits DEF OpenRefund
  <2>2. ASSUME NEW c \in Agents, job[c].ticket = t
        PROVE  JobFits(c)'
    <3>1. JobFits(c) /\ job'[c] = job[c]
      BY <1>3 DEF ProtocolInv
    <3> QED  BY <1>3, <2>2, <3>1, OthersFit
  <2> QED  BY <1>3, <2>1, <2>2, TicketStep DEF Keeps
<1>4. CASE reconcileProcessingRefund(t)
  <2>1. resolution[t].status = "REFUND_PROCESSING" /\ job' = job
    BY <1>4 DEF reconcileProcessingRefund
  <2>2. CASE ReleasedUnpaid(t) \/ Disowned(t)
    <3>1. Keeps(t) /\ resolution'[t].status = "REFUND_FAILED"
      BY <2>2, <1>0, RefundMoves DEF ReleasedUnpaid, Disowned
    <3>2. /\ gateway'[t] \notin {"pending", "paid"}
          /\ \A u \in Tickets \ {t} : gateway'[u] = gateway[u]
      BY <2>2, <1>0 DEF ReleasedUnpaid, Disowned, TypeInv
    <3>3. GatewayFits(t)'
      BY <3>1, <3>2 DEF GatewayFits
    <3> QED  BY <1>3, <2>1, <3>1, <3>2, <3>3 DEF RefundStatuses
  <2>3. CASE Recorded(t)
    <3>1. gateway' = gateway /\ Keeps(t) /\ resolution'[t].status = "REFUND_COMPLETED"
      BY <2>3, <1>0, RefundMoves DEF Recorded
    <3>2. GatewayFits(t)'
      BY <3>1, <1>0 DEF GatewayFits, OrderGoesOn
    <3> QED  BY <1>3, <2>1, <3>1, <3>2 DEF RefundStatuses
  <2>4. CASE HandedOver(t)
    <3>1. gateway' = gateway /\ Keeps(t) /\ resolution'[t].status = "REFUND_MANUAL_REQUIRED"
      BY <2>4, <1>0, RefundMoves DEF HandedOver
    <3>2. method' # "VNPAY" /\ gateway'[t] # "pending"
      BY <2>4, <3>1, <1>0 DEF HandedOver, GatewayFits, OrderGoesOn
    <3>3. GatewayFits(t)'
      BY <3>1, <3>2 DEF GatewayFits, OpenRefund
    <3> QED  BY <1>3, <2>1, <3>1, <3>3 DEF RefundStatuses, OpenRefund
  <2> QED  BY <1>4, <2>2, <2>3, <2>4, Verdicts
<1>5. CASE completeManualRefund(t)
  <2>1. /\ resolution[t].status = "REFUND_MANUAL_REQUIRED" /\ UNCHANGED <<gateway, job>>
        /\ settle(t)
    BY <1>5 DEF completeManualRefund
  <2>2. Keeps(t) /\ resolution'[t].status = "REFUND_COMPLETED"
    BY <2>1, <1>0, RefundMoves
  <2>3. gateway'[t] # "pending"
    BY <2>1, <1>0 DEF GatewayFits
  <2>4. GatewayFits(t)'
    BY <2>2, <2>3 DEF GatewayFits
  <2> QED  BY <1>3, <2>1, <2>2, <2>4 DEF RefundStatuses
<1> QED  BY <1>1, <1>2, <1>4, <1>5 DEF Refunds

(* The handler's steps on its refund.                                      *)
LEMMA SubmitsProtocol ==
    ASSUME ProtocolInv, TypeInv', OrderFits', OrderGoesOn, NEW a \in Agents,
           reserveRefundAndResolution(a) \/ submit(a) \/ recordAnswer(a)
    PROVE  ProtocolInv'
<1> USE DEF gatewayVars
<1>0. a \in Handlers /\ TypeInv /\ JobFits(a) /\ job[a] \in Job
  BY DEF Handlers, ProtocolInv, TypeInv
<1> SUFFICES ASSUME NEW t, t = job[a].ticket
             PROVE  ProtocolInv'
  OBVIOUS
<1>t. t \in Tickets
  BY <1>0 DEF JobFits, reserveRefundAndResolution, submit, recordAnswer, at
<1>1. CASE reserveRefundAndResolution(a)
  <2> DEFINE new == IF method = "COD" THEN "REFUND_MANUAL_REQUIRED" ELSE "REFUND_PENDING"
  <2>1. /\ job[a].pc = "reserve" /\ Free(t, {"REFUND_FAILED"}) /\ ~Submitting(t)
        /\ gateway' = [gateway EXCEPT ![t] = "none"] /\ UNCHANGED <<method, status>>
        /\ resolve(a, new)
        /\ IF method = "COD" THEN finish(a) ELSE goto(a, "submit")
    BY <1>1 DEF reserveRefundAndResolution, forgetRefund, at, ReserveAllowed
  <2>2. /\ resolution'[t] = [NoResolution EXCEPT !.type = job[a].type, !.status = new,
                                !.items = job[a].items, !.amount = job[a].amount]
        /\ \A u \in Tickets \ {t} : resolution'[u] = resolution[u] /\ gateway'[u] = gateway[u]
        /\ gateway'[t] = "none"
    BY <2>1, <1>t, <1>0 DEF resolve, TypeInv
  <2>3. /\ resolution'[t].status = new /\ resolution'[t].type = job[a].type
        /\ resolution'[t].amount = job[a].amount
    BY <2>2 DEF NoResolution
  <2>4. /\ job[a].type \in RefundTypes /\ job[a].amount > 0
        /\ job[a].type = "PARTIAL_REFUND" => status = "DELIVERED"
    BY <2>1, <1>0 DEF JobFits
  <2>5. TicketFits(t)'
    BY <2>1, <2>3, <2>4 DEF TicketFits, LinkStatuses, ReshipStatuses, RefundStatuses, OpenRefund,
       RefundTypes
  <2>6. GatewayFits(t)'
    BY <2>1, <2>2, <2>3 DEF GatewayFits
  <2>7. /\ job'[a] = Idle \/ (method # "COD" /\ job'[a] = [job[a] EXCEPT !.pc = "submit"])
        /\ \A c \in Agents \ {a} : job'[c] = job[c]
    BY <2>1, <1>0, Finished, WentOn DEF Handlers
  <2>8. JobFits(a)' /\ ~Links(a)'
    <3>1. CASE job'[a] = Idle
      BY <3>1, Done
    <3>2. CASE method # "COD" /\ job'[a] = [job[a] EXCEPT !.pc = "submit"]
      <4>1. /\ job'[a].pc = "submit" /\ job'[a].ticket = t /\ job'[a].type = job[a].type
            /\ job'[a].amount = job[a].amount
        BY <3>2, <1>0 DEF Job
      <4> QED  BY <3>2, <4>1, <2>1, <2>2, <2>3, <2>4, <1>t DEF JobFits, Links
    <3> QED  BY <2>7, <3>1, <3>2
  <2>9. resolution[t].status \in {"NONE", "FAILED", "REFUND_FAILED"}
    BY <2>1 DEF Free
  <2>10. ASSUME NEW c \in Agents \ {a}, job[c].ticket = t
         PROVE  JobFits(c)' /\ ~Submits(c)
    <3>1. JobFits(c) /\ job'[c] = job[c] /\ ~Submits(c) /\ ~Links(c)
      BY <2>1, <2>7, <2>9, <2>10 DEF ProtocolInv, JobFits, Submitting, Submits
    <3> QED  BY <3>1, OthersApart
  <2>11. job'[a].ticket \in {t, NoTicket} /\ (Submits(a)' => job'[a].ticket = t)
    BY <2>7, <1>0 DEF Idle, Job, Submits
  <2>12. \A d \in Agents \ {a} : job'[a].ticket = job[d].ticket =>
             ~(Submits(a)' /\ Submits(d)) /\ ~(Links(a)' /\ Links(d))
    BY <2>8, <2>10, <2>11
  <2> QED  BY <1>t, <2>2, <2>5, <2>6, <2>7, <2>8, <2>10, <2>12, HandlerTicketStep
<1>2. CASE submit(a)
  <2>1. PICK effect \in {"none", "pending", "paid"}, heard \in BOOLEAN :
            /\ method = "MOMO" => effect # "pending"
            /\ gateway' = [gateway EXCEPT ![t] = effect]
            /\ job' = [job EXCEPT ![a].pc = "record",
                                  ![a].answer = IF ~heard THEN "unknown"
                                                ELSE IF effect = "none" THEN "refused" ELSE effect]
    BY <1>2 DEF submit
  <2>2. /\ job[a].pc = "submit" /\ UNCHANGED <<method, status, resolution>>
        /\ method # "COD" /\ gateway[t] = "none" /\ resolution[t].status = "REFUND_PENDING"
    BY <1>2, <1>0 DEF submit, at, JobFits
  <2>3. /\ gateway'[t] = effect
        /\ \A u \in Tickets \ {t} : resolution'[u] = resolution[u] /\ gateway'[u] = gateway[u]
        /\ \A c \in Agents \ {a} : job'[c] = job[c]
    BY <2>1, <2>2, <1>t, <1>0 DEF TypeInv, Handlers
  <2>4. /\ job'[a].pc = "record" /\ job'[a].ticket = t /\ job'[a].type = job[a].type
        /\ job'[a].answer \in {"unknown", IF effect = "none" THEN "refused" ELSE effect}
    BY <2>1, <1>0 DEF TypeInv, Job
  <2>5. TicketFits(t) /\ method \in {"COD", "VNPAY", "MOMO"}
    BY <1>t DEF ProtocolInv, TypeInv
  <2>6. TicketFits(t)'
    BY <2>2, <2>5 DEF TicketFits
  <2>7. GatewayFits(t)'
    BY <2>1, <2>2, <2>3, <2>5 DEF GatewayFits, OpenRefund
  <2>8. JobFits(a)' /\ ~Links(a)' /\ Submits(a)
    BY <2>2, <2>3, <2>4, <1>t, <1>0 DEF JobFits, Links, Submits
  <2>9. ASSUME NEW c \in Agents \ {a}, job[c].ticket = t
        PROVE  JobFits(c)' /\ ~Submits(c)
    <3>1. JobFits(c) /\ job'[c] = job[c] /\ ~Submits(c) /\ ~Links(c)
      BY <2>2, <2>3, <2>8, <2>9 DEF ProtocolInv, JobFits, Apart
    <3> QED  BY <3>1, OthersApart
  <2>10. \A d \in Agents \ {a} : job'[a].ticket = job[d].ticket =>
             ~(Submits(a)' /\ Submits(d)) /\ ~(Links(a)' /\ Links(d))
    BY <2>4, <2>8, <2>9
  <2> QED  BY <1>t, <2>3, <2>6, <2>7, <2>8, <2>9, <2>10, HandlerTicketStep
<1>3. CASE recordAnswer(a)
  <2>1. job[a].pc = "record" /\ gateway' = gateway /\ finish(a) /\ Submits(a)
    BY <1>3 DEF recordAnswer, at, Submits
  <2>2. job'[a] = Idle /\ \A c \in Agents \ {a} : job'[c] = job[c]
    BY <2>1, <1>0, Finished DEF Handlers
  <2>3. CASE ~OwnsTicket(a)
    <3>1. resolution' = resolution
      BY <1>3, <2>3 DEF recordAnswer
    <3> QED  BY <2>1, <2>2, <3>1, Done, HandlerStep
  <2>4. CASE OwnsTicket(a)
    <3>1. /\ resolution[t].status = "REFUND_PENDING" /\ GatewayFits(t)
          /\ job[a].answer = "refused" => gateway[t] = "none"
          /\ job[a].answer = "paid" => gateway[t] = "paid"
      BY <2>1, <2>4, <1>t, <1>0 DEF OwnsTicket, ProtocolInv, JobFits
    <3>2. /\ Keeps(t)
          /\ \/ resolution'[t].status = "REFUND_COMPLETED" /\ job[a].answer = "paid"
             \/ resolution'[t].status = "REFUND_FAILED" /\ job[a].answer = "refused"
             \/ resolution'[t].status = "REFUND_PROCESSING"
      <4>1. \/ job[a].answer = "paid" /\ settle(t)
            \/ job[a].answer = "refused" /\ release(t)
            \/ resolution' = [resolution EXCEPT ![t].status = "REFUND_PROCESSING"]
        BY <1>3, <2>4 DEF recordAnswer
      <4> QED  BY <4>1, <1>t, <1>0, RefundMoves
    <3>3. TicketFits(t)'
      BY <3>1, <3>2, <1>t, RefundFits DEF OpenRefund, RefundStatuses
    <3>4. GatewayFits(t)'
      BY <2>1, <3>1, <3>2 DEF GatewayFits, OpenRefund, OrderGoesOn
    <3>5. ASSUME NEW c \in Agents \ {a}, job[c].ticket = t
          PROVE  JobFits(c)'
      <4>1. JobFits(c) /\ job'[c] = job[c] /\ ~Submits(c) /\ ~Links(c)
        BY <2>1, <2>2, <3>1, <3>5 DEF ProtocolInv, JobFits, Apart
      <4> QED  BY <4>1, OthersApart
    <3>6. \A u \in Tickets \ {t} : resolution'[u] = resolution[u] /\ gateway'[u] = gateway[u]
      BY <2>1, <3>2 DEF Keeps
    <3> QED  BY <1>t, <2>2, <3>3, <3>4, <3>5, <3>6, Done, HandlerTicketStep
  <2> QED  BY <2>3, <2>4
<1> QED  BY <1>1, <1>2, <1>3

(* A reship moves on.                                                      *)
LEMMA ReshipFits ==
    ASSUME ProtocolInv, OrderGoesOn, NEW t \in Tickets,
           resolution[t].status \in {"PREPARING", "SHIPPED"}, NEW new \in ReshipStatuses,
           resolution' = [resolution EXCEPT ![t].status = new], gateway' = gateway
    PROVE  /\ TicketFits(t)' /\ GatewayFits(t)'
           /\ resolution'[t].status = new
           /\ \A u \in Tickets \ {t} : resolution'[u] = resolution[u] /\ gateway'[u] = gateway[u]
<1>1. resolution[t] \in Resolution /\ TicketFits(t) /\ GatewayFits(t)
  BY DEF ProtocolInv, TypeInv
<1>2. resolution'[t] = [resolution[t] EXCEPT !.status = new]
  BY DEF ProtocolInv, TypeInv
<1>3. resolution'[t].status = new /\ resolution'[t].type = resolution[t].type
  BY <1>1, <1>2 DEF Resolution
<1>4. resolution[t].type \in ReshipTypes
  BY <1>1 DEF TicketFits, ReshipStatuses
<1>5. TicketFits(t)'
  BY <1>3, <1>4 DEF TicketFits, LinkStatuses, ReshipStatuses, RefundStatuses, OpenRefund,
     ReshipTypes
<1>6. gateway[t] \notin {"pending", "paid"}
  BY <1>1 DEF GatewayFits, OpenRefund
<1>7. GatewayFits(t)'
  BY <1>3, <1>6 DEF GatewayFits, ReshipStatuses
<1>8. \A u \in Tickets \ {t} : resolution'[u] = resolution[u] /\ gateway'[u] = gateway[u]
  BY DEF ProtocolInv, TypeInv
<1> QED  BY <1>3, <1>5, <1>7, <1>8

(* Steps of the goods.                                                     *)
LEMMA GoodsProtocol ==
    ASSUME ProtocolInv, TypeInv', OrderFits', OrderGoesOn,
           \/ \E a \in Agents : prepareReship(a) \/ dispatchReship(a)
           \/ \E t \in Tickets : cancelReship(t) \/ deliverReship(t)
           \/ \E c \in Couriers : Courier(c)
    PROVE  ProtocolInv'
<1> USE DEF gatewayVars
<1>1. ASSUME NEW a \in Agents, prepareReship(a)
      PROVE  ProtocolInv'
  <2>0. a \in Handlers /\ TypeInv /\ JobFits(a) /\ job[a] \in Job
    BY DEF Handlers, ProtocolInv, TypeInv
  <2> SUFFICES ASSUME NEW t, t = job[a].ticket
               PROVE  ProtocolInv'
    OBVIOUS
  <2>1. /\ job[a].pc = "prepare" /\ Free(t, {"CANCELLED"}) /\ gateway' = gateway /\ finish(a)
        /\ resolve(a, "PREPARING")
    BY <1>1 DEF prepareReship, PrepareAllowed, at
  <2>2. t \in Tickets /\ job[a].type \in ReshipTypes
    BY <2>0, <2>1 DEF JobFits
  <2>3. /\ resolution'[t] = [NoResolution EXCEPT !.type = job[a].type, !.status = "PREPARING",
                                !.items = job[a].items, !.amount = job[a].amount]
        /\ \A u \in Tickets \ {t} : resolution'[u] = resolution[u] /\ gateway'[u] = gateway[u]
    BY <2>0, <2>1, <2>2 DEF resolve, TypeInv
  <2>4. resolution'[t].status = "PREPARING" /\ resolution'[t].type = job[a].type
    BY <2>3 DEF NoResolution
  <2>5. resolution[t].status \in {"NONE", "FAILED", "CANCELLED"} /\ GatewayFits(t)
    BY <2>1, <2>2 DEF Free, ProtocolInv
  <2>6. TicketFits(t)'
    BY <2>2, <2>4 DEF TicketFits, LinkStatuses, ReshipStatuses, RefundStatuses, OpenRefund,
       ReshipTypes
  <2>7. GatewayFits(t)'
    BY <2>1, <2>4, <2>5 DEF GatewayFits, OpenRefund
  <2>8. job'[a] = Idle /\ \A c \in Agents \ {a} : job'[c] = job[c]
    BY <2>0, <2>1, Finished DEF Handlers
  <2>9. ASSUME NEW c \in Agents \ {a}, job[c].ticket = t
        PROVE  JobFits(c)'
    <3>1. JobFits(c) /\ job'[c] = job[c]
      BY <2>8 DEF ProtocolInv
    <3> QED  BY <2>4, <2>5, <2>9, <3>1, OthersFit
  <2> QED  BY <2>2, <2>3, <2>6, <2>7, <2>8, <2>9, Done, HandlerTicketStep
<1>2. ASSUME NEW a \in Agents, dispatchReship(a)
      PROVE  ProtocolInv'
  <2>0. a \in Handlers /\ TypeInv /\ JobFits(a)
    BY DEF Handlers, ProtocolInv
  <2> SUFFICES ASSUME NEW t, t = job[a].ticket
               PROVE  ProtocolInv'
    OBVIOUS
  <2>1. job[a].pc = "dispatch" /\ finish(a) /\ gateway' = gateway
    BY <1>2 DEF dispatchReship, at
  <2>2. job'[a] = Idle /\ \A c \in Agents \ {a} : job'[c] = job[c]
    BY <2>0, <2>1, Finished DEF Handlers
  <2>3. CASE resolution' = resolution
    BY <2>1, <2>2, <2>3, Done, HandlerStep
  <2>4. CASE /\ resolution[t].status = "PREPARING"
             /\ resolution' = [resolution EXCEPT ![t].status = "SHIPPED"]
    <3>1. t \in Tickets
      BY <2>0, <2>1 DEF JobFits
    <3>2. "SHIPPED" \in ReshipStatuses
      BY DEF ReshipStatuses
    <3>3. /\ TicketFits(t)' /\ GatewayFits(t)' /\ resolution'[t].status = "SHIPPED"
          /\ \A u \in Tickets \ {t} : resolution'[u] = resolution[u] /\ gateway'[u] = gateway[u]
      BY <2>1, <2>4, <3>1, <3>2, ReshipFits
    <3>4. ASSUME NEW c \in Agents \ {a}, job[c].ticket = t
          PROVE  JobFits(c)'
      <4>1. JobFits(c) /\ job'[c] = job[c]
        BY <2>2 DEF ProtocolInv
      <4> QED  BY <2>4, <3>3, <3>4, <4>1, OthersFit
    <3> QED  BY <2>2, <3>1, <3>3, <3>4, Done, HandlerTicketStep
  <2> QED  BY <1>2, <2>3, <2>4 DEF dispatchReship, StillPreparing
<1>3. ASSUME NEW t \in Tickets, cancelReship(t) \/ deliverReship(t)
      PROVE  ProtocolInv'
  <2>1. PICK new \in {"CANCELLED", "DELIVERED"} :
            /\ resolution' = [resolution EXCEPT ![t].status = new]
            /\ resolution[t].status \in {"PREPARING", "SHIPPED"}
            /\ UNCHANGED <<gateway, job>>
    BY <1>3 DEF cancelReship, deliverReship
  <2>2. new \in ReshipStatuses
    BY DEF ReshipStatuses
  <2>3. /\ TicketFits(t)' /\ GatewayFits(t)' /\ resolution'[t].status = new
        /\ \A u \in Tickets \ {t} : resolution'[u] = resolution[u] /\ gateway'[u] = gateway[u]
    BY <2>1, <2>2, ReshipFits
  <2>4. ASSUME NEW c \in Agents, job[c].ticket = t
        PROVE  JobFits(c)'
    <3>1. JobFits(c) /\ job'[c] = job[c]
      BY <2>1 DEF ProtocolInv
    <3> QED  BY <2>1, <2>3, <2>4, <3>1, OthersFit
  <2> QED  BY <2>1, <2>3, <2>4, TicketStep
<1>4. ASSUME NEW c \in Couriers, Courier(c)
      PROVE  ProtocolInv'
  <2>0. c \in Handlers /\ TypeInv /\ job[c] \in Job
    BY DEF Handlers, ProtocolInv, TypeInv
  <2>1. UNCHANGED <<resolution, gateway>> /\ (goto(c, "deliver") \/ finish(c))
    BY <1>4 DEF Courier, checkDelivery, adminMarkDelivered
  <2>2. /\ job'[c] = Idle \/ job'[c] = [job[c] EXCEPT !.pc = "deliver"]
        /\ \A d \in Agents \ {c} : job'[d] = job[d]
    BY <2>0, <2>1, Finished, WentOn DEF Handlers
  <2>3. c \in Agents => JobFits(c)' /\ ~Submits(c)' /\ ~Links(c)'
    <3>1. CASE job'[c] = Idle
      BY <3>1, Done
    <3>2. CASE c \in Agents /\ job'[c] = [job[c] EXCEPT !.pc = "deliver"]
      <4>1. job'[c].pc = "deliver" /\ job'[c].type = job[c].type /\ JobFits(c)
        BY <2>0, <3>2 DEF Job, ProtocolInv
      <4> QED  BY <4>1 DEF JobFits, Submits, Links, OrderGoesOn
    <3> QED  BY <2>2, <3>1, <3>2
  <2> QED  BY <2>1, <2>2, <2>3, HandlerStep
<1> QED  BY <1>1, <1>2, <1>3, <1>4

(* The protocol holds at the start.                                        *)
LEMMA ProtocolInit == Init => ProtocolInv
<1> SUFFICES ASSUME Init
             PROVE  ProtocolInv
  OBVIOUS
<1>1. TypeInv
  BY RecordTypes, OrderAssumption DEF Init, TypeInv, GatewayStates
<1>2. \A t \in Tickets : TicketFits(t) /\ GatewayFits(t)
  BY DEF Init, TicketFits, GatewayFits, NoResolution, LinkStatuses, ReshipStatuses,
         RefundStatuses, OpenRefund
<1>3. \A a \in Agents : JobFits(a)
  BY DEF Init, JobFits, Idle, Links, Handlers
<1>4. Apart
  BY DEF Init, Apart, Idle, Submits, Links, Handlers
<1>5. OrderFits
  BY DEF Init, OrderFits, NoReturn
<1> QED  BY <1>1, <1>2, <1>3, <1>4, <1>5 DEF ProtocolInv

(* Every step keeps to the protocol.                                       *)
LEMMA ProtocolNext == ProtocolInv /\ [Next]_vars => ProtocolInv'
<1> SUFFICES ASSUME ProtocolInv, [Next]_vars
             PROVE  ProtocolInv'
  OBVIOUS
<1>1. CASE Next
  <2>1. TypeInv'
    BY <1>1, TypeNext DEF ProtocolInv
  <2>2. OrderGoesOn /\ OrderFits'
    BY <1>1, OrderNext DEF ProtocolInv
  <2> QED
    BY <1>1, <2>1, <2>2, Moves, ReturnsProtocol, JobsProtocol, LinksProtocol, SubmitsProtocol,
       RefundsProtocol, GoodsProtocol DEF Handler
<1>2. CASE UNCHANGED vars
  BY <1>2 DEF vars, moneyVars, pointVars, gatewayVars, mistakeVars, ProtocolInv, TypeInv, TicketFits,
     GatewayFits, JobFits, Links, Submits, Apart, OrderFits
<1> QED  BY <1>1, <1>2

(* At every moment the status of a ticket tells what its refund is doing   *)
(* at the gateway and which handler is at it: the gateway is asked by one  *)
(* handler at a time, a refund that the bank has or may still carry out is *)
(* on a ticket that was closed without it only if VNPay's answer about an  *)
(* equal refund was taken for its own (it is disowned then), and what a    *)
(* handler is about to do still fits the ticket it read.                   *)
THEOREM ProtocolCorrect == Spec => []ProtocolInv
  BY ProtocolInit, ProtocolNext, PTL DEF Spec

-----------------------------------------------------------------------------
(* The sums.  Each is taken over all tickets or all requests, of what one  *)
(* of them stands for.                                                     *)

Owed(t) == IF resolution[t].status \in OpenRefund THEN resolution[t].amount ELSE 0
Settled(t) == IF resolution[t].status = "REFUND_COMPLETED" THEN resolution[t].amount ELSE 0
Covered(t) == IF gateway[t] = "paid" THEN Owed(t) ELSE 0
Awaited(t) == IF gateway[t] = "pending" THEN Settled(t) ELSE 0
Kept(t, b) == IF resolution[t].type \in RETURN_CONSUMING_TYPES /\ resolution[t].status \notin Released
              THEN resolution[t].items[b] ELSE 0
Promised(t, b) == IF resolution[t].status = "PREPARING" THEN resolution[t].items[b] ELSE 0

Due(r) == IF returns[r].status = "RECEIVED" THEN returns[r].amount ELSE 0
Closed(r) == IF returns[r].status = "CLOSED" THEN returns[r].amount ELSE 0
Back(r, b) == IF returns[r].status \notin {"NONE", "REJECTED"} THEN returns[r].items[b] ELSE 0

TotalOwed == Total(Tickets, [t \in Tickets |-> Owed(t)])
TotalSettled == Total(Tickets, [t \in Tickets |-> Settled(t)])
TotalCovered == Total(Tickets, [t \in Tickets |-> Covered(t)])
TotalAwaited == Total(Tickets, [t \in Tickets |-> Awaited(t)])
TotalKept(b) == Total(Tickets, [t \in Tickets |-> Kept(t, b)])
TotalPromised(b) == Total(Tickets, [t \in Tickets |-> Promised(t, b)])
TotalDue == Total(Requests, [r \in Requests |-> Due(r)])
TotalClosed == Total(Requests, [r \in Requests |-> Closed(r)])
TotalBack(b) == Total(Requests, [r \in Requests |-> Back(r, b)])

(* All that a ticket or a request stands for are natural numbers.          *)
Natural ==
    /\ \A t \in Tickets : /\ Owed(t) \in Nat /\ Settled(t) \in Nat
                         /\ Covered(t) \in Nat /\ Awaited(t) \in Nat
    /\ \A t \in Tickets, b \in Books : Kept(t, b) \in Nat /\ Promised(t, b) \in Nat
    /\ \A r \in Requests : Due(r) \in Nat /\ Closed(r) \in Nat
    /\ \A r \in Requests, b \in Books : Back(r, b) \in Nat

(* They are, by their types.                                               *)
LEMMA FacetTypes == ASSUME TypeInv PROVE Natural
<1>1. \A t \in Tickets : /\ resolution[t].amount \in Nat
                         /\ \A b \in Books : resolution[t].items[b] \in Nat
  BY DEF TypeInv, Resolution, Lines
<1>2. \A r \in Requests : /\ returns[r].amount \in Nat
                          /\ \A b \in Books : returns[r].items[b] \in Nat
  BY DEF TypeInv, ReturnRecord, Lines
<1>3. \A t \in Tickets : /\ Owed(t) \in Nat /\ Settled(t) \in Nat
                         /\ Covered(t) \in Nat /\ Awaited(t) \in Nat
  BY <1>1 DEF Owed, Settled, Covered, Awaited
<1>4. \A t \in Tickets, b \in Books : Kept(t, b) \in Nat /\ Promised(t, b) \in Nat
  BY <1>1 DEF Kept, Promised
<1>5. \A r \in Requests : Due(r) \in Nat /\ Closed(r) \in Nat
  BY <1>2 DEF Due, Closed
<1>6. \A r \in Requests, b \in Books : Back(r, b) \in Nat
  BY <1>2 DEF Back
<1> QED  BY <1>3, <1>4, <1>5, <1>6 DEF Natural

(* The module's sums are these.                                            *)
LEMMA SumsAre ==
    ASSUME TypeInv
    PROVE  /\ TicketAmounts(OpenTickets) = TotalOwed
           /\ TicketAmounts(DoneTickets) = TotalSettled
           /\ ReturnAmounts("RECEIVED") = TotalDue
           /\ ReturnAmounts("CLOSED") = TotalClosed
           /\ \A b \in Books :
                  /\ Returned(b) = TotalBack(b)
                  /\ Compensated(b, LiveCompensations(RETURN_CONSUMING_TYPES)) = TotalKept(b)
                  /\ Compensated(b, {t \in Tickets : resolution[t].status = "PREPARING"})
                         = TotalPromised(b)
<1>1. TicketAmounts(OpenTickets) = TotalOwed
  BY TotalOfPart DEF TicketAmounts, OpenTickets, TotalOwed, Owed
<1>2. TicketAmounts(DoneTickets) = TotalSettled
  BY TotalOfPart DEF TicketAmounts, DoneTickets, TotalSettled, Settled
<1>3. ReturnAmounts("RECEIVED") = TotalDue
  BY TotalOfPart DEF ReturnAmounts, TotalDue, Due
<1>4. ReturnAmounts("CLOSED") = TotalClosed
  BY TotalOfPart DEF ReturnAmounts, TotalClosed, Closed
<1>5. ASSUME NEW b \in Books
      PROVE  /\ Returned(b) = TotalBack(b)
             /\ Compensated(b, LiveCompensations(RETURN_CONSUMING_TYPES)) = TotalKept(b)
             /\ Compensated(b, {t \in Tickets : resolution[t].status = "PREPARING"})
                    = TotalPromised(b)
  <2>1. Returned(b) = TotalBack(b)
    BY TotalOfPart DEF Returned, LiveReturns, TotalBack, Back
  <2>2. Compensated(b, LiveCompensations(RETURN_CONSUMING_TYPES)) = TotalKept(b)
    BY TotalOfPart DEF Compensated, LiveCompensations, TotalKept, Kept
  <2>3. Compensated(b, {t \in Tickets : resolution[t].status = "PREPARING"}) = TotalPromised(b)
    BY TotalOfPart DEF Compensated, TotalPromised, Promised
  <2> QED  BY <2>1, <2>2, <2>3
<1> QED  BY <1>1, <1>2, <1>3, <1>4, <1>5

(* Nothing that the sums take of a ticket, or of a request, changes.       *)
TicketRests(t) ==
    /\ Owed(t)' = Owed(t) /\ Settled(t)' = Settled(t) /\ Covered(t)' = Covered(t)
    /\ Awaited(t)' = Awaited(t)
    /\ \A b \in Books : Kept(t, b)' = Kept(t, b) /\ Promised(t, b)' = Promised(t, b)
ReturnRests(r) ==
    /\ Due(r)' = Due(r) /\ Closed(r)' = Closed(r)
    /\ \A b \in Books : Back(r, b)' = Back(r, b)

(* A sum's new value when nothing, or one ticket, changes.                 *)
LEMMA TicketSums ==
    ASSUME TypeInv, TypeInv', NEW t \in Tickets, \A u \in Tickets \ {t} : TicketRests(u)
    PROVE  /\ TotalOwed' = TotalOwed - Owed(t) + Owed(t)' /\ Owed(t) <= TotalOwed
           /\ TotalSettled' = TotalSettled - Settled(t) + Settled(t)'
           /\ TotalCovered' = TotalCovered - Covered(t) + Covered(t)'
           /\ TotalAwaited' = TotalAwaited - Awaited(t) + Awaited(t)'
           /\ \A b \in Books :
                  /\ TotalKept(b)' = TotalKept(b) - Kept(t, b) + Kept(t, b)'
                  /\ TotalPromised(b)' = TotalPromised(b) - Promised(t, b) + Promised(t, b)'
<1>0. IsFiniteSet(Tickets) /\ Natural
  BY OrderAssumption, FacetTypes
<1>1. Natural'
  BY FacetTypes, PTL
<1>2. TotalOwed' = TotalOwed - Owed(t) + Owed(t)' /\ Owed(t) <= TotalOwed
  BY <1>0, <1>1, TotalStep DEF TotalOwed, TicketRests, Natural
<1>3. TotalSettled' = TotalSettled - Settled(t) + Settled(t)'
  BY <1>0, <1>1, TotalStep DEF TotalSettled, TicketRests, Natural
<1>4. TotalCovered' = TotalCovered - Covered(t) + Covered(t)'
  BY <1>0, <1>1, TotalStep DEF TotalCovered, TicketRests, Natural
<1>7. TotalAwaited' = TotalAwaited - Awaited(t) + Awaited(t)'
  BY <1>0, <1>1, TotalStep DEF TotalAwaited, TicketRests, Natural
<1>5. ASSUME NEW b \in Books
      PROVE  TotalKept(b)' = TotalKept(b) - Kept(t, b) + Kept(t, b)'
  BY <1>0, <1>1, TotalStep DEF TotalKept, TicketRests, Natural
<1>6. ASSUME NEW b \in Books
      PROVE  TotalPromised(b)' = TotalPromised(b) - Promised(t, b) + Promised(t, b)'
  BY <1>0, <1>1, TotalStep DEF TotalPromised, TicketRests, Natural
<1> QED  BY <1>2, <1>3, <1>4, <1>5, <1>6, <1>7

(* The tickets' sums stay when no ticket moves.                            *)
LEMMA TicketSumsRest ==
    ASSUME \A u \in Tickets : TicketRests(u)
    PROVE  /\ TotalOwed' = TotalOwed /\ TotalSettled' = TotalSettled
           /\ TotalCovered' = TotalCovered /\ TotalAwaited' = TotalAwaited
           /\ \A b \in Books : TotalKept(b)' = TotalKept(b) /\ TotalPromised(b)' = TotalPromised(b)
  BY DEF TicketRests, TotalOwed, TotalSettled, TotalCovered, TotalAwaited, TotalKept, TotalPromised

(* The same for the requests, when one moves.                              *)
LEMMA ReturnSums ==
    ASSUME TypeInv, TypeInv', NEW r \in Requests, \A q \in Requests \ {r} : ReturnRests(q)
    PROVE  /\ TotalDue' = TotalDue - Due(r) + Due(r)'
           /\ TotalClosed' = TotalClosed - Closed(r) + Closed(r)'
           /\ \A b \in Books : TotalBack(b)' = TotalBack(b) - Back(r, b) + Back(r, b)'
<1>0. IsFiniteSet(Requests) /\ Natural
  BY OrderAssumption, FacetTypes
<1>1. Natural'
  BY FacetTypes, PTL
<1>2. TotalDue' = TotalDue - Due(r) + Due(r)'
  BY <1>0, <1>1, TotalStep DEF TotalDue, ReturnRests, Natural
<1>3. TotalClosed' = TotalClosed - Closed(r) + Closed(r)'
  BY <1>0, <1>1, TotalStep DEF TotalClosed, ReturnRests, Natural
<1>4. ASSUME NEW b \in Books
      PROVE  TotalBack(b)' = TotalBack(b) - Back(r, b) + Back(r, b)'
  BY <1>0, <1>1, TotalStep DEF TotalBack, ReturnRests, Natural
<1> QED  BY <1>2, <1>3, <1>4

(* And when none does.                                                     *)
LEMMA ReturnSumsRest ==
    ASSUME \A q \in Requests : ReturnRests(q)
    PROVE  /\ TotalDue' = TotalDue /\ TotalClosed' = TotalClosed
           /\ \A b \in Books : TotalBack(b)' = TotalBack(b)
  BY DEF ReturnRests, TotalDue, TotalClosed, TotalBack

(* All the sums are natural numbers.                                       *)
LEMMA SumTypes ==
    ASSUME TypeInv
    PROVE  /\ TotalOwed \in Nat /\ TotalSettled \in Nat
           /\ TotalCovered \in Nat /\ TotalAwaited \in Nat
           /\ TotalDue \in Nat /\ TotalClosed \in Nat
           /\ \A b \in Books : /\ TotalKept(b) \in Nat /\ TotalPromised(b) \in Nat
                               /\ TotalBack(b) \in Nat
<1>0. IsFiniteSet(Tickets) /\ IsFiniteSet(Requests) /\ Natural
  BY OrderAssumption, FacetTypes
<1>1. /\ TotalOwed \in Nat /\ TotalSettled \in Nat
      /\ TotalCovered \in Nat /\ TotalAwaited \in Nat
  BY <1>0, TotalIsNat DEF TotalOwed, TotalSettled, TotalCovered, TotalAwaited, Natural
<1>2. TotalDue \in Nat /\ TotalClosed \in Nat
  BY <1>0, TotalIsNat DEF TotalDue, TotalClosed, Natural
<1>3. ASSUME NEW b \in Books
      PROVE  TotalKept(b) \in Nat /\ TotalPromised(b) \in Nat /\ TotalBack(b) \in Nat
  BY <1>0, TotalIsNat DEF TotalKept, TotalPromised, TotalBack, Natural
<1> QED  BY <1>1, <1>2, <1>3

(* What the order's books promise, taken together: the counters are sums   *)
(* over the documents, what left is on them, and the lines of each book    *)
(* and the copies kept for them are accounted for.                         *)
SumsInv ==
    /\ StockTypeOK /\ LedgerExplainsStock
    /\ reservedAmount = TotalOwed + TotalDue
    /\ refunded = TotalSettled + TotalClosed
    /\ refunded + reservedAmount <= TotalAmount
    /\ paidOut + TotalAwaited <= refunded + TotalCovered + writtenOff
    /\ \A b \in Books : TotalKept(b) + TotalBack(b) <= Qty[b]
    /\ \A b \in Books : reserved[b] = TotalPromised(b)

(* No more is granted than there was, or what the order still has.         *)
WithinTotal ==
    \/ refunded' + reservedAmount' <= refunded + reservedAmount
    \/ refunded' + reservedAmount' <= TotalAmount

(* How a step on one ticket moves the counters.                            *)
TicketMove(t) ==
    /\ reservedAmount' = reservedAmount - Owed(t) + Owed(t)'
    /\ refunded' = refunded - Settled(t) + Settled(t)'
    /\ WithinTotal
    /\ paidOut' + Awaited(t)' - refunded' - Covered(t)' - writtenOff'
           <= paidOut + Awaited(t) - refunded - Covered(t) - writtenOff
    /\ \/ \A b \in Books : Kept(t, b)' <= Kept(t, b)
       \/ \E items \in Lines : LineEntitlements(t, items) /\ \A b \in Books : Kept(t, b)' <= items[b]
    /\ \A b \in Books : reserved'[b] = reserved[b] - Promised(t, b) + Promised(t, b)'

(* How a step on one return request does.                                  *)
ReturnMove(r) ==
    /\ reservedAmount' = reservedAmount - Due(r) + Due(r)'
    /\ refunded' = refunded - Closed(r) + Closed(r)'
    /\ WithinTotal
    /\ paidOut' - refunded' - writtenOff' <= paidOut - refunded - writtenOff
    /\ \/ \A b \in Books : Back(r, b)' <= Back(r, b)
       \/ \E items \in Lines : ReturnEligible(items) /\ \A b \in Books : Back(r, b)' <= items[b]
    /\ \A b \in Books : reserved'[b] = reserved[b]

(* What the other live compensations of a ticket's lines are worth.        *)
LEMMA OthersKept ==
    ASSUME TypeInv, NEW t \in Tickets, NEW b \in Books
    PROVE  TotalKept(b) - Kept(t, b)
               <= Compensated(b, LiveCompensations(LINE_COMPENSATION_TYPES) \ {t})
<1> DEFINE lines == [u \in Tickets |-> resolution[u].items[b]]
           some == LiveCompensations(RETURN_CONSUMING_TYPES)
           all == LiveCompensations(LINE_COMPENSATION_TYPES)
<1>1. some \subseteq all /\ all \subseteq Tickets
  BY DEF LiveCompensations, RETURN_CONSUMING_TYPES
<1>2. \A u \in Tickets : lines[u] \in Nat
  BY DEF TypeInv, Resolution, Lines
<1>3. IsFiniteSet(all \ {t}) /\ IsFiniteSet(some)
  BY <1>1, OrderAssumption, FS_Subset
<1>4. TotalKept(b) = Total(some, lines)
  BY SumsAre DEF Compensated
<1>5. Kept(t, b) = IF t \in some THEN lines[t] ELSE 0
  BY DEF Kept, LiveCompensations
<1>6. Compensated(b, all \ {t}) = Total(all \ {t}, lines)
  BY DEF Compensated
<1> HIDE DEF lines, some, all
<1>7. Total(some \ {t}, lines) = Total(some, lines) - Kept(t, b)
  <2>1. CASE t \in some
    BY <1>1, <1>2, <1>3, <1>5, <2>1, TotalRemove
  <2>2. CASE t \notin some
    <3>1. some \ {t} = some
      BY <2>2
    <3>2. Total(some, lines) \in Nat
      BY <1>1, <1>2, <1>3, TotalIsNat
    <3> QED  BY <1>5, <2>2, <3>1, <3>2
  <2> QED  BY <2>1, <2>2
<1>8. Total(some \ {t}, lines) <= Total(all \ {t}, lines)
  BY <1>1, <1>2, <1>3, TotalMonotone
<1>9. Compensated(b, LiveCompensations(LINE_COMPENSATION_TYPES) \ {t}) = Total(all \ {t}, lines)
  BY <1>6 DEF all
<1> QED
  BY <1>4, <1>7, <1>8, <1>9

(* The sums follow a step on one ticket.                                   *)
LEMMA TicketMoveKeeps ==
    ASSUME SumsInv, TypeInv, TypeInv', StockTypeOK', LedgerExplainsStock', NEW t \in Tickets,
           \A u \in Tickets \ {t} : TicketRests(u), \A r \in Requests : ReturnRests(r),
           TicketMove(t)
    PROVE  SumsInv'
<1>1. Natural
  BY FacetTypes
<1>2. Natural'
  BY FacetTypes, PTL
<1>3. /\ TotalOwed \in Nat /\ TotalSettled \in Nat
      /\ TotalCovered \in Nat /\ TotalAwaited \in Nat
      /\ TotalDue \in Nat /\ TotalClosed \in Nat
      /\ \A b \in Books : TotalKept(b) \in Nat /\ TotalPromised(b) \in Nat /\ TotalBack(b) \in Nat
  BY SumTypes
<1>4. /\ TotalOwed' = TotalOwed - Owed(t) + Owed(t)' /\ Owed(t) <= TotalOwed
      /\ TotalSettled' = TotalSettled - Settled(t) + Settled(t)'
      /\ TotalCovered' = TotalCovered - Covered(t) + Covered(t)'
      /\ TotalAwaited' = TotalAwaited - Awaited(t) + Awaited(t)'
      /\ \A b \in Books :
             /\ TotalKept(b)' = TotalKept(b) - Kept(t, b) + Kept(t, b)'
             /\ TotalPromised(b)' = TotalPromised(b) - Promised(t, b) + Promised(t, b)'
  BY TicketSums
<1>5. /\ TotalDue' = TotalDue /\ TotalClosed' = TotalClosed
      /\ \A b \in Books : TotalBack(b)' = TotalBack(b)
  BY ReturnSumsRest
<1>6. /\ Owed(t) \in Nat /\ Settled(t) \in Nat /\ Covered(t) \in Nat /\ Awaited(t) \in Nat
      /\ Owed(t)' \in Nat /\ Settled(t)' \in Nat /\ Covered(t)' \in Nat /\ Awaited(t)' \in Nat
      /\ \A b \in Books : /\ Kept(t, b) \in Nat /\ Promised(t, b) \in Nat
                          /\ Kept(t, b)' \in Nat /\ Promised(t, b)' \in Nat
  BY <1>1, <1>2 DEF Natural
<1>7. TotalAmount \in Nat /\ refunded \in Int /\ reservedAmount \in Int /\ paidOut \in Int /\ writtenOff \in Int
      /\ refunded' \in Int /\ reservedAmount' \in Int /\ paidOut' \in Int /\ writtenOff' \in Int
  BY TotalAmountType DEF TypeInv
<1>8. reservedAmount' = TotalOwed' + TotalDue' /\ refunded' = TotalSettled' + TotalClosed'
  BY <1>3, <1>4, <1>5, <1>6 DEF SumsInv, TicketMove
<1>9. refunded' + reservedAmount' <= TotalAmount
  BY <1>7 DEF SumsInv, TicketMove, WithinTotal
<1>10. paidOut' + TotalAwaited' <= refunded' + TotalCovered' + writtenOff'
  BY <1>3, <1>4, <1>6, <1>7 DEF SumsInv, TicketMove
<1>11. ASSUME NEW b \in Books
       PROVE  TotalKept(b)' + TotalBack(b)' <= Qty[b] /\ reserved'[b] = TotalPromised(b)'
  <2>1. /\ Qty[b] \in Nat /\ reserved[b] \in Nat
        /\ TotalKept(b) + TotalBack(b) <= Qty[b] /\ reserved[b] = TotalPromised(b)
    BY OrderAssumption DEF SumsInv, StockTypeOK
  <2>2. reserved'[b] = TotalPromised(b)'
    BY <1>3, <1>4, <1>6, <2>1 DEF TicketMove
  <2>3. CASE Kept(t, b)' <= Kept(t, b)
    BY <1>3, <1>4, <1>5, <1>6, <2>1, <2>2, <2>3
  <2>4. ASSUME NEW items \in Lines, LineEntitlements(t, items), Kept(t, b)' <= items[b]
        PROVE  TotalKept(b)' + TotalBack(b)' <= Qty[b]
    <3> DEFINE others == Compensated(b, LiveCompensations(LINE_COMPENSATION_TYPES) \ {t})
    <3>1. items[b] + Returned(b) + others <= Qty[b]
      BY <2>4 DEF LineEntitlements
    <3>2. TotalKept(b) - Kept(t, b) <= others
      BY OthersKept
    <3>3. Returned(b) = TotalBack(b)
      BY SumsAre
    <3>4. others \in Nat
      <4>1. IsFiniteSet(LiveCompensations(LINE_COMPENSATION_TYPES) \ {t})
        BY OrderAssumption, FS_Subset DEF LiveCompensations
      <4>2. \A u \in LiveCompensations(LINE_COMPENSATION_TYPES) \ {t} :
                [v \in Tickets |-> resolution[v].items[b]][u] \in Nat
        BY DEF LiveCompensations, TypeInv, Resolution, Lines
      <4> QED  BY <4>1, <4>2, TotalIsNat DEF Compensated
    <3>5. items[b] \in Nat
      BY DEF Lines
    <3> HIDE DEF others
    <3> QED  BY <1>3, <1>4, <1>5, <1>6, <2>1, <2>4, <3>1, <3>2, <3>3, <3>4, <3>5
  <2> QED  BY <2>2, <2>3, <2>4 DEF TicketMove
<1> QED  BY <1>8, <1>9, <1>10, <1>11 DEF SumsInv

(* The sums follow a step on one request.                                  *)
LEMMA ReturnMoveKeeps ==
    ASSUME SumsInv, TypeInv, TypeInv', StockTypeOK', LedgerExplainsStock', NEW r \in Requests,
           \A u \in Tickets : TicketRests(u), \A q \in Requests \ {r} : ReturnRests(q),
           ReturnMove(r)
    PROVE  SumsInv'
<1>1. Natural
  BY FacetTypes
<1>2. Natural'
  BY FacetTypes, PTL
<1>3. /\ TotalOwed \in Nat /\ TotalSettled \in Nat
      /\ TotalCovered \in Nat /\ TotalAwaited \in Nat
      /\ TotalDue \in Nat /\ TotalClosed \in Nat
      /\ \A b \in Books : TotalKept(b) \in Nat /\ TotalPromised(b) \in Nat /\ TotalBack(b) \in Nat
  BY SumTypes
<1>4. /\ TotalOwed' = TotalOwed /\ TotalSettled' = TotalSettled
      /\ TotalCovered' = TotalCovered /\ TotalAwaited' = TotalAwaited
      /\ \A b \in Books : TotalKept(b)' = TotalKept(b) /\ TotalPromised(b)' = TotalPromised(b)
  BY TicketSumsRest
<1>5. /\ TotalDue' = TotalDue - Due(r) + Due(r)'
      /\ TotalClosed' = TotalClosed - Closed(r) + Closed(r)'
      /\ \A b \in Books : TotalBack(b)' = TotalBack(b) - Back(r, b) + Back(r, b)'
  BY ReturnSums
<1>6. /\ Due(r) \in Nat /\ Closed(r) \in Nat /\ Due(r)' \in Nat /\ Closed(r)' \in Nat
      /\ \A b \in Books : Back(r, b) \in Nat /\ Back(r, b)' \in Nat
  BY <1>1, <1>2 DEF Natural
<1>7. TotalAmount \in Nat /\ refunded \in Int /\ reservedAmount \in Int /\ paidOut \in Int /\ writtenOff \in Int
      /\ refunded' \in Int /\ reservedAmount' \in Int /\ paidOut' \in Int /\ writtenOff' \in Int
  BY TotalAmountType DEF TypeInv
<1>8. reservedAmount' = TotalOwed' + TotalDue' /\ refunded' = TotalSettled' + TotalClosed'
  BY <1>3, <1>4, <1>5, <1>6 DEF SumsInv, ReturnMove
<1>9. refunded' + reservedAmount' <= TotalAmount
  BY <1>7 DEF SumsInv, ReturnMove, WithinTotal
<1>10. paidOut' + TotalAwaited' <= refunded' + TotalCovered' + writtenOff'
  BY <1>3, <1>4, <1>7 DEF SumsInv, ReturnMove
<1>11. ASSUME NEW b \in Books
       PROVE  TotalKept(b)' + TotalBack(b)' <= Qty[b] /\ reserved'[b] = TotalPromised(b)'
  <2>1. /\ Qty[b] \in Nat /\ reserved[b] \in Nat
        /\ TotalKept(b) + TotalBack(b) <= Qty[b] /\ reserved[b] = TotalPromised(b)
    BY OrderAssumption DEF SumsInv, StockTypeOK
  <2>2. reserved'[b] = TotalPromised(b)'
    BY <1>4, <2>1 DEF ReturnMove
  <2>3. CASE Back(r, b)' <= Back(r, b)
    BY <1>3, <1>4, <1>5, <1>6, <2>1, <2>2, <2>3
  <2>4. ASSUME NEW items \in Lines, ReturnEligible(items), Back(r, b)' <= items[b]
        PROVE  TotalKept(b)' + TotalBack(b)' <= Qty[b]
    <3>1. items[b] + TotalBack(b) + TotalKept(b) <= Qty[b] /\ items[b] \in Nat
      BY <2>4, SumsAre DEF ReturnEligible, Lines
    <3> QED  BY <1>3, <1>4, <1>5, <1>6, <2>1, <2>4, <3>1
  <2> QED  BY <2>2, <2>3, <2>4 DEF ReturnMove
<1> QED  BY <1>8, <1>9, <1>10, <1>11 DEF SumsInv

(* And stay when nothing moves.                                            *)
LEMMA RestKeeps ==
    ASSUME SumsInv, StockTypeOK', LedgerExplainsStock', \A u \in Tickets : TicketRests(u),
           \A r \in Requests : ReturnRests(r), UNCHANGED <<refunded, reservedAmount, paidOut, writtenOff>>,
           \A b \in Books : reserved'[b] = reserved[b]
    PROVE  SumsInv'
  BY TicketSumsRest, ReturnSumsRest DEF SumsInv

(* A ticket that is not touched.                                           *)
LEMMA Untouched ==
    ASSUME NEW u, resolution'[u] = resolution[u], gateway'[u] = gateway[u]
    PROVE  TicketRests(u)
  BY DEF TicketRests, Owed, Settled, Covered, Awaited, Kept, Promised

(* A ticket that counts for nothing.                                       *)
Weightless(t) ==
    /\ resolution[t].status \notin OpenRefund \cup {"REFUND_COMPLETED", "PREPARING"}
    /\ resolution[t].type \notin RETURN_CONSUMING_TYPES \/ resolution[t].status \in Released

(* Its sums are zero.                                                      *)
LEMMA WeightlessZero ==
    ASSUME NEW t, Weightless(t)
    PROVE  /\ Owed(t) = 0 /\ Settled(t) = 0 /\ Covered(t) = 0 /\ Awaited(t) = 0
           /\ \A b \in Books : Kept(t, b) = 0 /\ Promised(t, b) = 0
  BY DEF Weightless, Owed, Settled, Covered, Awaited, Kept, Promised

(* It may change without notice.                                           *)
LEMMA WeightlessRests == ASSUME NEW t, Weightless(t), Weightless(t)' PROVE TicketRests(t)
  BY DEF Weightless, TicketRests, Owed, Settled, Covered, Awaited, Kept, Promised

(* A ticket that can take a new resolution counts for nothing, and neither *)
(* does one that stands for a return.                                      *)
LEMMA FreeIsWeightless ==
    ASSUME ProtocolInv, NEW t \in Tickets
    PROVE  /\ Free(t, {"CANCELLED", "REFUND_FAILED"}) => Weightless(t)
           /\ resolution[t].status \in LinkStatuses => Weightless(t)
<1>1. TicketFits(t)
  BY DEF ProtocolInv
<1>2. /\ "NONE" \notin RETURN_CONSUMING_TYPES /\ "RETURN_REFUND" \notin RETURN_CONSUMING_TYPES
  BY DEF RETURN_CONSUMING_TYPES, LINE_COMPENSATION_TYPES, LOST_IN_TRANSIT_TYPES
<1>3. Free(t, {"CANCELLED", "REFUND_FAILED"}) => Weightless(t)
  BY <1>1, <1>2 DEF Free, Weightless, TicketFits, Released, OpenRefund
<1>4. resolution[t].status \in LinkStatuses => Weightless(t)
  BY <1>1, <1>2 DEF Weightless, TicketFits, LinkStatuses, OpenRefund
<1> QED  BY <1>3, <1>4

(* The same after a step.                                                  *)
LEMMA LinkedIsWeightless ==
    ASSUME ProtocolInv', NEW t \in Tickets, resolution'[t].status \in LinkStatuses
    PROVE  Weightless(t)'
<1>1. TicketFits(t)'
  BY DEF ProtocolInv
<1> QED
  BY <1>1 DEF TicketFits, LinkStatuses, Weightless, OpenRefund, RETURN_CONSUMING_TYPES,
     LINE_COMPENSATION_TYPES, LOST_IN_TRANSIT_TYPES

(* A refund that stays open stands for the same.                           *)
LEMMA OpenRests ==
    ASSUME NEW t \in Tickets, Keeps(t), resolution[t].status \in OpenRefund,
           resolution'[t].status \in OpenRefund, gateway'[t] = gateway[t]
    PROVE  TicketRests(t)
  BY DEF Keeps, OpenRefund, Released, TicketRests, Owed, Settled, Covered, Awaited, Kept, Promised

(* The stock moves by one movement, or not at all.                         *)
LEMMA StockMoves ==
    ASSUME ProtocolInv, Next
    PROVE  \/ UNCHANGED stockVars
           \/ \E type \in MovementTypes, copies \in Lines : applyMovement(type, copies)
<1> USE DEF MovementTypes
<1>0. /\ \A r \in Requests : returns[r].items \in Lines
      /\ \A t \in Tickets : resolution[t].items \in Lines
      /\ \A a \in Handlers : job[a].items \in Lines
  BY DEF ProtocolInv, TypeInv, ReturnRecord, Resolution, Job
<1>1. ASSUME NEW r \in Requests,
             \/ \E items \in Baskets : ask(r, items)
             \/ \E verdict \in {"RETURNING", "REJECTED"} : answer(r, verdict)
             \/ \E restock \in Restocked : receiveReturnRequest(r, restock)
             \/ closeReturnAndTicket(r)
             \/ \E a \in Agents : executeReturnRefund(a, r)
      PROVE  UNCHANGED stockVars \/ applyMovement("RETURN_IN", returns[r].items)
  BY <1>1 DEF ask, answer, receiveReturnRequest, closeReturnAndTicket, executeReturnRefund
<1>2. ASSUME NEW a \in Agents,
             \/ Staff(a) \/ (Handler(a) /\ ~\E r \in Requests : executeReturnRefund(a, r))
             \/ crash(a)
      PROVE  \/ UNCHANGED stockVars \/ applyMovement("SALE_OUT", job[a].items)
             \/ job[a].ticket \in Tickets /\ applyMovement("SHIP_OUT", resolution[job[a].ticket].items)
  <2>1. CASE prepareReship(a)
    BY <2>1 DEF prepareReship
  <2>2. CASE dispatchReship(a)
    BY <2>2 DEF dispatchReship, ProtocolInv, JobFits, at
  <2>3. CASE Staff(a) \/ crash(a) \/ refuse(a)
    BY <2>3, OnlyItsJob
  <2>4. CASE \/ \E r \in Requests : createLinkedReturn(a, r)
             \/ syncAfterRefund(a) \/ reserveRefundAndResolution(a) \/ submit(a)
             \/ recordAnswer(a) \/ initializeResolution(a) \/ approveLinkedReturn(a)
             \/ linkReturn(a) \/ giveUp(a)
    BY <2>4 DEF createLinkedReturn, syncAfterRefund, reserveRefundAndResolution, submit,
       recordAnswer, initializeResolution, approveLinkedReturn, linkReturn, giveUp
  <2> QED  BY <1>2, <2>1, <2>2, <2>3, <2>4 DEF Handler
<1>3. ASSUME NEW c \in Couriers, Courier(c)
      PROVE  UNCHANGED stockVars
  BY <1>3 DEF Courier, checkDelivery, adminMarkDelivered
<1>4. ASSUME NEW t \in Tickets, cancelReship(t) \/ deliverReship(t) \/ Refunds(t)
      PROVE  UNCHANGED stockVars \/ applyMovement("RESERVE_IN", resolution[t].items)
  BY <1>4 DEF cancelReship, restoreItems, deliverReship, Refunds, recoverStaleRefundPending,
     reconcileProcessingRefund, bankDecides, completeManualRefund
<1> QED
  BY Moves, <1>0, <1>1, <1>2, <1>3, <1>4 DEF Handlers

(* So the counters stay natural, and the ledger explains them.             *)
LEMMA StockNext ==
    ASSUME ProtocolInv, StockTypeOK, LedgerExplainsStock, Next
    PROVE  StockTypeOK' /\ LedgerExplainsStock'
<1>1. CASE UNCHANGED stockVars
  BY <1>1 DEF stockVars, StockTypeOK, LedgerExplainsStock
<1>2. ASSUME NEW type \in MovementTypes, NEW copies \in Lines, applyMovement(type, copies)
      PROVE  StockTypeOK' /\ LedgerExplainsStock'
  BY <1>2, MovementType, MovementLedger DEF Lines
<1> QED  BY <1>1, <1>2, StockMoves

(* Tickets that follow a closed return count for nothing.                  *)
LEMMA SyncRests ==
    ASSUME ProtocolInv, ProtocolInv', OrderGoesOn, NEW r \in Requests, syncLinkedTicket(r),
           gateway' = gateway
    PROVE  \A u \in Tickets : TicketRests(u)
<1> SUFFICES ASSUME NEW u \in Tickets
             PROVE  TicketRests(u)
  OBVIOUS
<1>1. CASE resolution[u].type = "RETURN_REFUND" /\ resolution[u].req = r
  <2>1. resolution[u].status \in LinkStatuses /\ resolution'[u].status \in LinkStatuses
    BY <1>1, SyncFits DEF LinkStatuses
  <2> QED  BY <2>1, FreeIsWeightless, LinkedIsWeightless, WeightlessRests
<1>2. CASE ~(resolution[u].type = "RETURN_REFUND" /\ resolution[u].req = r)
  BY <1>2, Untouched DEF syncLinkedTicket
<1> QED  BY <1>1, <1>2

(* A new request takes what the order's lines still allow.                 *)
LEMMA AskSums ==
    ASSUME TypeInv, TypeInv', SumsInv, StockTypeOK', LedgerExplainsStock',
           NEW r \in Requests, NEW items \in Lines, createReturnRequest(r, items),
           UNCHANGED <<refunded, reservedAmount, paidOut, writtenOff, resolution, gateway, reserved>>
    PROVE  SumsInv'
<1>0. refunded \in Int /\ reservedAmount \in Int /\ paidOut \in Int /\ writtenOff \in Int
  BY DEF TypeInv
<1>1. /\ returns[r].status = "NONE" /\ ReturnEligible(items)
      /\ returns' = [returns EXCEPT ![r] = [status |-> "PENDING", items |-> items, amount |-> 0]]
  BY DEF createReturnRequest
<1>2. /\ returns'[r] = [status |-> "PENDING", items |-> items, amount |-> 0]
      /\ \A q \in Requests \ {r} : returns'[q] = returns[q]
  BY <1>1 DEF TypeInv
<1>3. /\ Due(r) = 0 /\ Closed(r) = 0 /\ Due(r)' = 0 /\ Closed(r)' = 0
      /\ \A b \in Books : Back(r, b)' = items[b]
  BY <1>1, <1>2 DEF Due, Closed, Back
<1>4. ReturnMove(r)
  <2>1. \A b \in Books : Back(r, b)' <= items[b]
    BY <1>3 DEF Lines
  <2> QED  BY <1>0, <1>1, <1>3, <2>1 DEF ReturnMove, WithinTotal
<1>5. \A q \in Requests \ {r} : ReturnRests(q)
  BY <1>2 DEF ReturnRests, Due, Closed, Back
<1> QED  BY <1>4, <1>5, Untouched, ReturnMoveKeeps

(* The sums follow the steps on return requests.                           *)
LEMMA ReturnsSums ==
    ASSUME ProtocolInv, ProtocolInv', OrderGoesOn, SumsInv, StockTypeOK', LedgerExplainsStock',
           NEW r \in Requests,
           \/ \E items \in Baskets : ask(r, items)
           \/ \E verdict \in {"RETURNING", "REJECTED"} : answer(r, verdict)
           \/ \E restock \in Restocked : receiveReturnRequest(r, restock)
           \/ closeReturnAndTicket(r)
           \/ \E a \in Agents : executeReturnRefund(a, r)
    PROVE  SumsInv'
<1> USE DEF moneyVars, gatewayVars, mistakeVars, stockVars
<1>0. /\ TypeInv /\ TypeInv' /\ returns[r] \in ReturnRecord
      /\ refunded \in Int /\ reservedAmount \in Int /\ paidOut \in Int /\ writtenOff \in Int
      /\ returns[r].amount \in Nat /\ \A b \in Books : returns[r].items[b] \in Nat
  BY DEF ProtocolInv, TypeInv, ReturnRecord, Lines
<1>1. ASSUME NEW items \in Baskets, ask(r, items)
      PROVE  SumsInv'
  <2>1. /\ UNCHANGED <<refunded, reservedAmount, paidOut, writtenOff, resolution, gateway, reserved>>
        /\ createReturnRequest(r, items)
    BY <1>1 DEF ask
  <2> QED  BY <1>0, <2>1, BasketType, AskSums
<1>2. ASSUME NEW verdict \in {"RETURNING", "REJECTED"}, answer(r, verdict)
      PROVE  SumsInv'
  <2>1. /\ UNCHANGED <<refunded, reservedAmount, paidOut, writtenOff, resolution, gateway, stock, reserved>>
        /\ returns[r].status = "PENDING" /\ returns' = [returns EXCEPT ![r].status = verdict]
    BY <1>2 DEF answer, resolveReturnRequest
  <2>2. /\ returns'[r].status = verdict /\ returns'[r].items = returns[r].items
        /\ \A q \in Requests \ {r} : returns'[q] = returns[q]
    BY <2>1, <1>0 DEF TypeInv, ReturnRecord
  <2>3. /\ Due(r) = 0 /\ Closed(r) = 0 /\ Due(r)' = 0 /\ Closed(r)' = 0
        /\ \A b \in Books : Back(r, b)' <= Back(r, b)
    BY <2>1, <2>2, <1>0 DEF Due, Closed, Back
  <2>4. ReturnMove(r)
    BY <1>0, <2>1, <2>3 DEF ReturnMove, WithinTotal
  <2>5. \A q \in Requests \ {r} : ReturnRests(q)
    BY <2>2 DEF ReturnRests, Due, Closed, Back
  <2> QED  BY <1>0, <2>1, <2>4, <2>5, Untouched, ReturnMoveKeeps
<1>3. ASSUME NEW restock \in Restocked, receiveReturnRequest(r, restock)
      PROVE  SumsInv'
  <2> DEFINE quoted == Smaller(calculateRefundAmount(returns[r].items), Headroom)
  <2>1. PICK amount : amount = quoted
    OBVIOUS
  <2>2. /\ UNCHANGED <<refunded, paidOut, writtenOff, gateway>> /\ returns[r].status = "RETURNING"
        /\ reservedAmount' = reservedAmount + amount
        /\ returns' = [returns EXCEPT ![r].status = IF amount = 0 THEN "CLOSED" ELSE "RECEIVED",
                                      ![r].amount = amount]
        /\ UNCHANGED resolution \/ syncLinkedTicket(r)
        /\ UNCHANGED reserved \/ applyMovement("RETURN_IN", returns[r].items)
    BY <1>3, <2>1 DEF receiveReturnRequest
  <2>3. amount \in Nat /\ (refunded + reservedAmount <= TotalAmount
                               => refunded + reservedAmount + amount <= TotalAmount)
    <3>1. calculateRefundAmount(returns[r].items) \in Nat /\ Headroom \in Nat
      BY <1>0, AmountType DEF ReturnRecord
    <3>2. TotalAmount \in Nat
      BY TotalAmountType
    <3> QED  BY <1>0, <2>1, <3>1, <3>2 DEF Smaller, Headroom, Larger
  <2> HIDE DEF quoted
  <2>4. /\ returns'[r].status = (IF amount = 0 THEN "CLOSED" ELSE "RECEIVED")
        /\ returns'[r].amount = amount /\ returns'[r].items = returns[r].items
        /\ \A q \in Requests \ {r} : returns'[q] = returns[q]
    BY <2>2, <1>0 DEF TypeInv, ReturnRecord
  <2>5. /\ Due(r) = 0 /\ Closed(r) = 0 /\ Due(r)' = amount /\ Closed(r)' = 0
        /\ \A b \in Books : Back(r, b)' = Back(r, b)
    <3>1. Due(r) = 0 /\ Closed(r) = 0
      BY <2>2 DEF Due, Closed
    <3>2. Due(r)' = amount /\ Closed(r)' = 0
      <4>1. CASE amount = 0
        BY <2>4, <4>1 DEF Due, Closed
      <4>2. CASE amount # 0
        BY <2>4, <4>2 DEF Due, Closed
      <4> QED  BY <4>1, <4>2
    <3>3. returns'[r].status \notin {"NONE", "REJECTED"}
      BY <2>4
    <3>4. \A b \in Books : Back(r, b)' = Back(r, b)
      BY <2>2, <2>4, <3>3 DEF Back
    <3> QED  BY <3>1, <3>2, <3>4
  <2>6. \A b \in Books : reserved'[b] = reserved[b]
    <3>1. CASE applyMovement("RETURN_IN", returns[r].items)
      BY <3>1, <1>0, ReservedMoves DEF SumsInv, MovementTypes, ReturnRecord, Lines
    <3> QED  BY <2>2, <3>1
  <2>7. ReturnMove(r)
    <3>1. refunded' + reservedAmount' <= TotalAmount
      BY <1>0, <2>2, <2>3 DEF SumsInv
    <3>2. \A b \in Books : Back(r, b)' <= Back(r, b)
      BY <2>5, <1>0, FacetTypes DEF Natural
    <3> QED  BY <1>0, <2>2, <2>3, <2>5, <2>6, <3>1, <3>2 DEF ReturnMove, WithinTotal
  <2>8. \A q \in Requests \ {r} : ReturnRests(q)
    BY <2>4 DEF ReturnRests, Due, Closed, Back
  <2>9. \A u \in Tickets : TicketRests(u)
    BY <2>2, SyncRests, Untouched
  <2> QED  BY <1>0, <2>7, <2>8, <2>9, ReturnMoveKeeps
<1>4. ASSUME closeReturn(r), UNCHANGED <<stock, reserved, writtenOff>>, \A u \in Tickets : TicketRests(u)
      PROVE  SumsInv'
  <2>1. /\ returns[r].status = "RECEIVED" /\ returns' = [returns EXCEPT ![r].status = "CLOSED"]
        /\ reservedAmount' = reservedAmount - returns[r].amount
        /\ refunded' = refunded + returns[r].amount /\ paidOut' = paidOut + returns[r].amount
    BY <1>4 DEF closeReturn
  <2>2. /\ returns'[r].status = "CLOSED" /\ returns'[r].items = returns[r].items
        /\ returns'[r].amount = returns[r].amount
        /\ \A q \in Requests \ {r} : returns'[q] = returns[q]
    BY <2>1, <1>0 DEF TypeInv, ReturnRecord
  <2>3. /\ Due(r) = returns[r].amount /\ Closed(r) = 0
        /\ Due(r)' = 0 /\ Closed(r)' = returns[r].amount
        /\ \A b \in Books : Back(r, b)' <= Back(r, b)
    BY <2>1, <2>2, <1>0 DEF Due, Closed, Back
  <2>4. ReturnMove(r)
    BY <1>0, <1>4, <2>1, <2>3 DEF ReturnMove, WithinTotal
  <2>5. \A q \in Requests \ {r} : ReturnRests(q)
    BY <2>2 DEF ReturnRests, Due, Closed, Back
  <2> QED  BY <1>0, <1>4, <2>4, <2>5, ReturnMoveKeeps
<1>5. CASE closeReturnAndTicket(r)
  <2>1. /\ closeReturn(r) /\ syncLinkedTicket(r) /\ gateway' = gateway
        /\ UNCHANGED <<stock, reserved, writtenOff>>
    BY <1>5 DEF closeReturnAndTicket
  <2> QED  BY <1>4, <2>1, SyncRests
<1>6. ASSUME NEW a \in Agents, executeReturnRefund(a, r)
      PROVE  SumsInv'
  <2>1. closeReturn(r) /\ UNCHANGED <<resolution, gateway, stock, reserved, writtenOff>>
    BY <1>6 DEF executeReturnRefund
  <2> QED  BY <1>4, <2>1, Untouched
<1> QED  BY <1>1, <1>2, <1>3, <1>5, <1>6

(* Nothing that the sums are about changes.                                *)
LEMMA QuietSums ==
    ASSUME SumsInv, StockTypeOK', LedgerExplainsStock', \A u \in Tickets : TicketRests(u),
           UNCHANGED <<refunded, reservedAmount, paidOut, writtenOff, returns, reserved>>
    PROVE  SumsInv'
<1>1. \A r \in Requests : ReturnRests(r)
  BY DEF ReturnRests, Due, Closed, Back
<1> QED  BY <1>1, RestKeeps

(* A refund is settled: its amount passes from one counter to the other.   *)
LEMMA SettleSums ==
    ASSUME TypeInv, TypeInv', SumsInv, StockTypeOK', LedgerExplainsStock', NEW t \in Tickets,
           resolution[t].status \in OpenRefund, settle(t),
           UNCHANGED <<returns, gateway, writtenOff, reserved>>,
           \/ paidOut' = paidOut
           \/ gateway[t] \notin {"pending", "paid"} /\ paidOut' = paidOut + resolution[t].amount
    PROVE  SumsInv'
<1>0. /\ refunded \in Int /\ reservedAmount \in Int /\ paidOut \in Int /\ writtenOff \in Int
      /\ resolution[t].amount \in Nat /\ \A b \in Books : resolution[t].items[b] \in Nat
  BY DEF TypeInv, Resolution, Lines
<1>1. Keeps(t) /\ resolution'[t].status = "REFUND_COMPLETED"
  BY RefundMoves
<1>2. /\ reservedAmount' = reservedAmount - resolution[t].amount
      /\ refunded' = refunded + resolution[t].amount
  BY DEF settle
<1>3. /\ Owed(t) = resolution[t].amount /\ Owed(t)' = 0
      /\ Settled(t) = 0 /\ Settled(t)' = resolution[t].amount
  BY <1>1 DEF Owed, Settled, OpenRefund, Keeps
<1>4. /\ Covered(t) = (IF gateway[t] = "paid" THEN resolution[t].amount ELSE 0)
      /\ Covered(t)' = 0 /\ Awaited(t) = 0
      /\ Awaited(t)' = (IF gateway[t] = "pending" THEN resolution[t].amount ELSE 0)
  BY <1>3 DEF Covered, Awaited
<1>5. \A b \in Books : Kept(t, b)' <= Kept(t, b) /\ Promised(t, b) = 0 /\ Promised(t, b)' = 0
  BY <1>0, <1>1 DEF Keeps, OpenRefund, Released, Kept, Promised
<1>6. \A b \in Books : reserved[b] \in Nat
  BY DEF SumsInv, StockTypeOK
<1>7. TicketMove(t)
  BY <1>0, <1>2, <1>3, <1>4, <1>5, <1>6 DEF TicketMove, WithinTotal
<1>8. /\ \A u \in Tickets \ {t} : TicketRests(u)
      /\ \A r \in Requests : ReturnRests(r)
  BY <1>1, Untouched DEF Keeps, ReturnRests, Due, Closed, Back
<1> QED  BY <1>7, <1>8, TicketMoveKeeps

(* A refund the bank has not paid is released, or one that it has paid or  *)
(* may pay is disowned.                                                    *)
LEMMA ReleaseSums ==
    ASSUME TypeInv, TypeInv', SumsInv, StockTypeOK', LedgerExplainsStock', NEW t \in Tickets,
           resolution[t].status \in OpenRefund, release(t), UNCHANGED <<returns, reserved>>,
           \/ gateway[t] # "paid" /\ UNCHANGED <<gateway, paidOut, writtenOff>>
           \/ Disowned(t)
    PROVE  SumsInv'
<1>0. /\ refunded \in Int /\ reservedAmount \in Int /\ paidOut \in Int /\ writtenOff \in Int
      /\ resolution[t].amount \in Nat /\ \A b \in Books : resolution[t].items[b] \in Nat
  BY DEF TypeInv, Resolution, Lines
<1>1. Keeps(t) /\ resolution'[t].status = "REFUND_FAILED"
  BY RefundMoves
<1>2. /\ reservedAmount' = reservedAmount - resolution[t].amount
      /\ refunded' = refunded
  BY DEF release
<1>3. /\ Owed(t) = resolution[t].amount /\ Owed(t)' = 0 /\ Settled(t) = 0 /\ Settled(t)' = 0
      /\ Covered(t) = (IF gateway[t] = "paid" THEN resolution[t].amount ELSE 0)
      /\ Covered(t)' = 0 /\ Awaited(t) = 0 /\ Awaited(t)' = 0
  BY <1>1 DEF Owed, Settled, Covered, Awaited, OpenRefund
<1>4. \A u \in Tickets \ {t} : gateway'[u] = gateway[u]
  BY DEF Disowned, TypeInv
<1>5. \A b \in Books : Kept(t, b)' <= Kept(t, b) /\ Promised(t, b) = 0 /\ Promised(t, b)' = 0
  BY <1>0, <1>1 DEF Keeps, OpenRefund, Released, Kept, Promised
<1>6. \A b \in Books : reserved[b] \in Nat
  BY DEF SumsInv, StockTypeOK
<1>7. paidOut' - Covered(t)' - writtenOff' <= paidOut - Covered(t) - writtenOff
  <2>1. CASE gateway[t] # "paid" /\ UNCHANGED <<gateway, paidOut, writtenOff>>
    BY <1>0, <1>3, <2>1
  <2>2. CASE Disowned(t)
    BY <1>0, <1>3, <2>2 DEF Disowned
  <2> QED  BY <2>1, <2>2
<1>8. paidOut' \in Int /\ writtenOff' \in Int
  BY DEF TypeInv
<1>9. TicketMove(t)
  BY <1>0, <1>2, <1>3, <1>5, <1>6, <1>7, <1>8 DEF TicketMove, WithinTotal
<1>10. /\ \A u \in Tickets \ {t} : TicketRests(u)
       /\ \A r \in Requests : ReturnRests(r)
  BY <1>1, <1>4, Untouched DEF Keeps, ReturnRests, Due, Closed, Back
<1> QED  BY <1>9, <1>10, TicketMoveKeeps

(* The bank's side of a refund moves, and what it pays is covered, or was  *)
(* awaited.                                                                *)
LEMMA BankSums ==
    ASSUME TypeInv, TypeInv', SumsInv, StockTypeOK', LedgerExplainsStock', NEW t \in Tickets,
           NEW effect \in GatewayStates,
           \/ resolution[t].status \in OpenRefund
           \/ resolution[t].status = "REFUND_COMPLETED" /\ gateway[t] = "pending",
           gateway[t] # "paid", gateway' = [gateway EXCEPT ![t] = effect],
           paidOut' = IF effect = "paid" THEN paidOut + resolution[t].amount ELSE paidOut,
           UNCHANGED <<returns, resolution, refunded, reservedAmount, writtenOff, reserved>>
    PROVE  SumsInv'
<1>0. /\ refunded \in Int /\ reservedAmount \in Int /\ paidOut \in Int /\ writtenOff \in Int
      /\ resolution[t].amount \in Nat /\ \A b \in Books : resolution[t].items[b] \in Nat
  BY DEF TypeInv, Resolution, Lines
<1>1. gateway'[t] = effect /\ \A u \in Tickets \ {t} : gateway'[u] = gateway[u]
  BY DEF TypeInv
<1>3. Owed(t)' = Owed(t) /\ Settled(t)' = Settled(t) /\ Owed(t) \in Nat /\ Settled(t) \in Nat
  BY <1>0 DEF Owed, Settled
<1>4. paidOut' + Awaited(t)' - Covered(t)' <= paidOut + Awaited(t) - Covered(t)
  <2>1. CASE resolution[t].status \in OpenRefund
    <3>1. Owed(t) = resolution[t].amount /\ Settled(t) = 0
      BY <2>1 DEF Owed, Settled, OpenRefund
    <3>2. /\ Covered(t) = 0 /\ Awaited(t) = 0 /\ Awaited(t)' = 0
          /\ Covered(t)' = (IF effect = "paid" THEN resolution[t].amount ELSE 0)
      BY <1>1, <1>3, <3>1 DEF Covered, Awaited
    <3> QED  BY <1>0, <3>2
  <2>2. CASE resolution[t].status = "REFUND_COMPLETED" /\ gateway[t] = "pending"
    <3>1. Owed(t) = 0 /\ Settled(t) = resolution[t].amount
      BY <2>2 DEF Owed, Settled, OpenRefund
    <3>2. /\ Covered(t) = 0 /\ Covered(t)' = 0 /\ Awaited(t) = resolution[t].amount
          /\ Awaited(t)' = (IF effect = "pending" THEN resolution[t].amount ELSE 0)
      BY <1>1, <1>3, <2>2, <3>1 DEF Covered, Awaited
    <3> QED  BY <1>0, <3>2
  <2> QED  BY <2>1, <2>2
<1>5. \A b \in Books : Kept(t, b)' <= Kept(t, b) /\ Promised(t, b) = 0 /\ Promised(t, b)' = 0
  BY <1>0, <1>1 DEF OpenRefund, Kept, Promised
<1>6. \A b \in Books : reserved[b] \in Nat
  BY DEF SumsInv, StockTypeOK
<1>7. TicketMove(t)
  <2>1. /\ Awaited(t) \in Nat /\ Covered(t) \in Nat /\ Awaited(t)' \in Nat /\ Covered(t)' \in Nat
        /\ paidOut' \in Int
    BY <1>3 DEF Awaited, Covered, TypeInv
  <2> QED  BY <1>0, <1>3, <1>4, <1>5, <1>6, <2>1 DEF TicketMove, WithinTotal
<1>8. /\ \A u \in Tickets \ {t} : TicketRests(u)
      /\ \A r \in Requests : ReturnRests(r)
  BY <1>1, Untouched DEF ReturnRests, Due, Closed, Back
<1> QED  BY <1>7, <1>8, TicketMoveKeeps

(* The sums follow the refund job, the bank and the staff who pay by hand. *)
LEMMA RefundsSums ==
    ASSUME ProtocolInv, ProtocolInv', SumsInv, StockTypeOK', LedgerExplainsStock',
           NEW t \in Tickets, Refunds(t)
    PROVE  SumsInv'
<1> USE DEF moneyVars, gatewayVars, mistakeVars, stockVars
<1>0. TypeInv /\ TypeInv' /\ GatewayFits(t) /\ method \in {"COD", "VNPAY", "MOMO"}
  BY DEF ProtocolInv, TypeInv
<1>1. CASE recoverStaleRefundPending(t)
  <2>1. /\ resolution[t].status = "REFUND_PENDING"
        /\ resolution' = [resolution EXCEPT ![t].status = "REFUND_PROCESSING"]
        /\ UNCHANGED <<refunded, reservedAmount, paidOut, writtenOff, returns, reserved, gateway>>
    BY <1>1 DEF recoverStaleRefundPending
  <2>2. Keeps(t) /\ resolution'[t].status = "REFUND_PROCESSING"
    BY <2>1, <1>0 DEF Keeps, TypeInv, Resolution
  <2>3. \A u \in Tickets : TicketRests(u)
    BY <2>1, <2>2, OpenRests, Untouched DEF Keeps, OpenRefund
  <2> QED  BY <2>1, <2>3, QuietSums
<1>2. CASE bankDecides(t)
  <2>1. /\ gateway[t] = "pending"
        /\ UNCHANGED <<returns, resolution, refunded, reservedAmount, writtenOff, reserved>>
        /\ \E effect \in GatewayStates :
               /\ gateway' = [gateway EXCEPT ![t] = effect]
               /\ paidOut' = IF effect = "paid" THEN paidOut + resolution[t].amount ELSE paidOut
    BY <1>2 DEF bankDecides, GatewayStates
  <2>2. resolution[t].status \in OpenRefund \cup {"REFUND_COMPLETED"}
    BY <2>1, <1>0 DEF GatewayFits
  <2> QED  BY <1>0, <2>1, <2>2, BankSums
<1>3. CASE reconcileProcessingRefund(t)
  <2>1. resolution[t].status = "REFUND_PROCESSING" /\ UNCHANGED <<returns, reserved>>
    BY <1>3 DEF reconcileProcessingRefund
  <2>2. CASE ReleasedUnpaid(t) \/ Disowned(t)
    BY <1>0, <2>1, <2>2, ReleaseSums DEF ReleasedUnpaid, Disowned, OpenRefund
  <2>3. CASE Recorded(t)
    BY <1>0, <2>1, <2>3, SettleSums DEF Recorded, OpenRefund
  <2>4. CASE HandedOver(t)
    <3>1. /\ Keeps(t) /\ resolution'[t].status = "REFUND_MANUAL_REQUIRED"
          /\ UNCHANGED <<gateway, paidOut, writtenOff>>
      BY <2>4, <1>0, RefundMoves DEF HandedOver
    <3>2. \A u \in Tickets : TicketRests(u)
      BY <2>1, <3>1, OpenRests, Untouched DEF Keeps, OpenRefund
    <3>3. UNCHANGED <<refunded, reservedAmount>>
      BY <2>4 DEF HandedOver, moveToManualRefund
    <3> QED  BY <2>1, <3>1, <3>2, <3>3, QuietSums
  <2> QED  BY <1>3, <2>2, <2>3, <2>4, Verdicts
<1>4. CASE completeManualRefund(t)
  <2>1. /\ resolution[t].status = "REFUND_MANUAL_REQUIRED" /\ settle(t)
        /\ UNCHANGED <<returns, gateway, writtenOff, reserved>>
        /\ paidOut' = IF gateway[t] = "paid" THEN paidOut ELSE paidOut + resolution[t].amount
    BY <1>4 DEF completeManualRefund
  <2>2. gateway[t] # "pending"
    BY <1>0, <2>1 DEF GatewayFits
  <2> QED  BY <1>0, <2>1, <2>2, SettleSums DEF OpenRefund
<1> QED  BY <1>1, <1>2, <1>3, <1>4 DEF Refunds

(* The sums follow the goods that are sent again.                          *)
LEMMA GoodsSums ==
    ASSUME ProtocolInv, ProtocolInv', SumsInv, StockTypeOK', LedgerExplainsStock',
           \/ \E a \in Agents : prepareReship(a) \/ dispatchReship(a)
           \/ \E t \in Tickets : cancelReship(t) \/ deliverReship(t)
           \/ \E c \in Couriers : Courier(c)
    PROVE  SumsInv'
<1> USE DEF moneyVars, gatewayVars, mistakeVars, stockVars
<1>0. /\ TypeInv /\ TypeInv' /\ StockTypeOK
      /\ refunded \in Int /\ reservedAmount \in Int /\ paidOut \in Int /\ writtenOff \in Int
      /\ \A b \in Books : reserved[b] \in Nat
  BY DEF ProtocolInv, TypeInv, SumsInv, StockTypeOK
<1>1. ASSUME NEW a \in Agents, prepareReship(a)
      PROVE  SumsInv'
  <2> SUFFICES ASSUME NEW t, t = job[a].ticket, NEW items, items = job[a].items
               PROVE  SumsInv'
    OBVIOUS
  <2>0. a \in Handlers /\ JobFits(a) /\ job[a] \in Job /\ items \in Lines
    BY DEF Handlers, ProtocolInv, TypeInv, Job
  <2>1. /\ job[a].pc = "prepare" /\ Free(t, {"CANCELLED"}) /\ LineEntitlements(t, items)
        /\ applyMovement("SALE_OUT", items) /\ resolve(a, "PREPARING")
        /\ UNCHANGED <<refunded, reservedAmount, paidOut, writtenOff, gateway, returns>>
    BY <1>1 DEF prepareReship, PrepareAllowed, at
  <2>2. t \in Tickets /\ job[a].type \in ReshipTypes
    BY <2>0, <2>1 DEF JobFits
  <2>3. /\ resolution'[t] = [NoResolution EXCEPT !.type = job[a].type, !.status = "PREPARING",
                                !.items = job[a].items, !.amount = job[a].amount]
        /\ \A u \in Tickets \ {t} : resolution'[u] = resolution[u] /\ gateway'[u] = gateway[u]
    BY <2>1, <2>2, <1>0 DEF resolve, TypeInv
  <2>4. resolution'[t].status = "PREPARING" /\ resolution'[t].items = items
    BY <2>3 DEF NoResolution
  <2>5. Weightless(t)
    BY <2>1, <2>2, FreeIsWeightless DEF Free
  <2>6. /\ Owed(t)' = 0 /\ Settled(t)' = 0 /\ Covered(t)' = 0 /\ Awaited(t)' = 0
        /\ \A b \in Books : Kept(t, b)' <= items[b] /\ Promised(t, b)' = items[b]
    BY <2>0, <2>4 DEF Owed, Settled, Covered, Awaited, Kept, Promised, OpenRefund, Lines
  <2>7. \A b \in Books : reserved'[b] = reserved[b] + items[b]
    BY <1>0, <2>0, <2>1, ReservedMoves DEF MovementTypes, Lines
  <2>8. TicketMove(t)
    BY <1>0, <2>0, <2>1, <2>5, <2>6, <2>7, WeightlessZero DEF TicketMove, WithinTotal, Lines
  <2>9. /\ \A u \in Tickets \ {t} : TicketRests(u)
        /\ \A r \in Requests : ReturnRests(r)
    BY <2>1, <2>3, Untouched DEF ReturnRests, Due, Closed, Back
  <2> QED  BY <1>0, <2>2, <2>8, <2>9, TicketMoveKeeps
<1>2. ASSUME NEW t \in Tickets, resolution[t].status = "PREPARING",
             NEW type \in {"SHIP_OUT", "RESERVE_IN"}, applyMovement(type, resolution[t].items),
             NEW new \in {"SHIPPED", "CANCELLED"},
             resolution' = [resolution EXCEPT ![t].status = new],
             UNCHANGED <<refunded, reservedAmount, paidOut, writtenOff, gateway, returns>>
      PROVE  SumsInv'
  <2>1. resolution[t] \in Resolution /\ resolution[t].items \in Lines
    BY <1>0 DEF TypeInv, Resolution
  <2>2. /\ resolution'[t].status = new /\ resolution'[t].type = resolution[t].type
        /\ resolution'[t].items = resolution[t].items
        /\ \A u \in Tickets \ {t} : resolution'[u] = resolution[u] /\ gateway'[u] = gateway[u]
    BY <1>2, <1>0, <2>1 DEF TypeInv, Resolution
  <2>3. /\ Owed(t) = 0 /\ Settled(t) = 0 /\ Covered(t) = 0 /\ Awaited(t) = 0
        /\ Owed(t)' = 0 /\ Settled(t)' = 0 /\ Covered(t)' = 0 /\ Awaited(t)' = 0
    BY <1>2, <2>2 DEF Owed, Settled, Covered, Awaited, OpenRefund
  <2>4. \A b \in Books : /\ Promised(t, b) = resolution[t].items[b] /\ Promised(t, b)' = 0
                         /\ Kept(t, b)' <= Kept(t, b) /\ resolution[t].items[b] \in Nat
    BY <1>2, <2>1, <2>2 DEF Promised, Kept, Released, Lines
  <2>5. \A b \in Books : reserved'[b] = reserved[b] - resolution[t].items[b]
    BY <1>0, <1>2, <2>1, ReservedMoves DEF MovementTypes, Lines
  <2>6. TicketMove(t)
    BY <1>0, <1>2, <2>3, <2>4, <2>5 DEF TicketMove, WithinTotal
  <2>7. /\ \A u \in Tickets \ {t} : TicketRests(u)
        /\ \A r \in Requests : ReturnRests(r)
    BY <1>2, <2>2, Untouched DEF ReturnRests, Due, Closed, Back
  <2> QED  BY <1>0, <2>6, <2>7, TicketMoveKeeps
<1>3. ASSUME NEW a \in Agents, dispatchReship(a)
      PROVE  SumsInv'
  <2>1. UNCHANGED <<refunded, reservedAmount, paidOut, writtenOff, gateway, returns>> /\ job[a].pc = "dispatch"
    BY <1>3 DEF dispatchReship, at
  <2>2. CASE UNCHANGED <<resolution, reserved>>
    BY <2>1, <2>2, Untouched, QuietSums
  <2>3. CASE /\ resolution[job[a].ticket].status = "PREPARING"
             /\ applyMovement("SHIP_OUT", resolution[job[a].ticket].items)
             /\ resolution' = [resolution EXCEPT ![job[a].ticket].status = "SHIPPED"]
    <3>1. job[a].ticket \in Tickets
      BY <2>1 DEF ProtocolInv, JobFits
    <3> QED  BY <1>2, <2>1, <2>3, <3>1
  <2> QED  BY <1>3, <2>2, <2>3 DEF dispatchReship, StillPreparing
<1>4. ASSUME NEW t \in Tickets, cancelReship(t)
      PROVE  SumsInv'
  BY <1>2, <1>4 DEF cancelReship, restoreItems
<1>5. ASSUME NEW t \in Tickets, deliverReship(t)
      PROVE  SumsInv'
  <2>1. /\ resolution[t].status = "SHIPPED"
        /\ resolution' = [resolution EXCEPT ![t].status = "DELIVERED"]
        /\ UNCHANGED <<refunded, reservedAmount, paidOut, writtenOff, gateway, returns, reserved>>
    BY <1>5 DEF deliverReship
  <2>2. /\ resolution'[t].status = "DELIVERED" /\ resolution'[t].type = resolution[t].type
        /\ resolution'[t].items = resolution[t].items
        /\ \A u \in Tickets \ {t} : resolution'[u] = resolution[u] /\ gateway'[u] = gateway[u]
    BY <1>0, <2>1 DEF TypeInv, Resolution
  <2>3. TicketRests(t)
    BY <2>1, <2>2 DEF TicketRests, Owed, Settled, Covered, Awaited, Kept, Promised, OpenRefund, Released
  <2> QED  BY <2>1, <2>2, <2>3, Untouched, QuietSums
<1>6. ASSUME NEW c \in Couriers, Courier(c)
      PROVE  SumsInv'
  <2>1. UNCHANGED <<refunded, reservedAmount, paidOut, writtenOff, gateway, returns, resolution, reserved>>
    BY <1>6 DEF Courier, checkDelivery, adminMarkDelivered
  <2> QED  BY <2>1, Untouched, QuietSums
<1> QED  BY <1>1, <1>3, <1>4, <1>5, <1>6

(* The sums follow staff's handlers.                                       *)
LEMMA HandlersSums ==
    ASSUME ProtocolInv, ProtocolInv', OrderGoesOn, SumsInv, StockTypeOK', LedgerExplainsStock',
           NEW a \in Agents,
           \/ Staff(a) \/ crash(a)
           \/ /\ Handler(a) /\ ~\E r \in Requests : executeReturnRefund(a, r)
              /\ ~prepareReship(a) /\ ~dispatchReship(a)
    PROVE  SumsInv'
<1> USE DEF moneyVars, gatewayVars, mistakeVars, stockVars
<1> SUFFICES ASSUME NEW t, t = job[a].ticket
             PROVE  SumsInv'
  OBVIOUS
<1>0. /\ TypeInv /\ TypeInv' /\ StockTypeOK /\ JobFits(a)
      /\ a \in Handlers /\ job[a] \in Job
      /\ job[a].items \in Lines /\ job[a].amount \in Nat
      /\ refunded \in Int /\ reservedAmount \in Int /\ paidOut \in Int /\ writtenOff \in Int
      /\ \A b \in Books : reserved[b] \in Nat
  BY DEF ProtocolInv, TypeInv, SumsInv, StockTypeOK, Handlers, Job
<1>1. CASE Staff(a) \/ refuse(a) \/ crash(a)
  <2>1. UNCHANGED <<refunded, reservedAmount, paidOut, writtenOff, returns, reserved, resolution, gateway>>
    BY <1>1, OnlyItsJob
  <2> QED  BY <2>1, Untouched, QuietSums
<1>2. ASSUME NEW r \in Requests, createLinkedReturn(a, r)
      PROVE  SumsInv'
  <2>1. /\ createReturnRequest(r, job[a].items)
        /\ UNCHANGED <<refunded, reservedAmount, paidOut, writtenOff, resolution, gateway, reserved>>
    BY <1>2 DEF createLinkedReturn
  <2> QED  BY <1>0, <2>1, AskSums
<1>3. CASE approveLinkedReturn(a)
  <2>1. /\ UNCHANGED <<refunded, reservedAmount, paidOut, writtenOff, resolution, gateway, reserved>>
        /\ returns[job[a].req].status = "PENDING"
        /\ returns' = [returns EXCEPT ![job[a].req].status = "RETURNING"]
        /\ job[a].req \in Requests
    BY <1>3, <1>0 DEF approveLinkedReturn, resolveReturnRequest, at, JobFits
  <2>2. /\ returns'[job[a].req].status = "RETURNING"
        /\ returns'[job[a].req].items = returns[job[a].req].items
        /\ \A q \in Requests : q # job[a].req => returns'[q] = returns[q]
    BY <2>1, <1>0 DEF TypeInv, ReturnRecord
  <2>3. \A q \in Requests : ReturnRests(q)
    BY <2>1, <2>2 DEF ReturnRests, Due, Closed, Back
  <2> QED  BY <2>1, <2>3, Untouched, RestKeeps
<1>4. CASE syncAfterRefund(a)
  <2>1. /\ syncLinkedTicket(job[a].req) /\ job[a].req \in Requests
        /\ UNCHANGED <<refunded, reservedAmount, paidOut, writtenOff, returns, reserved, gateway>>
    BY <1>4, <1>0 DEF syncAfterRefund, at, JobFits
  <2> QED  BY <2>1, SyncRests, QuietSums
<1>5. CASE linkReturn(a) \/ giveUp(a) \/ initializeResolution(a)
  <2>1. /\ UNCHANGED <<refunded, reservedAmount, paidOut, writtenOff, returns, reserved>>
        /\ gateway' = gateway \/ gateway' = [gateway EXCEPT ![t] = "none"]
    BY <1>5 DEF linkReturn, giveUp, initializeResolution, forgetRefund
  <2>2. t \in Tickets /\ Weightless(t)
    <3>1. t \in Tickets
      BY <1>5, <1>0 DEF linkReturn, giveUp, initializeResolution, at, JobFits
    <3>2. CASE linkReturn(a) \/ giveUp(a)
      <4>1. resolution[t].status = "INITIATING"
        BY <3>2, <1>0 DEF linkReturn, giveUp, at, JobFits, Links
      <4> QED  BY <3>1, <4>1, FreeIsWeightless DEF LinkStatuses
    <3>3. CASE initializeResolution(a)
      BY <3>1, <3>3, FreeIsWeightless DEF initializeResolution, Free
    <3> QED  BY <1>5, <3>1, <3>2, <3>3
  <2>3. resolution'[t].status \in LinkStatuses
    <3>1. resolution[t] \in Resolution /\ job[a].req \in Requests \cup {NoRequest}
      BY <2>2, <1>0 DEF TypeInv, Job
    <3>2. CASE linkReturn(a) \/ giveUp(a)
      BY <2>2, <3>1, <3>2, <1>0 DEF linkReturn, giveUp, LinkStatuses, TypeInv, Resolution
    <3>3. CASE initializeResolution(a)
      BY <2>2, <3>3, <1>0 DEF initializeResolution, resolve, NoResolution, LinkStatuses, TypeInv
    <3> QED  BY <1>5, <3>2, <3>3
  <2>4. \A u \in Tickets \ {t} : resolution'[u] = resolution[u] /\ gateway'[u] = gateway[u]
    BY <1>5, <2>1, <1>0 DEF linkReturn, giveUp, initializeResolution, resolve, TypeInv
  <2>5. \A u \in Tickets : TicketRests(u)
    BY <2>1, <2>2, <2>3, <2>4, LinkedIsWeightless, WeightlessRests, Untouched
  <2> QED  BY <2>1, <2>5, QuietSums
<1>6. CASE reserveRefundAndResolution(a)
  <2> DEFINE new == IF method = "COD" THEN "REFUND_MANUAL_REQUIRED" ELSE "REFUND_PENDING"
  <2>1. /\ job[a].pc = "reserve" /\ Free(t, {"REFUND_FAILED"})
        /\ LineEntitlements(t, job[a].items)
        /\ refunded + reservedAmount + job[a].amount <= TotalAmount
        /\ gateway' = [gateway EXCEPT ![t] = "none"] /\ resolve(a, new)
        /\ reservedAmount' = reservedAmount + job[a].amount
        /\ UNCHANGED <<refunded, paidOut, writtenOff, returns, reserved>>
    BY <1>6 DEF reserveRefundAndResolution, forgetRefund, at, ReserveAllowed
  <2>2. t \in Tickets
    BY <2>1, <1>0 DEF JobFits
  <2>3. /\ resolution'[t] = [NoResolution EXCEPT !.type = job[a].type, !.status = new,
                                !.items = job[a].items, !.amount = job[a].amount]
        /\ \A u \in Tickets \ {t} : resolution'[u] = resolution[u] /\ gateway'[u] = gateway[u]
        /\ gateway'[t] = "none"
    BY <2>1, <2>2, <1>0 DEF resolve, TypeInv
  <2>4. /\ resolution'[t].status \in {"REFUND_MANUAL_REQUIRED", "REFUND_PENDING"}
        /\ resolution'[t].items = job[a].items /\ resolution'[t].amount = job[a].amount
    BY <2>3 DEF NoResolution
  <2>5. Weightless(t)
    BY <2>1, <2>2, FreeIsWeightless DEF Free
  <2>6. /\ Owed(t)' = job[a].amount /\ Settled(t)' = 0 /\ Covered(t)' = 0 /\ Awaited(t)' = 0
        /\ \A b \in Books : Promised(t, b)' = 0
    BY <2>3, <2>4 DEF Owed, Settled, Covered, Awaited, Promised, OpenRefund
  <2>7. PICK items \in Lines : items = job[a].items
    BY <1>0
  <2>8. \A b \in Books : Kept(t, b)' <= items[b]
    BY <2>4, <2>7 DEF Kept, Lines
  <2>9. TicketMove(t)
    <3>1. LineEntitlements(t, items) /\ items \in Lines
      BY <2>1, <2>7
    <3>2. WithinTotal
      BY <1>0, <2>1 DEF WithinTotal
    <3> QED
      BY <1>0, <2>1, <2>5, <2>6, <2>8, <3>1, <3>2, WeightlessZero DEF TicketMove
  <2>10. /\ \A u \in Tickets \ {t} : TicketRests(u)
         /\ \A r \in Requests : ReturnRests(r)
    BY <2>1, <2>3, Untouched DEF ReturnRests, Due, Closed, Back
  <2> QED  BY <1>0, <2>2, <2>9, <2>10, TicketMoveKeeps
<1>7. CASE submit(a)
  <2>1. /\ t \in Tickets /\ resolution[t].status = "REFUND_PENDING" /\ gateway[t] = "none"
        /\ resolution[t].amount = job[a].amount
    BY <1>7, <1>0 DEF submit, at, JobFits
  <2>2. PICK effect \in {"none", "pending", "paid"} :
            /\ gateway' = [gateway EXCEPT ![t] = effect]
            /\ paidOut' = IF effect = "paid" THEN paidOut + resolution[t].amount ELSE paidOut
    BY <1>7, <2>1 DEF submit
  <2>3. UNCHANGED <<returns, resolution, refunded, reservedAmount, writtenOff, reserved>>
    BY <1>7 DEF submit
  <2> QED  BY <1>0, <2>1, <2>2, <2>3, BankSums DEF OpenRefund, GatewayStates
<1>8. CASE recordAnswer(a)
  <2>1. /\ t \in Tickets /\ job[a].pc = "record"
        /\ UNCHANGED <<returns, gateway, paidOut, writtenOff, reserved>>
    BY <1>8, <1>0 DEF recordAnswer, at, JobFits
  <2>2. CASE ~OwnsTicket(a)
    BY <1>8, <2>1, <2>2, Untouched, QuietSums DEF recordAnswer
  <2>3. CASE OwnsTicket(a) /\ job[a].answer = "paid" /\ settle(t)
    BY <1>0, <2>1, <2>3, SettleSums DEF OwnsTicket, OpenRefund
  <2>4. CASE OwnsTicket(a) /\ job[a].answer = "refused" /\ release(t)
    <3>1. resolution[t].status = "REFUND_PENDING" /\ gateway[t] = "none"
      BY <1>0, <2>1, <2>4 DEF OwnsTicket, JobFits
    <3> QED  BY <1>0, <2>1, <2>4, <3>1, ReleaseSums DEF OpenRefund
  <2>5. CASE /\ OwnsTicket(a) /\ UNCHANGED <<refunded, reservedAmount>>
             /\ resolution' = [resolution EXCEPT ![t].status = "REFUND_PROCESSING"]
    <3>1. Keeps(t) /\ resolution'[t].status = "REFUND_PROCESSING"
      BY <1>0, <2>1, <2>5, RefundMoves
    <3>2. resolution[t].status \in OpenRefund /\ resolution'[t].status \in OpenRefund
      BY <2>5, <3>1 DEF OpenRefund, OwnsTicket
    <3>3. TicketRests(t)
      BY <2>1, <3>1, <3>2, OpenRests
    <3>4. \A u \in Tickets \ {t} : TicketRests(u)
      BY <2>1, <3>1, Untouched DEF Keeps
    <3> QED  BY <2>1, <2>5, <3>3, <3>4, QuietSums
  <2> QED  BY <1>8, <2>2, <2>3, <2>4, <2>5 DEF recordAnswer
<1> QED  BY <1>1, <1>2, <1>3, <1>4, <1>5, <1>6, <1>7, <1>8 DEF Handler

(* A sum of zeros is zero.                                                 *)
LEMMA TotalZero == ASSUME NEW S, NEW f, \A x \in S : f[x] = 0 PROVE Total(S, f) = 0
<1>1. Total({}, f) = Total(S, f)
  BY TotalOfPart
<1> QED  BY <1>1, TotalEmpty

(* At the start nothing is promised.                                       *)
LEMMA SumsInit == Init => SumsInv
<1> SUFFICES ASSUME Init
             PROVE  SumsInv
  OBVIOUS
<1>1. StockTypeOK /\ LedgerExplainsStock
  BY OrderAssumption DEF Init, StockTypeOK, LedgerExplainsStock, Nothing
<1>2. \A t \in Tickets : Weightless(t)
  BY DEF Init, NoResolution, Weightless, OpenRefund, RETURN_CONSUMING_TYPES,
         LINE_COMPENSATION_TYPES, LOST_IN_TRANSIT_TYPES
<1>3. \A r \in Requests : /\ Due(r) = 0 /\ Closed(r) = 0
                          /\ \A b \in Books : Back(r, b) = 0
  BY DEF Init, NoReturn, Due, Closed, Back
<1>4. TotalOwed = 0 /\ TotalSettled = 0 /\ TotalCovered = 0 /\ TotalAwaited = 0
  BY <1>2, WeightlessZero, TotalZero DEF TotalOwed, TotalSettled, TotalCovered, TotalAwaited
<1>5. \A b \in Books : TotalKept(b) = 0 /\ TotalPromised(b) = 0
  BY <1>2, WeightlessZero, TotalZero DEF TotalKept, TotalPromised
<1>6. TotalDue = 0 /\ TotalClosed = 0 /\ \A b \in Books : TotalBack(b) = 0
  BY <1>3, TotalZero DEF TotalDue, TotalClosed, TotalBack
<1>7. refunded = 0 /\ reservedAmount = 0 /\ paidOut = 0 /\ writtenOff = 0
      /\ \A b \in Books : reserved[b] = 0
  BY DEF Init, Nothing
<1>8. TotalAmount \in Nat /\ \A b \in Books : Qty[b] \in Nat
  BY TotalAmountType, OrderAssumption
<1> QED  BY <1>1, <1>4, <1>5, <1>6, <1>7, <1>8 DEF SumsInv

(* Every step keeps the sums.                                              *)
LEMMA SumsNext ==
    ASSUME ProtocolInv, ProtocolInv', SumsInv, [Next]_vars
    PROVE  SumsInv'
<1>1. CASE Next
  <2>1. StockTypeOK' /\ LedgerExplainsStock'
    BY <1>1, StockNext DEF SumsInv
  <2>2. OrderGoesOn
    BY <1>1, OrderNext DEF ProtocolInv
  <2> QED
    BY <1>1, <2>1, <2>2, Moves, ReturnsSums, HandlersSums, GoodsSums, RefundsSums DEF Handler
<1>2. CASE UNCHANGED vars
  <2>1. UNCHANGED <<refunded, reservedAmount, paidOut, writtenOff, returns, reserved, resolution, gateway>>
    BY <1>2 DEF vars, moneyVars, gatewayVars, mistakeVars, stockVars
  <2>2. StockTypeOK' /\ LedgerExplainsStock'
    BY <1>2 DEF vars, stockVars, SumsInv, StockTypeOK, LedgerExplainsStock
  <2> QED  BY <2>1, <2>2, Untouched, QuietSums
<1> QED  BY <1>1, <1>2

(* When an order is closed as paid back, and when it is not.               *)
OrderClosed ==
    /\ status = "SHIPPED" => refunded # TotalAmount
    /\ status = "REFUNDED" => refunded = TotalAmount /\ givenBack = Spent

(* The refund that completes the price closes the order.                   *)
LEMMA SettleCloses ==
    ASSUME ProtocolInv, SumsInv, OrderClosed, NEW t \in Tickets,
           resolution[t].status \in OpenRefund, settle(t)
    PROVE  OrderClosed'
<1>1. /\ TypeInv /\ TicketFits(t) /\ resolution[t].amount \in Nat
  BY DEF ProtocolInv, TypeInv, Resolution
<1>2. resolution[t].amount > 0 /\ resolution[t].type \in RefundTypes
  BY <1>1 DEF TicketFits, RefundStatuses
<1>3. Owed(t) = resolution[t].amount /\ Natural
  BY <1>1, FacetTypes DEF Owed
<1>4. Owed(t) <= TotalOwed
  <2>1. IsFiniteSet(Tickets) /\ \A u \in Tickets : [v \in Tickets |-> Owed(v)][u] \in Nat
    BY <1>3, OrderAssumption DEF Natural
  <2> QED  BY <2>1, TotalRemove DEF TotalOwed
<1>5. TotalOwed \in Nat /\ TotalDue \in Nat /\ refunded \in Int /\ TotalAmount \in Nat
  BY <1>1, SumTypes, TotalAmountType DEF TypeInv
<1>6. refunded + resolution[t].amount <= TotalAmount /\ refunded < TotalAmount
  BY <1>1, <1>2, <1>3, <1>4, <1>5 DEF SumsInv
<1>7. status # "REFUNDED"
  BY <1>5, <1>6 DEF OrderClosed
<1>8. refunded' = refunded + resolution[t].amount
      /\ status' = IF LostOrderPaidBack(t) THEN "REFUNDED" ELSE status
  BY DEF settle
<1>9. CASE LostOrderPaidBack(t)
  <2>1. refunded' = TotalAmount
    BY <1>1, <1>5, <1>6, <1>8, <1>9 DEF LostOrderPaidBack
  <2>2. givenBack' = Spent
    BY <1>9 DEF settle, settlePoints, LostOrderPaidBack
  <2> QED  BY <1>8, <1>9, <2>1, <2>2 DEF OrderClosed
<1>10. CASE ~LostOrderPaidBack(t)
  <2>1. status = "SHIPPED" => resolution[t].type = "LOST_IN_TRANSIT_REFUND"
    BY <1>1, <1>2 DEF TicketFits, RefundTypes
  <2>2. status = "SHIPPED" => refunded' < TotalAmount
    BY <1>1, <1>5, <1>8, <1>10, <2>1 DEF LostOrderPaidBack
  <2> QED  BY <1>5, <1>7, <1>8, <1>10, <2>2 DEF OrderClosed
<1> QED  BY <1>9, <1>10

(* Every step closes the order when it must, and only then.                *)
LEMMA ClosedNext ==
    ASSUME ProtocolInv, SumsInv, OrderClosed, [Next]_vars
    PROVE  OrderClosed'
<1> USE DEF moneyVars, pointVars
<1>1. ASSUME NEW r \in Requests,
             \/ \E items \in Baskets : ask(r, items)
             \/ \E verdict \in {"RETURNING", "REJECTED"} : answer(r, verdict)
             \/ \E restock \in Restocked : receiveReturnRequest(r, restock)
             \/ closeReturnAndTicket(r)
             \/ \E a \in Agents : executeReturnRefund(a, r)
      PROVE  OrderClosed'
  <2>1. status = "DELIVERED"
    BY <1>1 DEF ask, createReturnRequest, ReturnEligible, answer, resolveReturnRequest,
                receiveReturnRequest, closeReturnAndTicket, executeReturnRefund, closeReturn,
                ProtocolInv, OrderFits
  <2>2. status' = status
    BY <1>1 DEF ask, answer, receiveReturnRequest, closeReturnAndTicket, executeReturnRefund
  <2> QED  BY <2>1, <2>2 DEF OrderClosed
<1>2. ASSUME NEW a \in Agents,
             \/ Staff(a) \/ (Handler(a) /\ ~\E r \in Requests : executeReturnRefund(a, r))
             \/ crash(a)
      PROVE  OrderClosed'
  <2>1. CASE recordAnswer(a)
    <3>1. CASE OwnsTicket(a) /\ settle(job[a].ticket)
      <4>1. /\ job[a].ticket \in Tickets
            /\ resolution[job[a].ticket].status \in OpenRefund
        BY <2>1, <3>1 DEF recordAnswer, at, ProtocolInv, JobFits, OwnsTicket, OpenRefund
      <4> QED  BY <3>1, <4>1, SettleCloses
    <3>2. CASE ~(OwnsTicket(a) /\ settle(job[a].ticket))
      <4>1. UNCHANGED <<status, refunded, givenBack>>
        BY <2>1, <3>2 DEF recordAnswer, release
      <4> QED  BY <4>1 DEF OrderClosed
    <3> QED  BY <3>1, <3>2
  <2>2. CASE ~recordAnswer(a)
    <3>1. UNCHANGED <<status, refunded, givenBack>>
      <4>1. CASE Staff(a) \/ refuse(a) \/ crash(a)
        BY <4>1, OnlyItsJob
      <4>2. CASE ~(Staff(a) \/ refuse(a) \/ crash(a))
        BY <1>2, <2>2, <4>2 DEF Handler, createLinkedReturn, approveLinkedReturn, linkReturn,
           giveUp, initializeResolution, syncAfterRefund, reserveRefundAndResolution, submit,
           prepareReship, dispatchReship
      <4> QED  BY <4>1, <4>2
    <3> QED  BY <3>1 DEF OrderClosed
  <2> QED  BY <2>1, <2>2
<1>3. ASSUME \/ \E c \in Couriers : Courier(c)
             \/ \E t \in Tickets : cancelReship(t) \/ deliverReship(t)
      PROVE  OrderClosed'
  BY <1>3 DEF Courier, checkDelivery, adminMarkDelivered, cancelReship, deliverReship,
     becomeDelivered, OrderClosed
<1>4. ASSUME NEW t \in Tickets, Refunds(t)
      PROVE  OrderClosed'
  <2>1. CASE bankDecides(t) \/ recoverStaleRefundPending(t)
    BY <2>1 DEF bankDecides, recoverStaleRefundPending, OrderClosed
  <2>2. CASE reconcileProcessingRefund(t)
    <3>1. resolution[t].status \in OpenRefund
      BY <2>2 DEF reconcileProcessingRefund, OpenRefund
    <3>2. CASE Recorded(t)
      BY <3>1, <3>2, SettleCloses DEF Recorded
    <3>3. CASE ReleasedUnpaid(t) \/ Disowned(t) \/ HandedOver(t)
      BY <3>3 DEF ReleasedUnpaid, Disowned, HandedOver, release, moveToManualRefund, OrderClosed
    <3> QED  BY <2>2, <3>2, <3>3, Verdicts
  <2>3. CASE completeManualRefund(t)
    <3>1. resolution[t].status \in OpenRefund /\ settle(t)
      BY <2>3 DEF completeManualRefund, OpenRefund
    <3> QED  BY <3>1, SettleCloses
  <2> QED  BY <1>4, <2>1, <2>2, <2>3 DEF Refunds
<1>5. CASE UNCHANGED vars
  BY <1>5 DEF vars, OrderClosed
<1> QED  BY Moves, <1>1, <1>2, <1>3, <1>4, <1>5

-----------------------------------------------------------------------------
(* The theorems.                                                           *)

(* The inductive invariant.                                                *)
BooksInv == ProtocolInv /\ SumsInv /\ OrderClosed

(* It holds throughout: documents, handlers, gateway and counters agree.   *)
THEOREM BooksBalance == Spec => []BooksInv
<1>1. Init => BooksInv
  <2>1. Init => OrderClosed
    BY TotalAmountType DEF Init, OrderClosed
  <2> QED  BY <2>1, ProtocolInit, SumsInit DEF BooksInv
<1>2. BooksInv /\ [Next]_vars => BooksInv'
  <2> SUFFICES ASSUME BooksInv, [Next]_vars
               PROVE  BooksInv'
    OBVIOUS
  <2>1. ProtocolInv /\ SumsInv /\ OrderClosed
    BY DEF BooksInv
  <2>2. ProtocolInv'
    BY <2>1, ProtocolNext
  <2>3. SumsInv'
    BY <2>1, <2>2, SumsNext
  <2>4. OrderClosed'
    BY <2>1, ClosedNext
  <2> QED  BY <2>2, <2>3, <2>4 DEF BooksInv
<1> QED
  BY <1>1, <1>2, PTL DEF Spec

(* The refunds of an order are accounted for, and within its price         *)
(* (reserveRefundAndResolution, settle and release, receiveReturnRequest). *)
THEOREM RefundsAreAccounted == Spec => []RefundsAccounted
<1>1. BooksInv => RefundsAccounted
  BY SumsAre DEF BooksInv, SumsInv, ProtocolInv, RefundsAccounted
<1> QED
  BY <1>1, BooksBalance, PTL

(* No copy is compensated twice (assertLineEntitlements and                *)
(* getReturnEligibility, read again inside every transaction).             *)
THEOREM LinesCompensatedOnce == Spec => []EntitlementHeld
<1>1. BooksInv => EntitlementHeld
  <2> SUFFICES ASSUME BooksInv, NEW b \in Books
               PROVE  Returned(b) + Compensated(b, LiveCompensations(RETURN_CONSUMING_TYPES))
                          <= Qty[b]
    BY DEF EntitlementHeld
  <2>1. TypeInv /\ TotalKept(b) + TotalBack(b) <= Qty[b]
    BY DEF BooksInv, SumsInv, ProtocolInv
  <2>2. TotalKept(b) \in Nat /\ TotalBack(b) \in Nat
    BY <2>1, SumTypes
  <2>3. /\ Returned(b) = TotalBack(b)
        /\ Compensated(b, LiveCompensations(RETURN_CONSUMING_TYPES)) = TotalKept(b)
    BY <2>1, SumsAre
  <2> QED  BY <2>1, <2>2, <2>3
<1> QED
  BY <1>1, BooksBalance, PTL

(* What the shelf keeps is what reships in preparation were promised.      *)
THEOREM ReservedForReships == Spec => []ReservedIsPromised
<1>1. BooksInv => ReservedIsPromised
  BY SumsAre DEF BooksInv, SumsInv, ProtocolInv, ReservedIsPromised
<1> QED
  BY <1>1, BooksBalance, PTL

(* Every movement of the stock of a dispatched order is in the ledger.     *)
THEOREM AfterSalesLedger == Spec => []LedgerExplainsStock
<1>1. BooksInv => LedgerExplainsStock
  BY DEF BooksInv, SumsInv
<1> QED
  BY <1>1, BooksBalance, PTL

(* An order paid back as lost in transit is closed, with its points        *)
(* (closeLostOrderWhenFullyRefunded).                                      *)
THEOREM PaidBackIsClosed == Spec => []PaidBackOrderIsClosed
<1>1. BooksInv => PaidBackOrderIsClosed
  BY DEF BooksInv, OrderClosed, PaidBackOrderIsClosed
<1> QED
  BY <1>1, BooksBalance, PTL

(* What left the shop, or may at any moment, is within what the order's    *)
(* books hold and what was released on VNPay's word about another refund   *)
(* of the same amount (matchesVnpayRefundIdentity): in no other way is a   *)
(* refund that the bank paid, or has accepted, written off or granted      *)
(* again.                                                                  *)
THEOREM MoneyOutOnTheBooks == Spec => []MoneyOutIsAccounted
<1>1. BooksInv => MoneyOutIsAccounted
  <2> SUFFICES ASSUME BooksInv
               PROVE  MoneyOutIsAccounted
    OBVIOUS
  <2> DEFINE amounts == [t \in Tickets |-> resolution[t].amount]
             pending == {t \in Tickets : gateway[t] = "pending"}
             waiting == {t \in OpenTickets : gateway[t] = "pending"}
             awaited == {t \in DoneTickets : gateway[t] = "pending"}
             paid == {t \in OpenTickets : gateway[t] = "paid"}
  <2>0. TypeInv /\ SumsInv /\ \A t \in Tickets : GatewayFits(t)
    BY DEF BooksInv, ProtocolInv
  <2>1. /\ IsFiniteSet(OpenTickets) /\ IsFiniteSet(waiting) /\ IsFiniteSet(paid)
        /\ OpenTickets \subseteq Tickets
    BY OrderAssumption, FS_Subset DEF OpenTickets
  <2>2. waiting \cap paid = {} /\ waiting \cup paid \in SUBSET OpenTickets
    OBVIOUS
  <2>3. \A t \in Tickets : amounts[t] \in Nat
    BY <2>0 DEF TypeInv, Resolution
  <2>4. Total(OpenTickets, amounts) = TotalOwed
    BY <2>0, SumsAre DEF TicketAmounts
  <2>5. Total(paid, amounts) = TotalCovered
    BY TotalOfPart DEF TotalCovered, Covered, Owed, OpenTickets
  <2>10. Total(awaited, amounts) = TotalAwaited
    BY TotalOfPart DEF TotalAwaited, Awaited, Settled, DoneTickets
  <2>11. pending = waiting \cup awaited /\ waiting \cap awaited = {}
    BY <2>0 DEF GatewayFits, OpenTickets, DoneTickets, OpenRefund
  <2>12. IsFiniteSet(awaited) /\ \A t \in waiting \cup awaited : amounts[t] \in Nat
    BY <2>3, OrderAssumption, FS_Subset DEF OpenTickets, DoneTickets
  <2> HIDE DEF amounts, waiting, paid, awaited, pending
  <2>13. Total(pending, amounts) = Total(waiting, amounts) + Total(awaited, amounts)
    <3>1. IsFiniteSet(waiting)
      BY <2>1
    <3>2. Total(waiting \cup awaited, amounts) = Total(waiting, amounts) + Total(awaited, amounts)
      BY <2>11, <2>12, <3>1, TotalDisjoint
    <3> QED  BY <2>11, <3>2
  <2>6. /\ Total(waiting \cup paid, amounts) = Total(waiting, amounts) + Total(paid, amounts)
        /\ Total(waiting, amounts) \in Nat /\ Total(paid, amounts) \in Nat
    <3>1. \A t \in waiting \cup paid : amounts[t] \in Nat
      BY <2>1, <2>2, <2>3
    <3> QED  BY <2>1, <2>2, <3>1, TotalDisjoint
  <2>7. Total(waiting \cup paid, amounts) <= Total(OpenTickets, amounts)
    <3>1. \A t \in OpenTickets : amounts[t] \in Nat
      BY <2>1, <2>3
    <3> QED  BY <2>1, <2>2, <3>1, TotalMonotone
  <2>8. /\ reservedAmount = TotalOwed + TotalDue
        /\ paidOut + TotalAwaited <= refunded + TotalCovered + writtenOff
        /\ TotalOwed \in Nat /\ TotalDue \in Nat /\ TotalAwaited \in Nat
        /\ paidOut \in Int /\ refunded \in Int /\ writtenOff \in Int
    BY <2>0, SumTypes DEF SumsInv, TypeInv
  <2>9. paidOut + Total(pending, amounts) <= refunded + reservedAmount + writtenOff
    BY <2>4, <2>5, <2>6, <2>7, <2>8, <2>10, <2>13
  <2> QED  BY <2>9 DEF MoneyOutIsAccounted, amounts, pending
<1> QED
  BY <1>1, BooksBalance, PTL

-----------------------------------------------------------------------------
(* The points.  What was taken back is the share of what was earned that   *)
(* belongs to the goods refunded so far, and what was given back is the    *)
(* share of what was redeemed: a movement adds the difference of two       *)
(* shares, so that no rounding piles up in the counters.                   *)

(* The largest natural number that does not exceed a quotient.             *)
LEMMA Quotient ==
    ASSUME NEW x \in Nat, NEW y \in Nat \ {0}
    PROVE  x \div y \in Nat /\ y * (x \div y) <= x /\ x < y * (x \div y) + y
  OBVIOUS

(* There is one such number.                                               *)
LEMMA QuotientIs ==
    ASSUME NEW x \in Nat, NEW y \in Nat \ {0}, NEW q \in Nat, y * q <= x, x < y * q + y
    PROVE  x \div y = q
  OBVIOUS

(* A quotient of at most a multiple.                                       *)
LEMMA QuotientLess ==
    ASSUME NEW n \in Nat, NEW x \in Nat, NEW y \in Nat \ {0}, x <= y * n
    PROVE  x \div y \in Nat /\ x \div y <= n
<1>1. PICK q \in Nat : q = x \div y
  BY Quotient
<1>2. y * q <= x
  BY <1>1, Quotient
<1>3. q <= n
  <2> SUFFICES ASSUME q >= n + 1
               PROVE  FALSE
    OBVIOUS
  <2>1. y * q >= y * (n + 1) /\ y * (n + 1) = y * n + y
    OBVIOUS
  <2> QED  BY <1>2, <2>1
<1> QED  BY <1>1, <1>3

(* A share is within the whole, is nothing of nothing, and is the whole of *)
(* the whole.                                                              *)
LEMMA ShareBounds ==
    ASSUME NEW n \in Nat, NEW m \in Nat, NEW basis \in Nat \ {0}
    PROVE  /\ share(n, m, basis) \in Nat /\ share(n, m, basis) <= n
           /\ m = 0 => share(n, m, basis) = 0
           /\ m >= basis => share(n, m, basis) = n
<1> DEFINE part == Smaller(m, basis)
<1>1. part \in Nat /\ part <= basis /\ (m = 0 => part = 0) /\ (m >= basis => part = basis)
  BY DEF Smaller
<1>2. share(n, m, basis) = (n * part) \div basis
  BY DEF share
<1> HIDE DEF part
<1>3. n * part \in Nat /\ n * part <= basis * n
  BY <1>1
<1>4. share(n, m, basis) \in Nat /\ share(n, m, basis) <= n
  BY <1>2, <1>3, QuotientLess
<1>5. ASSUME m = 0 PROVE share(n, m, basis) = 0
  <2>1. n * part = 0 /\ basis * 0 <= 0 /\ 0 < basis * 0 + basis
    BY <1>1, <1>5
  <2> QED  BY <1>2, <2>1, QuotientIs
<1>6. ASSUME m >= basis PROVE share(n, m, basis) = n
  <2>1. basis * n <= n * part /\ n * part < basis * n + basis
    BY <1>1, <1>6
  <2> QED  BY <1>2, <1>3, <2>1, QuotientIs
<1> QED  BY <1>4, <1>5, <1>6

(* What rounding the refunds costs in points: when n refunds fall short of *)
(* the goods' price G by no more than half a unit each, the share of the   *)
(* points that they took back misses less than one point and the shortfall.*)
LEMMA Rounding ==
    ASSUME NEW E \in Nat, NEW R \in Nat \ {0}, NEW G \in Nat \ {0}, NEW A \in Nat, NEW n \in Nat,
           R * E <= G, 2 * G <= 2 * A + n, NEW C \in Nat, C = share(E, A, G)
    PROVE  E - C <= 0 \/ 2 * R * (E - C - 1) < n
<1>1. CASE A >= G
  BY <1>1, ShareBounds
<1>2. CASE A < G
  <2> SUFFICES ASSUME E - C > 0
               PROVE  2 * R * (E - C - 1) < n
    OBVIOUS
  <2>1. C = (E * A) \div G /\ E * A \in Nat
    BY <1>2 DEF share, Smaller
  <2>2. E * A < G * C + G
    BY <2>1, Quotient
  <2>3. PICK d \in Nat : d = E - C - 1
    OBVIOUS
  <2>4. PICK m \in Nat : m = G - A
    BY <1>2
  <2>5. G * C + G = G * E - G * d /\ G * E - E * A = E * m
    BY <2>3, <2>4
  <2>6. 2 * m <= n /\ G * d < E * m
    BY <2>2, <2>4, <2>5
  <2>7. PICK k \in Nat : k = R * d
    OBVIOUS
  <2>8. E * k <= G * d
    <3>1. (R * E) * d <= G * d /\ (R * E) * d = E * (R * d)
      OBVIOUS
    <3> QED  BY <2>7, <3>1
  <2>9. k < m
    <3> SUFFICES ASSUME k >= m
                 PROVE  FALSE
      OBVIOUS
    <3>1. E * k >= E * m
      OBVIOUS
    <3> QED  BY <2>6, <2>8, <3>1
  <2>10. 2 * R * (E - C - 1) = 2 * k
    BY <2>3, <2>7
  <2> QED  BY <2>6, <2>9, <2>10
<1> QED  BY <1>1, <1>2

(* The value of two lots of goods together.                                *)
LEMMA GrossPlus ==
    ASSUME NEW x \in Lines, NEW y \in Lines, NEW z \in Lines, \A b \in Books : z[b] = x[b] + y[b]
    PROVE  Gross(z) = Gross(x) + Gross(y)
<1> DEFINE f == [b \in Books |-> Price[b] * x[b]]
           g == [b \in Books |-> Price[b] * y[b]]
           h == [b \in Books |-> Price[b] * z[b]]
<1>1. IsFiniteSet(Books) /\ \A b \in Books : Price[b] \in Nat
  BY OrderAssumption
<1>2. ASSUME NEW b \in Books
      PROVE  f[b] \in Nat /\ g[b] \in Nat /\ h[b] = f[b] + g[b]
  <2>1. x[b] \in Nat /\ y[b] \in Nat /\ z[b] = x[b] + y[b] /\ Price[b] \in Nat
    BY <1>1 DEF Lines
  <2>2. \A k, m, n \in Nat : k * (m + n) = k * m + k * n
    OBVIOUS
  <2> QED  BY <2>1, <2>2, Products
<1>3. Gross(z) = Total(Books, h) /\ Gross(x) = Total(Books, f) /\ Gross(y) = Total(Books, g)
  BY DEF Gross
<1> HIDE DEF f, g, h
<1>4. Total(Books, h) = Total(Books, f) + Total(Books, g)
  BY <1>1, <1>2, TotalPlus
<1> QED  BY <1>3, <1>4

(* No goods are worth nothing.                                             *)
LEMMA GrossNothing == ASSUME NEW x, \A b \in Books : x[b] = 0 PROVE Gross(x) = 0
<1> DEFINE value == [b \in Books |-> Price[b] * x[b]]
<1>1. ASSUME NEW b \in Books
      PROVE  value[b] = 0
  <2>1. Price[b] \in Nat /\ x[b] = 0 /\ \A n \in Nat : n * 0 = 0
    BY OrderAssumption
  <2> QED  BY <2>1
<1> HIDE DEF value
<1>2. Total(Books, value) = 0
  BY <1>1, TotalZero
<1> QED  BY <1>2 DEF Gross, value

(* Documents together are worth what their goods together are.             *)
LEMMA GrossOfAll ==
    ASSUME NEW S, IsFiniteSet(S), NEW items \in [S -> Lines], NEW copies,
           \A b \in Books, x \in S : copies[b][x] = items[x][b]
    PROVE  /\ Total(S, [x \in S |-> Gross(items[x])]) = Gross([b \in Books |-> Total(S, copies[b])])
           /\ [b \in Books |-> Total(S, copies[b])] \in Lines
<1> DEFINE value == [x \in S |-> Gross(items[x])]
           together(T) == [b \in Books |-> Total(T, copies[b])]
           Good == {T \in SUBSET S : Total(T, value) = Gross(together(T))}
<1>1. \A x \in S : value[x] \in Nat
  BY GrossType
<1>2. \A b \in Books, x \in S : copies[b][x] \in Nat
  BY DEF Lines
<1>3. ASSUME NEW T \in SUBSET S
      PROVE  together(T) \in Lines
  <2>1. ASSUME NEW b \in Books
        PROVE  Total(T, copies[b]) \in Nat
    <3>1. IsFiniteSet(T) /\ \A x \in T : copies[b][x] \in Nat
      BY <1>2, FS_Subset
    <3> QED  BY <3>1, TotalIsNat
  <2> QED  BY <2>1 DEF Lines
<1>a. \A T : \A b \in Books : together(T)[b] = Total(T, copies[b])
  BY Zenon
<1>4. {} \in Good
  <2> HIDE DEF together
  <2>1. \A b \in Books : together({})[b] = 0
    BY <1>a, TotalEmpty, Zenon
  <2>2. Gross(together({})) = 0
    BY <2>1, GrossNothing
  <2> QED  BY <2>2, TotalEmpty
<1>5. ASSUME NEW T \in SUBSET S, NEW x \in S \ T, T \in Good
      PROVE  T \cup {x} \in Good
  <2>1. IsFiniteSet(T) /\ x \notin T /\ x \in S /\ T \cup {x} \in SUBSET S
    BY FS_Subset
  <2>2. Total(T \cup {x}, value) = Total(T, value) + value[x]
    <3>1. \A y \in T \cup {x} : value[y] \in Nat
      BY <1>1
    <3> HIDE DEF value
    <3> QED  BY <2>1, <3>1, OneMore
  <2>3. ASSUME NEW b \in Books
        PROVE  together(T \cup {x})[b] = together(T)[b] + items[x][b]
    <3>1. \A y \in T \cup {x} : copies[b][y] \in Nat
      BY <1>2
    <3>2. copies[b][x] = items[x][b]
      OBVIOUS
    <3>3. Total(T \cup {x}, copies[b]) = Total(T, copies[b]) + copies[b][x]
      BY <2>1, <3>1, OneMore
    <3> QED  BY <3>2, <3>3
  <2>4. Total(T, value) = Gross(together(T)) /\ value[x] = Gross(items[x])
    BY <1>5
  <2> HIDE DEF together, value
  <2>5. together(T \cup {x}) \in Lines /\ together(T) \in Lines /\ items[x] \in Lines
    BY <1>3, <2>1
  <2>6. Gross(together(T \cup {x})) = Gross(together(T)) + Gross(items[x])
    BY <2>3, <2>5, GrossPlus
  <2> QED  BY <2>1, <2>2, <2>4, <2>6
<1>6. S \in Good
  <2> HIDE DEF Good
  <2> QED  BY <1>4, <1>5, GrowsToAll
<1>7. Total(S, value) = Gross(together(S)) /\ together(S) \in Lines
  <2> HIDE DEF together, value
  <2> QED  BY <1>3, <1>6
<1> QED  BY <1>7, Zenon

(* A refund of part of the goods misses its share of what was paid for     *)
(* them by half a unit at most.                                            *)
LEMMA RefundShort ==
    ASSUME NEW items \in Lines
    PROVE  /\ calculateRefundAmount(items) \in Nat
           /\ 2 * eligibleAmountForOrder * Gross(items)
                  <= 2 * Subtotal * calculateRefundAmount(items) + Subtotal
<1> SUFFICES ASSUME NEW g \in Nat, g = Gross(items), NEW s \in Nat \ {0}, s = Subtotal,
                    NEW d \in Nat, d = Discount, NEW c, c = calculateRefundAmount(items)
             PROVE  c \in Nat /\ 2 * (s - d) * g <= 2 * s * c + s
  BY GrossType, TotalAmountType, OrderAssumption DEF eligibleAmountForOrder
<1>1. d < s /\ (items = Qty => g = s /\ c = s - d + Fee) /\ Fee \in Nat
  BY OrderAssumption DEF Subtotal, TotalAmount, calculateRefundAmount
<1>2. CASE items = Qty
  <2>1. PICK e \in Nat : e = s - d
    BY <1>1
  <2>2. c \in Nat /\ c >= e /\ g = s
    BY <1>1, <1>2, <2>1
  <2>3. 2 * e * s <= 2 * s * c
    <3>1. 2 * s * c >= 2 * s * e /\ 2 * s * e = 2 * e * s
      BY <2>2
    <3> QED  BY <3>1
  <2> QED  BY <2>1, <2>2, <2>3
<1>3. CASE items # Qty
  <2>1. c = Larger(0, g - RoundedQuotient(d * g, s))
    BY <1>3 DEF calculateRefundAmount
  <2>2. d * g \in Nat /\ 2 * (d * g) + s \in Nat /\ 2 * s \in Nat \ {0}
    OBVIOUS
  <2>3. PICK q \in Nat : q = RoundedQuotient(d * g, s) /\ (2 * s) * q <= 2 * (d * g) + s
    BY <2>2, Quotient DEF RoundedQuotient
  <2>4. c \in Nat /\ c >= g - q
    BY <2>1, <2>3 DEF Larger
  <2>5. 2 * s * c >= 2 * s * (g - q) /\ 2 * s * (g - q) = 2 * s * g - (2 * s) * q
    BY <2>4
  <2>6. 2 * (s - d) * g = 2 * s * g - 2 * (d * g)
    OBVIOUS
  <2> QED  BY <2>3, <2>4, <2>5, <2>6
<1> QED  BY <1>2, <1>3

(* Refunds at the full price of goods that are worth `gross`.              *)
FullPrice(S, amount, gross) ==
    \A x \in S : \E items \in Lines : /\ amount[x] = calculateRefundAmount(items)
                                      /\ gross[x] = Gross(items)

(* Together they miss half a unit each.                                    *)
LEMMA RefundsShort ==
    ASSUME NEW S, IsFiniteSet(S), NEW amount, NEW gross, FullPrice(S, amount, gross)
    PROVE  /\ Total(S, amount) \in Nat /\ Total(S, gross) \in Nat /\ Cardinality(S) \in Nat
           /\ 2 * eligibleAmountForOrder * Total(S, gross)
                  <= 2 * Subtotal * Total(S, amount) + Subtotal * Cardinality(S)
<1> SUFFICES ASSUME NEW s \in Nat \ {0}, s = Subtotal,
                    NEW e \in Nat, e = eligibleAmountForOrder
             PROVE  /\ Total(S, amount) \in Nat /\ Total(S, gross) \in Nat /\ Cardinality(S) \in Nat
                    /\ 2 * e * Total(S, gross) <= 2 * s * Total(S, amount) + s * Cardinality(S)
  BY TotalAmountType, OrderAssumption DEF eligibleAmountForOrder
<1> DEFINE goods == [x \in S |-> (2 * e) * gross[x]]
           price == [x \in S |-> (2 * s) * amount[x]]
           half == [x \in S |-> s]
           both == [x \in S |-> price[x] + half[x]]
<1>1. \A x \in S : /\ amount[x] \in Nat /\ gross[x] \in Nat
                   /\ (2 * e) * gross[x] <= (2 * s) * amount[x] + s
  BY RefundShort, GrossType DEF FullPrice
<1>2. ASSUME NEW x \in S
      PROVE  /\ goods[x] = (2 * e) * gross[x] /\ goods[x] \in Nat
             /\ price[x] = (2 * s) * amount[x] /\ price[x] \in Nat
             /\ half[x] = s /\ both[x] = price[x] + half[x] /\ both[x] \in Nat
             /\ goods[x] <= both[x]
  <2>1. (2 * e) * gross[x] \in Nat /\ (2 * s) * amount[x] \in Nat
    BY <1>1, Products
  <2> QED  BY <1>1, <2>1
<1> HIDE DEF goods, price, half, both
<1>3. Total(S, goods) <= Total(S, both)
  BY <1>2, TotalLess
<1>4. Total(S, both) = Total(S, price) + Total(S, half)
  BY <1>2, TotalPlus
<1>5. Total(S, goods) = (2 * e) * Total(S, gross)
  <2>1. 2 * e \in Nat
    OBVIOUS
  <2> QED  BY <1>1, <1>2, <2>1, TotalTimes
<1>6. Total(S, price) = (2 * s) * Total(S, amount)
  <2>1. 2 * s \in Nat
    OBVIOUS
  <2> QED  BY <1>1, <1>2, <2>1, TotalTimes
<1>7. Total(S, half) = s * Cardinality(S) /\ Cardinality(S) \in Nat
  BY <1>2, TotalConstant, FS_CardinalityType
<1>8. Total(S, amount) \in Nat /\ Total(S, gross) \in Nat
  BY <1>1, TotalIsNat
<1> QED  BY <1>3, <1>4, <1>5, <1>6, <1>7, <1>8

(* What a document counts for in the points: goods that came back, or were *)
(* paid for as damaged, against the points earned; goods that came back,   *)
(* or never arrived, against the points redeemed.                          *)
Arrived(r) == returns[r].status \in {"RECEIVED", "CLOSED"}
Completed(t, type) == resolution[t].type = type /\ resolution[t].status = "REFUND_COMPLETED"
ArrivedAmount(r) == IF Arrived(r) THEN returns[r].amount ELSE 0
ArrivedGross(r) == IF Arrived(r) THEN Gross(returns[r].items) ELSE 0
PartialAmount(t) == IF Completed(t, "PARTIAL_REFUND") THEN resolution[t].amount ELSE 0
LostGross(t) ==
    IF Completed(t, "LOST_IN_TRANSIT_REFUND") THEN Gross(resolution[t].items) ELSE 0

TotalGoods == Total(Requests, [r \in Requests |-> ArrivedAmount(r)])
                  + Total(Tickets, [t \in Tickets |-> PartialAmount(t)])
TotalGross == Total(Requests, [r \in Requests |-> ArrivedGross(r)])
                  + Total(Tickets, [t \in Tickets |-> LostGross(t)])

(* All of it natural numbers.                                              *)
NaturalPoints ==
    /\ \A r \in Requests : ArrivedAmount(r) \in Nat /\ ArrivedGross(r) \in Nat
    /\ \A t \in Tickets : PartialAmount(t) \in Nat /\ LostGross(t) \in Nat
    /\ TotalGoods \in Nat /\ TotalGross \in Nat

(* By the types.                                                           *)
LEMMA PointTypes == ASSUME TypeInv PROVE NaturalPoints
<1>0. IsFiniteSet(Tickets) /\ IsFiniteSet(Requests)
  BY OrderAssumption
<1>1. \A r \in Requests : ArrivedAmount(r) \in Nat /\ ArrivedGross(r) \in Nat
  <2> SUFFICES ASSUME NEW r \in Requests
               PROVE  ArrivedAmount(r) \in Nat /\ ArrivedGross(r) \in Nat
    OBVIOUS
  <2>1. returns[r].amount \in Nat /\ returns[r].items \in Lines
    BY DEF TypeInv, ReturnRecord
  <2>2. Gross(returns[r].items) \in Nat
    BY <2>1, GrossType
  <2> QED  BY <2>1, <2>2 DEF ArrivedAmount, ArrivedGross
<1>2. \A t \in Tickets : PartialAmount(t) \in Nat /\ LostGross(t) \in Nat
  <2> SUFFICES ASSUME NEW t \in Tickets
               PROVE  PartialAmount(t) \in Nat /\ LostGross(t) \in Nat
    OBVIOUS
  <2>1. resolution[t].amount \in Nat /\ resolution[t].items \in Lines
    BY DEF TypeInv, Resolution
  <2>2. Gross(resolution[t].items) \in Nat
    BY <2>1, GrossType
  <2> QED  BY <2>1, <2>2 DEF PartialAmount, LostGross
<1>3. /\ Total(Requests, [r \in Requests |-> ArrivedAmount(r)]) \in Nat
      /\ Total(Requests, [r \in Requests |-> ArrivedGross(r)]) \in Nat
  BY <1>0, <1>1, TotalIsNat
<1>4. /\ Total(Tickets, [t \in Tickets |-> PartialAmount(t)]) \in Nat
      /\ Total(Tickets, [t \in Tickets |-> LostGross(t)]) \in Nat
  BY <1>0, <1>2, TotalIsNat
<1> QED  BY <1>1, <1>2, <1>3, <1>4 DEF TotalGoods, TotalGross, NaturalPoints

(* The sums that the code reads before a movement are these, when the      *)
(* movement's own document is not yet among them.                          *)
LEMMA PriorsAre ==
    ASSUME TypeInv
    PROVE  /\ \A r, t : /\ r \in Requests => ~Arrived(r)
                        /\ t \in Tickets => resolution[t].status # "REFUND_COMPLETED"
                        => refundedGoods(t, r) = TotalGoods /\ returnedGross(t, r) = TotalGross
           /\ PriorReturns(NoRequest) = {r \in Requests : Arrived(r)}
           /\ \A type : PriorTickets(NoTicket, type) = {t \in Tickets : Completed(t, type)}
<1>1. ASSUME NEW r, r \in Requests => ~Arrived(r)
      PROVE  PriorReturns(r) = {q \in Requests : Arrived(q)}
  BY <1>1 DEF PriorReturns, Arrived
<1>2. ASSUME NEW t, NEW type, t \in Tickets => resolution[t].status # "REFUND_COMPLETED"
      PROVE  PriorTickets(t, type) = {u \in Tickets : Completed(u, type)}
  BY <1>2 DEF PriorTickets, Completed
<1>3. NoRequest \notin Requests /\ NoTicket \notin Tickets
  BY OrderAssumption
<1> DEFINE back == {q \in Requests : Arrived(q)}
           damaged == {u \in Tickets : Completed(u, "PARTIAL_REFUND")}
           lost == {u \in Tickets : Completed(u, "LOST_IN_TRANSIT_REFUND")}
<1>4. /\ Total(back, [q \in Requests |-> returns[q].amount])
             = Total(Requests, [r \in Requests |-> ArrivedAmount(r)])
      /\ Total(back, [q \in Requests |-> Gross(returns[q].items)])
             = Total(Requests, [r \in Requests |-> ArrivedGross(r)])
  BY TotalOfPart DEF ArrivedAmount, ArrivedGross
<1>5. /\ Total(damaged, [u \in Tickets |-> resolution[u].amount])
             = Total(Tickets, [t \in Tickets |-> PartialAmount(t)])
      /\ Total(lost, [u \in Tickets |-> Gross(resolution[u].items)])
             = Total(Tickets, [t \in Tickets |-> LostGross(t)])
  BY TotalOfPart DEF PartialAmount, LostGross
<1>6. ASSUME NEW r, NEW t, r \in Requests => ~Arrived(r),
             t \in Tickets => resolution[t].status # "REFUND_COMPLETED"
      PROVE  refundedGoods(t, r) = TotalGoods /\ returnedGross(t, r) = TotalGross
  <2>1. /\ PriorReturns(r) = back /\ PriorTickets(t, "PARTIAL_REFUND") = damaged
        /\ PriorTickets(t, "LOST_IN_TRANSIT_REFUND") = lost
    BY <1>1, <1>2, <1>6
  <2> HIDE DEF back, damaged, lost
  <2> QED  BY <2>1, <1>4, <1>5 DEF refundedGoods, returnedGross, TotalGoods, TotalGross
<1> QED  BY <1>1, <1>2, <1>3, <1>6

(* Nothing that the points take of a document changes.                     *)
ArrivalRests(r) == ArrivedAmount(r)' = ArrivedAmount(r) /\ ArrivedGross(r)' = ArrivedGross(r)
ClaimRests(t) == PartialAmount(t)' = PartialAmount(t) /\ LostGross(t)' = LostGross(t)

(* The sums when none moves, when a return does and when a ticket does.    *)
LEMMA PointSums ==
    ASSUME TypeInv, TypeInv'
    PROVE  /\ (\A r \in Requests : ArrivalRests(r)) /\ (\A t \in Tickets : ClaimRests(t))
                  => TotalGoods' = TotalGoods /\ TotalGross' = TotalGross
           /\ \A r \in Requests :
                  /\ \A q \in Requests \ {r} : ArrivalRests(q)
                  /\ \A t \in Tickets : ClaimRests(t)
                  => /\ TotalGoods' = TotalGoods - ArrivedAmount(r) + ArrivedAmount(r)'
                     /\ TotalGross' = TotalGross - ArrivedGross(r) + ArrivedGross(r)'
           /\ \A t \in Tickets :
                  /\ \A u \in Tickets \ {t} : ClaimRests(u)
                  /\ \A r \in Requests : ArrivalRests(r)
                  => /\ TotalGoods' = TotalGoods - PartialAmount(t) + PartialAmount(t)'
                     /\ TotalGross' = TotalGross - LostGross(t) + LostGross(t)'
<1> DEFINE amounts == [r \in Requests |-> ArrivedAmount(r)]
           grosses == [r \in Requests |-> ArrivedGross(r)]
           partials == [t \in Tickets |-> PartialAmount(t)]
           losts == [t \in Tickets |-> LostGross(t)]
<1>0. IsFiniteSet(Tickets) /\ IsFiniteSet(Requests)
  BY OrderAssumption
<1>1. /\ \A r \in Requests : amounts[r] \in Nat /\ grosses[r] \in Nat
      /\ \A t \in Tickets : partials[t] \in Nat /\ losts[t] \in Nat
  BY PointTypes DEF NaturalPoints
<1>2. NaturalPoints'
  BY PointTypes, PTL
<1>3. /\ \A r \in Requests : amounts'[r] \in Nat /\ grosses'[r] \in Nat
      /\ \A t \in Tickets : partials'[t] \in Nat /\ losts'[t] \in Nat
  BY <1>2 DEF NaturalPoints
<1>4. /\ TotalGoods = Total(Requests, amounts) + Total(Tickets, partials)
      /\ TotalGross = Total(Requests, grosses) + Total(Tickets, losts)
      /\ TotalGoods' = Total(Requests, amounts') + Total(Tickets, partials')
      /\ TotalGross' = Total(Requests, grosses') + Total(Tickets, losts')
  BY DEF TotalGoods, TotalGross
<1>5. /\ \A r \in Requests : ArrivalRests(r) => amounts'[r] = amounts[r] /\ grosses'[r] = grosses[r]
      /\ \A t \in Tickets : ClaimRests(t) => partials'[t] = partials[t] /\ losts'[t] = losts[t]
  BY DEF ArrivalRests, ClaimRests
<1>6. /\ \A r \in Requests : /\ amounts[r] = ArrivedAmount(r) /\ grosses[r] = ArrivedGross(r)
                             /\ amounts'[r] = ArrivedAmount(r)' /\ grosses'[r] = ArrivedGross(r)'
      /\ \A t \in Tickets : /\ partials[t] = PartialAmount(t) /\ losts[t] = LostGross(t)
                            /\ partials'[t] = PartialAmount(t)' /\ losts'[t] = LostGross(t)'
  OBVIOUS
<1> HIDE DEF amounts, grosses, partials, losts
<1>7. ASSUME \A t \in Tickets : ClaimRests(t)
      PROVE  /\ Total(Tickets, partials') = Total(Tickets, partials)
             /\ Total(Tickets, losts') = Total(Tickets, losts)
             /\ Total(Tickets, partials) \in Nat /\ Total(Tickets, losts) \in Nat
  <2>1. /\ Total(Tickets, partials') = Total(Tickets, partials)
        /\ Total(Tickets, losts') = Total(Tickets, losts)
    BY <1>5, <1>7, TotalSame
  <2> QED  BY <1>0, <1>1, <2>1, TotalIsNat
<1>8. ASSUME \A r \in Requests : ArrivalRests(r)
      PROVE  /\ Total(Requests, amounts') = Total(Requests, amounts)
             /\ Total(Requests, grosses') = Total(Requests, grosses)
             /\ Total(Requests, amounts) \in Nat /\ Total(Requests, grosses) \in Nat
  <2>1. /\ Total(Requests, amounts') = Total(Requests, amounts)
        /\ Total(Requests, grosses') = Total(Requests, grosses)
    BY <1>5, <1>8, TotalSame
  <2> QED  BY <1>0, <1>1, <2>1, TotalIsNat
<1>9. ASSUME NEW r \in Requests, \A q \in Requests \ {r} : ArrivalRests(q)
      PROVE  /\ Total(Requests, amounts') = Total(Requests, amounts) - amounts[r] + amounts'[r]
             /\ Total(Requests, grosses') = Total(Requests, grosses) - grosses[r] + grosses'[r]
             /\ Total(Requests, amounts) \in Nat /\ Total(Requests, grosses) \in Nat
  <2>1. \A q \in Requests \ {r} : amounts[q] = amounts'[q] /\ grosses[q] = grosses'[q]
    BY <1>5, <1>9
  <2> QED  BY <1>0, <1>1, <1>3, <2>1, TotalStep
<1>10. ASSUME NEW t \in Tickets, \A u \in Tickets \ {t} : ClaimRests(u)
       PROVE  /\ Total(Tickets, partials') = Total(Tickets, partials) - partials[t] + partials'[t]
              /\ Total(Tickets, losts') = Total(Tickets, losts) - losts[t] + losts'[t]
              /\ Total(Tickets, partials) \in Nat /\ Total(Tickets, losts) \in Nat
  <2>1. \A u \in Tickets \ {t} : partials[u] = partials'[u] /\ losts[u] = losts'[u]
    BY <1>5, <1>10
  <2> QED  BY <1>0, <1>1, <1>3, <2>1, TotalStep
<1>11. ASSUME \A r \in Requests : ArrivalRests(r), \A t \in Tickets : ClaimRests(t)
       PROVE  TotalGoods' = TotalGoods /\ TotalGross' = TotalGross
  BY <1>4, <1>7, <1>8, <1>11
<1>12. ASSUME NEW r \in Requests, \A q \in Requests \ {r} : ArrivalRests(q),
              \A t \in Tickets : ClaimRests(t)
       PROVE  /\ TotalGoods' = TotalGoods - ArrivedAmount(r) + ArrivedAmount(r)'
              /\ TotalGross' = TotalGross - ArrivedGross(r) + ArrivedGross(r)'
  BY <1>1, <1>3, <1>4, <1>6, <1>7, <1>9, <1>12
<1>13. ASSUME NEW t \in Tickets, \A u \in Tickets \ {t} : ClaimRests(u),
              \A r \in Requests : ArrivalRests(r)
       PROVE  /\ TotalGoods' = TotalGoods - PartialAmount(t) + PartialAmount(t)'
              /\ TotalGross' = TotalGross - LostGross(t) + LostGross(t)'
  BY <1>1, <1>3, <1>4, <1>6, <1>8, <1>10, <1>13
<1> QED  BY <1>11, <1>12, <1>13

(* A partial refund is granted at its full price, and recorded so.         *)
TicketPriced(t) ==
    resolution[t].type = "PARTIAL_REFUND"
        => resolution[t].amount = calculateRefundAmount(resolution[t].items)
JobPriced(a) ==
    job[a].type = "PARTIAL_REFUND" => job[a].amount = calculateRefundAmount(job[a].items)
Priced == (\A t \in Tickets : TicketPriced(t)) /\ (\A a \in Handlers : JobPriced(a))

(* The counters are the shares of the sums; what was earned is worth no    *)
(* more than what was paid for the goods.                                  *)
PointsInv ==
    /\ earned \in Nat /\ EarnRate * earned <= eligibleAmountForOrder
    /\ clawed = share(earned, TotalGoods, eligibleAmountForOrder)
    /\ status # "REFUNDED" => givenBack = share(Spent, TotalGross, Subtotal)

(* The bases of the shares.                                                *)
LEMMA Bases ==
    /\ eligibleAmountForOrder \in Nat \ {0} /\ Subtotal \in Nat \ {0}
    /\ eligibleAmountForOrder = Subtotal - Discount /\ eligibleAmountForOrder <= TotalAmount
    /\ Spent \in Nat /\ EarnRate \in Nat \ {0} /\ Discount \in Nat
  BY TotalAmountType, OrderAssumption DEF eligibleAmountForOrder, TotalAmount

(* A handler's job is priced whatever it does next.                        *)
LEMMA PricedJobs ==
    ASSUME TypeInv, \A a \in Handlers : JobPriced(a), Next
    PROVE  \A a \in Handlers : JobPriced(a)'
<1> USE DEF JobPriced
<1>1. Idle.type = "NONE"
  BY DEF Idle
<1>2. ASSUME job' = job
      PROVE  \A a \in Handlers : JobPriced(a)'
  BY <1>2
<1>3. ASSUME NEW c, finish(c)
      PROVE  \A a \in Handlers : JobPriced(a)'
  BY <1>1, <1>3 DEF finish, TypeInv
<1>4. ASSUME NEW c, \E pc : goto(c, pc)
      PROVE  \A a \in Handlers : JobPriced(a)'
  <2>1. \A a \in Handlers : /\ job'[a].type = job[a].type /\ job'[a].amount = job[a].amount
                            /\ job'[a].items = job[a].items
    BY <1>4 DEF goto, TypeInv, Job
  <2> QED  BY <2>1
<1>5. ASSUME NEW a \in Agents, Staff(a)
      PROVE  \A c \in Handlers : JobPriced(c)'
  <2>1. ASSUME NEW t \in Tickets, NEW type \in Types, NEW items \in Baskets,
               createResolution(a, t, type, items)
        PROVE  \A c \in Handlers : JobPriced(c)'
    <3>0. PICK amount : amount = IF type \in RefundTypes THEN RefundAmount(t, type, items) ELSE 0
      OBVIOUS
    <3>1. job' = [job EXCEPT ![a] = [Idle EXCEPT !.pc = FirstStep(type), !.ticket = t,
                                        !.type = type, !.items = items, !.amount = amount]]
      BY <2>1, <3>0 DEF createResolution
    <3>2. type = "PARTIAL_REFUND" => amount = calculateRefundAmount(items)
      BY <3>0 DEF RefundTypes, RefundAmount
    <3>3. a \in Handlers => job'[a].type = type /\ job'[a].amount = amount /\ job'[a].items = items
      BY <3>1 DEF Idle, TypeInv
    <3>4. \A c \in Handlers \ {a} : job'[c] = job[c]
      BY <3>1 DEF TypeInv
    <3> QED  BY <3>2, <3>3, <3>4
  <2>2. ASSUME NEW t \in Tickets, bookReship(a, t)
        PROVE  \A c \in Handlers : JobPriced(c)'
    <3>1. a \in Handlers => job'[a].type = "NONE"
      BY <2>2 DEF bookReship, Idle, TypeInv
    <3>2. \A c \in Handlers \ {a} : job'[c] = job[c]
      BY <2>2 DEF bookReship, TypeInv
    <3> QED  BY <3>1, <3>2
  <2> QED  BY <1>5, <2>1, <2>2 DEF Staff
<1>6. ASSUME NEW a \in Agents, Handler(a)
      PROVE  \A c \in Handlers : JobPriced(c)'
  <2>1. ASSUME NEW r, createLinkedReturn(a, r) \/ executeReturnRefund(a, r)
        PROVE  \A c \in Handlers : JobPriced(c)'
    <3>1. ASSUME createLinkedReturn(a, r)
          PROVE  \A c \in Handlers : JobPriced(c)'
      <4>1. \A c \in Handlers : /\ job'[c].type = job[c].type /\ job'[c].amount = job[c].amount
                                /\ job'[c].items = job[c].items
        BY <3>1 DEF createLinkedReturn, TypeInv, Job
      <4> QED  BY <4>1
    <3>2. ASSUME executeReturnRefund(a, r)
          PROVE  \A c \in Handlers : JobPriced(c)'
      <4>1. a \in Handlers => job'[a].type = "NONE"
        BY <3>2 DEF executeReturnRefund, Idle, TypeInv
      <4>2. \A c \in Handlers \ {a} : job'[c] = job[c]
        BY <3>2 DEF executeReturnRefund, TypeInv
      <4> QED  BY <4>1, <4>2
    <3> QED  BY <2>1, <3>1, <3>2
  <2>2. CASE submit(a)
    <3>1. \A c \in Handlers : /\ job'[c].type = job[c].type /\ job'[c].amount = job[c].amount
                              /\ job'[c].items = job[c].items
      BY <2>2 DEF submit, TypeInv, Job
    <3> QED  BY <3>1
  <2>3. CASE reserveRefundAndResolution(a) \/ initializeResolution(a) \/ approveLinkedReturn(a)
    BY <2>3, <1>3, <1>4 DEF reserveRefundAndResolution, initializeResolution, approveLinkedReturn
  <2>4. CASE \/ syncAfterRefund(a) \/ recordAnswer(a) \/ prepareReship(a) \/ dispatchReship(a)
             \/ linkReturn(a) \/ giveUp(a) \/ refuse(a)
    BY <2>4, <1>3 DEF syncAfterRefund, recordAnswer, prepareReship, dispatchReship, linkReturn,
       giveUp, refuse
  <2> QED  BY <1>6, <2>1, <2>2, <2>3, <2>4 DEF Handler
<1>7. CASE Customer \/ Desk \/ \E t \in Tickets : Refunds(t)
  <2>1. job' = job
    BY <1>7 DEF Customer, Desk, Refunds, ask, answer, receiveReturnRequest, closeReturnAndTicket,
       cancelReship, deliverReship, recoverStaleRefundPending, reconcileProcessingRefund,
       bankDecides, completeManualRefund
  <2> QED  BY <1>2, <2>1
<1>8. CASE \/ \E a \in Agents : crash(a)
           \/ \E c \in Couriers : Courier(c)
  BY <1>8, <1>3, <1>4 DEF crash, Courier, checkDelivery, adminMarkDelivered
<1> QED  BY <1>5, <1>6, <1>7, <1>8 DEF Next

(* A ticket that goes on with its claim, short of being paid.              *)
GoesOn(t) ==
    /\ resolution'[t].type = resolution[t].type
    /\ resolution'[t].items = resolution[t].items /\ resolution'[t].amount = resolution[t].amount
    /\ \/ resolution'[t].status = resolution[t].status
       \/ resolution[t].type \notin RefundTypes
       \/ "REFUND_COMPLETED" \notin {resolution[t].status, resolution'[t].status}

(* It counts for the same, and keeps its price.                            *)
LEMMA GoesOnRests ==
    ASSUME NEW t, GoesOn(t)
    PROVE  ClaimRests(t) /\ (TicketPriced(t) => TicketPriced(t)')
<1>1. /\ Completed(t, "PARTIAL_REFUND")' = Completed(t, "PARTIAL_REFUND")
      /\ Completed(t, "LOST_IN_TRANSIT_REFUND")' = Completed(t, "LOST_IN_TRANSIT_REFUND")
  BY DEF GoesOn, Completed, RefundTypes
<1> QED
  BY <1>1 DEF GoesOn, ClaimRests, PartialAmount, LostGross, TicketPriced

(* A ticket that takes the resolution a handler brings counts for nothing  *)
(* before and after, and its price is the handler's.                       *)
LEMMA ResolveRests ==
    ASSUME ProtocolInv, Priced, NEW a \in Agents, job[a].ticket \in Tickets,
           NEW new \in TicketStatuses \ {"REFUND_COMPLETED"}, resolve(a, new),
           resolution[job[a].ticket].status # "REFUND_COMPLETED"
    PROVE  \A u \in Tickets : ClaimRests(u) /\ TicketPriced(u)'
<1> SUFFICES ASSUME NEW u \in Tickets
             PROVE  ClaimRests(u) /\ TicketPriced(u)'
  OBVIOUS
<1>0. TypeInv /\ TicketPriced(u) /\ JobPriced(a)
  BY DEF ProtocolInv, Priced, Handlers
<1>1. CASE u = job[a].ticket
  <2>1. /\ resolution'[u].type = job[a].type /\ resolution'[u].items = job[a].items
        /\ resolution'[u].amount = job[a].amount /\ resolution'[u].status = new
    BY <1>0, <1>1 DEF resolve, NoResolution, TypeInv
  <2>2. /\ \A type : ~Completed(u, type)
        /\ \A type : ~Completed(u, type)'
    BY <2>1, <1>1 DEF Completed
  <2>3. ClaimRests(u)
    BY <2>2 DEF ClaimRests, PartialAmount, LostGross
  <2>4. TicketPriced(u)'
    BY <2>1, <1>0 DEF JobPriced, TicketPriced
  <2> QED  BY <2>3, <2>4
<1>2. CASE u # job[a].ticket
  <2>1. resolution'[u] = resolution[u]
    BY <1>0, <1>2 DEF resolve, TypeInv
  <2> QED  BY <1>0, <2>1, GoesOnRests DEF GoesOn
<1> QED  BY <1>1, <1>2

(* A step that overwrites a ticket's status, and pays nothing.             *)
LEMMA StatusRests ==
    ASSUME ProtocolInv, Priced, NEW t \in Tickets, resolution'[t].type = resolution[t].type,
           resolution'[t].items = resolution[t].items, resolution'[t].amount = resolution[t].amount,
           \/ resolution[t].type \notin RefundTypes
           \/ "REFUND_COMPLETED" \notin {resolution[t].status, resolution'[t].status},
           \A u \in Tickets \ {t} : resolution'[u] = resolution[u]
    PROVE  \A u \in Tickets : ClaimRests(u) /\ TicketPriced(u)'
<1>1. \A u \in Tickets : GoesOn(u) /\ TicketPriced(u)
  BY DEF GoesOn, Priced
<1> QED  BY <1>1, GoesOnRests

(* No ticket moves.                                                        *)
LEMMA NoTicketMoves ==
    ASSUME Priced, resolution' = resolution
    PROVE  \A u \in Tickets : ClaimRests(u) /\ TicketPriced(u)'
<1>1. \A u \in Tickets : GoesOn(u) /\ TicketPriced(u)
  BY DEF GoesOn, Priced
<1> QED  BY <1>1, GoesOnRests

(* The linked tickets follow.                                              *)
LEMMA SyncPriced ==
    ASSUME ProtocolInv, Priced, NEW r, syncLinkedTicket(r)
    PROVE  \A u \in Tickets : ClaimRests(u) /\ TicketPriced(u)'
<1>1. ASSUME NEW u \in Tickets
      PROVE  GoesOn(u)
  <2>1. CASE resolution[u].type = "RETURN_REFUND" /\ resolution[u].req = r
    <3>1. resolution'[u] = [resolution[u] EXCEPT !.status = "RETURN_COMPLETED"]
      BY <2>1 DEF syncLinkedTicket
    <3>2. resolution[u] \in Resolution /\ resolution[u].type \notin RefundTypes
      BY <2>1 DEF ProtocolInv, TypeInv, RefundTypes
    <3> QED  BY <3>1, <3>2 DEF GoesOn, Resolution
  <2>2. CASE ~(resolution[u].type = "RETURN_REFUND" /\ resolution[u].req = r)
    BY <2>2 DEF syncLinkedTicket, GoesOn
  <2> QED  BY <2>1, <2>2
<1> QED  BY <1>1, GoesOnRests DEF Priced

(* Nothing happens that the points are about.                              *)
LEMMA QuietPoints ==
    ASSUME TypeInv, TypeInv', PointsInv, UNCHANGED pointVars,
           status = "REFUNDED" => status' = "REFUNDED",
           \A r \in Requests : ArrivalRests(r), \A t \in Tickets : ClaimRests(t)
    PROVE  PointsInv'
<1>1. TotalGoods' = TotalGoods /\ TotalGross' = TotalGross
  BY PointSums
<1>2. earned' = earned /\ clawed' = clawed /\ givenBack' = givenBack
  BY DEF pointVars
<1> QED  BY <1>1, <1>2 DEF PointsInv

(* Requests that do not move.                                              *)
LEMMA NoReturnMoves ==
    ASSUME returns' = returns
    PROVE  \A r \in Requests : ArrivalRests(r)
  BY DEF ArrivalRests, ArrivedAmount, ArrivedGross, Arrived

(* What the counters are when the sums have grown.                         *)
LEMMA ShareGrows ==
    ASSUME NEW n \in Nat, NEW old \in Nat, NEW more \in Nat, NEW basis \in Nat \ {0},
           NEW x, NEW y, x = share(n, old, basis), y = x + cumulativeShare(n, old, more, basis)
    PROVE  y = share(n, old + more, basis)
<1>1. old + more \in Nat
  OBVIOUS
<1>2. share(n, old, basis) \in Nat
  BY ShareBounds
<1>3. share(n, old + more, basis) \in Nat
  BY <1>1, ShareBounds
<1>4. y = share(n, old, basis) + (share(n, old + more, basis) - share(n, old, basis))
  BY DEF cumulativeShare
<1> QED  BY <1>2, <1>3, <1>4

(* A settled refund: its movement is the difference of two shares, and it  *)
(* was not among the earlier ones.                                         *)
LEMMA SettlePoints ==
    ASSUME ProtocolInv, TypeInv', Priced, PointsInv, NEW t \in Tickets,
           resolution[t].status \in OpenRefund, settle(t), returns' = returns
    PROVE  PointsInv' /\ \A u \in Tickets : TicketPriced(u)'
<1>0. TypeInv /\ TicketFits(t) /\ resolution[t].amount \in Nat /\ resolution[t].items \in Lines
  BY DEF ProtocolInv, TypeInv, Resolution
<1>1. /\ Keeps(t) /\ resolution'[t].status = "REFUND_COMPLETED"
      /\ resolution[t].status # "REFUND_COMPLETED"
  BY <1>0, RefundMoves DEF OpenRefund
<1>2. resolution[t].type \in RefundTypes
  BY <1>0 DEF TicketFits, RefundStatuses
<1>3. ASSUME NEW u \in Tickets
      PROVE  /\ TicketPriced(u)'
             /\ u # t => ClaimRests(u)
  <2>1. CASE u = t
    BY <1>1, <2>1 DEF Keeps, TicketPriced, Priced
  <2>2. CASE u # t
    BY <1>1, <2>2, GoesOnRests DEF Keeps, GoesOn, Priced
  <2> QED  BY <2>1, <2>2
<1>4. \A r \in Requests : ArrivalRests(r)
  BY NoReturnMoves
<1>5. /\ TotalGoods' = TotalGoods - PartialAmount(t) + PartialAmount(t)'
      /\ TotalGross' = TotalGross - LostGross(t) + LostGross(t)'
  BY <1>0, <1>3, <1>4, PointSums
<1>6. /\ TotalGoods \in Nat /\ TotalGross \in Nat /\ Gross(resolution[t].items) \in Nat
      /\ refundedGoods(t, NoRequest) = TotalGoods /\ returnedGross(t, NoRequest) = TotalGross
  BY <1>0, <1>1, PointTypes, PriorsAre, GrossType, OrderAssumption DEF NaturalPoints
<1>7. PartialAmount(t) = 0 /\ LostGross(t) = 0
  BY <1>1 DEF PartialAmount, LostGross, Completed
<1>8. /\ earned' = earned /\ settlePoints(t)
      /\ status' = IF LostOrderPaidBack(t) THEN "REFUNDED" ELSE status
  BY DEF settle
<1>9. CASE resolution[t].type = "PARTIAL_REFUND"
  <2>1. PartialAmount(t)' = resolution[t].amount /\ LostGross(t)' = 0
    BY <1>1, <1>9 DEF PartialAmount, LostGross, Completed, Keeps
  <2>2. TotalGoods' = TotalGoods + resolution[t].amount /\ TotalGross' = TotalGross
    BY <1>0, <1>5, <1>6, <1>7, <2>1
  <2>3. /\ clawed' = clawed + cumulativeShare(earned, TotalGoods, resolution[t].amount,
                                              eligibleAmountForOrder)
        /\ givenBack' = givenBack /\ status' = status
    BY <1>6, <1>8, <1>9 DEF settlePoints, revokeOrderPointsPartial, LostOrderPaidBack
  <2>4. earned \in Nat /\ clawed = share(earned, TotalGoods, eligibleAmountForOrder)
    BY DEF PointsInv
  <2>5. PICK paid \in Nat : paid = resolution[t].amount
    BY <1>0
  <2>6. clawed' = clawed + cumulativeShare(earned, TotalGoods, paid, eligibleAmountForOrder)
    BY <2>3, <2>5
  <2>7. TotalGoods \in Nat /\ eligibleAmountForOrder \in Nat \ {0}
    BY <1>6, Bases
  <2>8. clawed' = share(earned, TotalGoods + paid, eligibleAmountForOrder)
    BY <2>4, <2>6, <2>7, ShareGrows
  <2> QED  BY <1>3, <1>8, <2>2, <2>3, <2>5, <2>8 DEF PointsInv
<1>10. CASE resolution[t].type = "LOST_IN_TRANSIT_REFUND"
  <2>1. PartialAmount(t)' = 0 /\ LostGross(t)' = Gross(resolution[t].items)
    BY <1>1, <1>10 DEF PartialAmount, LostGross, Completed, Keeps
  <2>2. TotalGoods' = TotalGoods /\ TotalGross' = TotalGross + Gross(resolution[t].items)
    BY <1>5, <1>6, <1>7, <2>1
  <2>3. clawed' = clawed
    BY <1>8, <1>10 DEF settlePoints
  <2>4. CASE LostOrderPaidBack(t)
    BY <1>3, <1>8, <2>2, <2>3, <2>4 DEF PointsInv
  <2>5. CASE ~LostOrderPaidBack(t)
    <3>1. /\ status' = status
          /\ givenBack' = givenBack
                 + cumulativeShare(Spent, TotalGross, Gross(resolution[t].items), Subtotal)
      BY <1>6, <1>8, <1>10, <2>5 DEF settlePoints, refundOrderPointsPartial
    <3>2. status # "REFUNDED"
              => givenBack' = share(Spent, TotalGross + Gross(resolution[t].items), Subtotal)
      BY <1>6, <3>1, Bases, ShareGrows DEF PointsInv
    <3> QED  BY <1>3, <1>8, <2>2, <2>3, <3>1, <3>2 DEF PointsInv
  <2> QED  BY <2>4, <2>5
<1> QED  BY <1>2, <1>9, <1>10 DEF RefundTypes

(* Goods that come back: the same, for a return.                           *)
LEMMA ReceivePoints ==
    ASSUME ProtocolInv, TypeInv', Priced, PointsInv, NEW r \in Requests, NEW restock,
           receiveReturnRequest(r, restock)
    PROVE  PointsInv' /\ \A u \in Tickets : TicketPriced(u)'
<1> DEFINE quoted == Smaller(calculateRefundAmount(returns[r].items), Headroom)
<1>0. /\ TypeInv /\ returns[r].items \in Lines
      /\ refunded \in Int /\ reservedAmount \in Int
  BY DEF ProtocolInv, TypeInv, ReturnRecord
<1>1. PICK amount : amount = quoted
  OBVIOUS
<1>2. /\ returns[r].status = "RETURNING"
      /\ returns' = [returns EXCEPT ![r].status = IF amount = 0 THEN "CLOSED" ELSE "RECEIVED",
                                    ![r].amount = amount]
      /\ resolution' = resolution \/ syncLinkedTicket(r)
      /\ revokeOrderPointsPartial(NoTicket, r, amount)
      /\ refundOrderPointsPartial(NoTicket, r, returns[r].items)
      /\ status' = status /\ earned' = earned
  BY <1>1 DEF receiveReturnRequest
<1>3. amount \in Nat
  BY <1>0, <1>1, AmountType DEF Smaller
<1> HIDE DEF quoted
<1>4. /\ returns'[r].status \in {"RECEIVED", "CLOSED"}
      /\ returns'[r].amount = amount /\ returns'[r].items = returns[r].items
      /\ \A q \in Requests \ {r} : returns'[q] = returns[q]
  BY <1>2, <1>0 DEF TypeInv, ReturnRecord
<1>5. /\ ~Arrived(r) /\ ArrivedAmount(r) = 0 /\ ArrivedGross(r) = 0
      /\ ArrivedAmount(r)' = amount /\ ArrivedGross(r)' = Gross(returns[r].items)
  BY <1>2, <1>4 DEF Arrived, ArrivedAmount, ArrivedGross
<1>6. \A q \in Requests \ {r} : ArrivalRests(q)
  BY <1>4 DEF ArrivalRests, Arrived, ArrivedAmount, ArrivedGross
<1>7. \A u \in Tickets : ClaimRests(u) /\ TicketPriced(u)'
  BY <1>2, SyncPriced, NoTicketMoves
<1>8. /\ TotalGoods \in Nat /\ TotalGross \in Nat /\ Gross(returns[r].items) \in Nat
      /\ refundedGoods(NoTicket, r) = TotalGoods /\ returnedGross(NoTicket, r) = TotalGross
  BY <1>0, <1>5, PointTypes, PriorsAre, GrossType, OrderAssumption DEF NaturalPoints
<1>9. TotalGoods' = TotalGoods + amount /\ TotalGross' = TotalGross + Gross(returns[r].items)
  BY <1>0, <1>3, <1>5, <1>6, <1>7, <1>8, PointSums
<1>10. clawed' = share(earned, TotalGoods + amount, eligibleAmountForOrder)
  BY <1>2, <1>3, <1>8, Bases, ShareGrows DEF PointsInv, revokeOrderPointsPartial
<1>11. status # "REFUNDED"
           => givenBack' = share(Spent, TotalGross + Gross(returns[r].items), Subtotal)
  BY <1>2, <1>8, Bases, ShareGrows DEF PointsInv, refundOrderPointsPartial
<1> QED  BY <1>2, <1>7, <1>9, <1>10, <1>11 DEF PointsInv

(* The order is delivered: it earns, and nothing was taken back before.    *)
LEMMA DeliverPoints ==
    ASSUME ProtocolInv, TypeInv', Priced, PointsInv, becomeDelivered, returns' = returns,
           \A u \in Tickets : ClaimRests(u)
    PROVE  PointsInv'
<1>0. /\ TypeInv /\ status = "SHIPPED" /\ status' = "DELIVERED"
      /\ earnForOrder /\ clawed' = clawed /\ givenBack' = givenBack
  BY DEF ProtocolInv, becomeDelivered
<1>1. TotalGoods' = TotalGoods /\ TotalGross' = TotalGross
  BY <1>0, NoReturnMoves, PointSums
<1>2. TotalGoods = 0
  <2>1. \A r \in Requests : ArrivedAmount(r) = 0
    BY <1>0 DEF ProtocolInv, OrderFits, ArrivedAmount, Arrived
  <2>2. \A t \in Tickets : PartialAmount(t) = 0
    BY <1>0 DEF ProtocolInv, TicketFits, PartialAmount, Completed
  <2>3. /\ Total(Requests, [r \in Requests |-> ArrivedAmount(r)]) = 0
        /\ Total(Tickets, [t \in Tickets |-> PartialAmount(t)]) = 0
    BY <2>1, <2>2, TotalZero
  <2> QED  BY <2>3 DEF TotalGoods
<1>3. lostRefundedGross \in Nat
  <2> DEFINE gross == [t \in Tickets |-> Gross(resolution[t].items)]
             live == LiveCompensations({"LOST_IN_TRANSIT_REFUND"})
  <2>1. live \in SUBSET Tickets /\ IsFiniteSet(Tickets)
    BY OrderAssumption DEF LiveCompensations
  <2>2. \A t \in Tickets : gross[t] \in Nat
    BY <1>0, GrossType DEF TypeInv, Resolution
  <2>3. IsFiniteSet(live) /\ \A t \in live : gross[t] \in Nat
    BY <2>1, <2>2, FS_Subset
  <2>4. lostRefundedGross = Total(live, gross)
    BY DEF lostRefundedGross
  <2> HIDE DEF live, gross
  <2> QED  BY <2>3, <2>4, TotalIsNat
<1>4. earned' \in Nat /\ EarnRate * earned' <= eligibleAmountForOrder
  <2>1. PICK delivered : delivered = Subtotal - Smaller(lostRefundedGross, Subtotal)
    OBVIOUS
  <2>2. PICK part : part = (eligibleAmountForOrder * delivered) \div Subtotal
    OBVIOUS
  <2>3. delivered \in Nat /\ delivered <= Subtotal
    BY <1>3, <2>1, Bases DEF Smaller
  <2>4. eligibleAmountForOrder * delivered \in Nat
        /\ eligibleAmountForOrder * delivered <= Subtotal * eligibleAmountForOrder
    BY <2>3, Bases
  <2>5. part \in Nat /\ part <= eligibleAmountForOrder
    BY <2>2, <2>4, Bases, QuotientLess
  <2>6. earned' = part \div EarnRate
    BY <1>0, <2>1, <2>2 DEF earnForOrder
  <2> QED  BY <2>5, <2>6, Bases, Quotient
<1>5. /\ share(earned', 0, eligibleAmountForOrder) = 0
      /\ share(earned, 0, eligibleAmountForOrder) = 0
  BY <1>4, Bases, ShareBounds DEF PointsInv
<1> QED  BY <1>0, <1>1, <1>2, <1>4, <1>5 DEF PointsInv

(* The same, said of the tickets' prices as well.                          *)
LEMMA QuietStep ==
    ASSUME ProtocolInv, TypeInv', PointsInv, UNCHANGED pointVars, status' = status,
           \A r \in Requests : ArrivalRests(r),
           \A u \in Tickets : ClaimRests(u) /\ TicketPriced(u)'
    PROVE  PointsInv' /\ \A u \in Tickets : TicketPriced(u)'
  BY QuietPoints DEF ProtocolInv

(* A request whose goods neither arrive nor leave.                         *)
LEMMA AnswerRests ==
    ASSUME TypeInv, NEW r, NEW new, returns' = [returns EXCEPT ![r].status = new],
           returns[r].status \in {"RECEIVED", "CLOSED"} <=> new \in {"RECEIVED", "CLOSED"}
    PROVE  \A q \in Requests : ArrivalRests(q)
<1> SUFFICES ASSUME NEW q \in Requests
             PROVE  ArrivalRests(q)
  OBVIOUS
<1>1. /\ returns'[q].amount = returns[q].amount /\ returns'[q].items = returns[q].items
      /\ returns'[q].status = IF q = r THEN new ELSE returns[q].status
  BY DEF TypeInv, ReturnRecord
<1>2. Arrived(q)' = Arrived(q)
  BY <1>1 DEF Arrived
<1> QED  BY <1>1, <1>2 DEF ArrivalRests, ArrivedAmount, ArrivedGross

(* A new request.                                                          *)
LEMMA AskRests ==
    ASSUME TypeInv, NEW r, NEW items, createReturnRequest(r, items)
    PROVE  \A q \in Requests : ArrivalRests(q)
<1> SUFFICES ASSUME NEW q \in Requests
             PROVE  ArrivalRests(q)
  OBVIOUS
<1>1. CASE q = r
  <2>1. returns[q].status = "NONE" /\ returns'[q].status = "PENDING"
    BY <1>1 DEF createReturnRequest, TypeInv
  <2> QED  BY <2>1 DEF ArrivalRests, ArrivedAmount, ArrivedGross, Arrived
<1>2. CASE q # r
  <2>1. returns'[q] = returns[q]
    BY <1>2 DEF createReturnRequest, TypeInv
  <2> QED  BY <2>1 DEF ArrivalRests, ArrivedAmount, ArrivedGross, Arrived
<1> QED  BY <1>1, <1>2

(* The points follow the return requests.                                  *)
LEMMA ReturnsPoints ==
    ASSUME ProtocolInv, TypeInv', Priced, PointsInv, NEW r \in Requests,
           \/ \E items \in Baskets : ask(r, items)
           \/ \E verdict \in {"RETURNING", "REJECTED"} : answer(r, verdict)
           \/ \E restock \in Restocked : receiveReturnRequest(r, restock)
           \/ closeReturnAndTicket(r)
           \/ \E a \in Agents : executeReturnRefund(a, r)
    PROVE  PointsInv' /\ \A u \in Tickets : TicketPriced(u)'
<1>0. TypeInv
  BY DEF ProtocolInv
<1>1. ASSUME NEW items \in Baskets, ask(r, items)
      PROVE  PointsInv' /\ \A u \in Tickets : TicketPriced(u)'
  <2>1. /\ createReturnRequest(r, items)
        /\ UNCHANGED <<pointVars, status, resolution>>
    BY <1>1 DEF ask
  <2> QED  BY <1>0, <2>1, AskRests, NoTicketMoves, QuietStep
<1>2. ASSUME NEW verdict \in {"RETURNING", "REJECTED"}, answer(r, verdict)
      PROVE  PointsInv' /\ \A u \in Tickets : TicketPriced(u)'
  <2>1. /\ returns[r].status = "PENDING"
        /\ returns' = [returns EXCEPT ![r].status = verdict]
        /\ UNCHANGED <<pointVars, status, resolution>>
    BY <1>2 DEF answer, resolveReturnRequest
  <2>2. \A q \in Requests : ArrivalRests(q)
    BY <1>0, <2>1, AnswerRests
  <2> QED  BY <2>1, <2>2, NoTicketMoves, QuietStep
<1>3. ASSUME closeReturnAndTicket(r) \/ \E a \in Agents : executeReturnRefund(a, r)
      PROVE  PointsInv' /\ \A u \in Tickets : TicketPriced(u)'
  <2>1. /\ returns[r].status = "RECEIVED"
        /\ returns' = [returns EXCEPT ![r].status = "CLOSED"]
        /\ UNCHANGED <<pointVars, status>>
        /\ resolution' = resolution \/ syncLinkedTicket(r)
    BY <1>3 DEF closeReturnAndTicket, executeReturnRefund, closeReturn
  <2>2. \A q \in Requests : ArrivalRests(q)
    BY <1>0, <2>1, AnswerRests
  <2>3. \A u \in Tickets : ClaimRests(u) /\ TicketPriced(u)'
    BY <2>1, NoTicketMoves, SyncPriced
  <2> QED  BY <2>1, <2>2, <2>3, QuietStep
<1> QED  BY <1>1, <1>2, <1>3, ReceivePoints

(* The points follow the refund job, the bank and the staff.               *)
LEMMA RefundsPoints ==
    ASSUME ProtocolInv, TypeInv', Priced, PointsInv, NEW t \in Tickets, Refunds(t)
    PROVE  PointsInv' /\ \A u \in Tickets : TicketPriced(u)'
<1>0. TypeInv /\ returns' = returns
  BY DEF ProtocolInv, Refunds, recoverStaleRefundPending, bankDecides,
         reconcileProcessingRefund, completeManualRefund
<1>1. CASE resolution[t].status \in OpenRefund /\ settle(t)
  BY <1>0, <1>1, SettlePoints
<1>2. CASE /\ resolution[t].status \in OpenRefund /\ Keeps(t)
           /\ resolution'[t].status # "REFUND_COMPLETED" /\ UNCHANGED <<pointVars, status>>
  <2>1. \A u \in Tickets : ClaimRests(u) /\ TicketPriced(u)'
    BY <1>2, StatusRests DEF Keeps, OpenRefund
  <2> QED  BY <1>0, <1>2, <2>1, NoReturnMoves, QuietStep
<1>3. CASE bankDecides(t)
  <2>1. UNCHANGED <<pointVars, status, resolution>>
    BY <1>3 DEF bankDecides
  <2> QED  BY <1>0, <2>1, NoReturnMoves, NoTicketMoves, QuietStep
<1>4. CASE recoverStaleRefundPending(t)
  <2>1. /\ resolution[t].status = "REFUND_PENDING"
        /\ resolution' = [resolution EXCEPT ![t].status = "REFUND_PROCESSING"]
        /\ UNCHANGED <<pointVars, status>>
    BY <1>4 DEF recoverStaleRefundPending
  <2>2. Keeps(t) /\ resolution'[t].status = "REFUND_PROCESSING"
    BY <2>1, <1>0 DEF Keeps, TypeInv, Resolution
  <2> QED  BY <1>2, <2>1, <2>2 DEF OpenRefund
<1>5. CASE reconcileProcessingRefund(t)
  <2>0. resolution[t].status = "REFUND_PROCESSING"
    BY <1>5 DEF reconcileProcessingRefund
  <2>1. settle(t) \/ release(t) \/ moveToManualRefund(t)
    BY <1>5, Verdicts DEF ReleasedUnpaid, Disowned, Recorded, HandedOver
  <2>2. CASE release(t) \/ moveToManualRefund(t)
    <3>1. Keeps(t) /\ resolution'[t].status # "REFUND_COMPLETED"
      BY <1>0, <2>2, RefundMoves
    <3>2. UNCHANGED <<pointVars, status>>
      BY <2>2 DEF release, moveToManualRefund
    <3> QED  BY <1>2, <2>0, <3>1, <3>2 DEF OpenRefund
  <2> QED  BY <1>1, <2>0, <2>1, <2>2 DEF OpenRefund
<1>6. CASE completeManualRefund(t)
  BY <1>1, <1>6 DEF completeManualRefund, OpenRefund
<1> QED  BY <1>3, <1>4, <1>5, <1>6 DEF Refunds

(* The points follow the parcels.                                          *)
LEMMA ParcelsPoints ==
    ASSUME ProtocolInv, TypeInv', Priced, PointsInv,
           \/ \E c \in Couriers : Courier(c)
           \/ \E t \in Tickets : cancelReship(t) \/ deliverReship(t)
    PROVE  PointsInv' /\ \A u \in Tickets : TicketPriced(u)'
<1>0. TypeInv
  BY DEF ProtocolInv
<1>1. ASSUME returns' = returns, \A u \in Tickets : ClaimRests(u) /\ TicketPriced(u)',
             becomeDelivered \/ UNCHANGED <<status, pointVars>>
      PROVE  PointsInv' /\ \A u \in Tickets : TicketPriced(u)'
  <2>1. CASE becomeDelivered
    BY <1>1, <2>1, DeliverPoints
  <2>2. CASE UNCHANGED <<status, pointVars>>
    BY <1>1, <2>2, NoReturnMoves, QuietStep
  <2> QED  BY <1>1, <2>1, <2>2
<1>2. ASSUME NEW c \in Couriers, Courier(c)
      PROVE  PointsInv' /\ \A u \in Tickets : TicketPriced(u)'
  <2>1. /\ UNCHANGED <<returns, resolution>>
        /\ becomeDelivered \/ UNCHANGED <<status, pointVars>>
    BY <1>2 DEF Courier, checkDelivery, adminMarkDelivered
  <2> QED  BY <1>1, <2>1, NoTicketMoves
<1>3. ASSUME NEW t \in Tickets, cancelReship(t) \/ deliverReship(t)
      PROVE  PointsInv' /\ \A u \in Tickets : TicketPriced(u)'
  <2>1. /\ resolution[t].type \in ReshipTypes /\ returns' = returns
        /\ becomeDelivered \/ UNCHANGED <<status, pointVars>>
        /\ \E new : resolution' = [resolution EXCEPT ![t].status = new]
    BY <1>3 DEF cancelReship, deliverReship
  <2>2. /\ resolution[t].type \notin RefundTypes /\ resolution'[t].type = resolution[t].type
        /\ resolution'[t].items = resolution[t].items
        /\ resolution'[t].amount = resolution[t].amount
        /\ \A u \in Tickets \ {t} : resolution'[u] = resolution[u]
    BY <1>0, <2>1 DEF TypeInv, Resolution, ReshipTypes, RefundTypes
  <2>3. \A u \in Tickets : ClaimRests(u) /\ TicketPriced(u)'
    BY <2>2, StatusRests
  <2> QED  BY <1>1, <2>1, <2>3
<1> QED  BY <1>2, <1>3

(* The points follow staff's handlers.                                     *)
LEMMA HandlersPoints ==
    ASSUME ProtocolInv, TypeInv', Priced, PointsInv, NEW a \in Agents,
           \/ Staff(a) \/ (Handler(a) /\ ~\E r \in Requests : executeReturnRefund(a, r))
           \/ crash(a)
    PROVE  PointsInv' /\ \A u \in Tickets : TicketPriced(u)'
<1> SUFFICES ASSUME NEW t, t = job[a].ticket
             PROVE  PointsInv' /\ \A u \in Tickets : TicketPriced(u)'
  OBVIOUS
<1>0. TypeInv /\ JobFits(a)
  BY DEF ProtocolInv
<1>1. CASE Staff(a) \/ refuse(a) \/ crash(a) \/ submit(a)
  <2>1. CASE Staff(a)
    <3>1. ASSUME NEW u, NEW type, NEW items, createResolution(a, u, type, items)
          PROVE  UNCHANGED <<returns, resolution, pointVars, status>>
      BY <3>1 DEF createResolution
    <3>2. ASSUME NEW u, bookReship(a, u)
          PROVE  UNCHANGED <<returns, resolution, pointVars, status>>
      BY <3>2 DEF bookReship
    <3>3. UNCHANGED <<returns, resolution, pointVars, status>>
      BY <2>1, <3>1, <3>2 DEF Staff
    <3> QED  BY <3>3, NoReturnMoves, NoTicketMoves, QuietStep
  <2>2. CASE refuse(a) \/ crash(a) \/ submit(a)
    <3>1. UNCHANGED <<returns, resolution, pointVars, status>>
      BY <2>2 DEF refuse, crash, submit
    <3> QED  BY <3>1, NoReturnMoves, NoTicketMoves, QuietStep
  <2> QED  BY <1>1, <2>1, <2>2
<1>2. ASSUME NEW r \in Requests, createLinkedReturn(a, r)
      PROVE  PointsInv' /\ \A u \in Tickets : TicketPriced(u)'
  <2>1. createReturnRequest(r, job[a].items) /\ UNCHANGED <<resolution, pointVars, status>>
    BY <1>2 DEF createLinkedReturn
  <2> QED  BY <1>0, <2>1, AskRests, NoTicketMoves, QuietStep
<1>3. CASE approveLinkedReturn(a)
  <2>1. /\ returns[job[a].req].status = "PENDING"
        /\ returns' = [returns EXCEPT ![job[a].req].status = "RETURNING"]
        /\ UNCHANGED <<resolution, pointVars, status>>
    BY <1>3 DEF approveLinkedReturn, resolveReturnRequest
  <2>2. \A q \in Requests : ArrivalRests(q)
    BY <1>0, <2>1, AnswerRests
  <2> QED  BY <2>1, <2>2, NoTicketMoves, QuietStep
<1>4. CASE syncAfterRefund(a)
  <2>1. syncLinkedTicket(job[a].req) /\ UNCHANGED <<returns, pointVars, status>>
    BY <1>4 DEF syncAfterRefund
  <2> QED  BY <2>1, NoReturnMoves, SyncPriced, QuietStep
<1>5. CASE reserveRefundAndResolution(a) \/ prepareReship(a) \/ initializeResolution(a)
  <2>1. /\ UNCHANGED <<returns, pointVars, status>> /\ t \in Tickets
        /\ Free(t, {"REFUND_FAILED", "CANCELLED"})
        /\ \E new \in {"REFUND_MANUAL_REQUIRED", "REFUND_PENDING", "PREPARING", "INITIATING"} :
               resolve(a, new)
    BY <1>5, <1>0 DEF reserveRefundAndResolution, prepareReship, initializeResolution,
       ReserveAllowed, PrepareAllowed, Free, at, JobFits
  <2>2. PICK new \in TicketStatuses \ {"REFUND_COMPLETED"} : resolve(a, new)
    BY <2>1, StatusNames
  <2>3. resolution[t].status # "REFUND_COMPLETED"
    BY <2>1 DEF Free
  <2>4. \A u \in Tickets : ClaimRests(u) /\ TicketPriced(u)'
    BY <2>1, <2>2, <2>3, ResolveRests
  <2> QED  BY <2>1, <2>4, NoReturnMoves, QuietStep
<1>6. CASE linkReturn(a) \/ giveUp(a)
  <2>1. /\ UNCHANGED <<returns, pointVars, status>> /\ t \in Tickets
        /\ resolution[t].status = "INITIATING"
    BY <1>6, <1>0 DEF linkReturn, giveUp, at, JobFits, Links
  <2>2. /\ resolution'[t].type = resolution[t].type /\ resolution'[t].items = resolution[t].items
        /\ resolution'[t].amount = resolution[t].amount
        /\ resolution'[t].status \in {"RETURNING", "FAILED"}
        /\ \A u \in Tickets \ {t} : resolution'[u] = resolution[u]
    BY <1>6, <1>0, <2>1 DEF linkReturn, giveUp, TypeInv, Resolution
  <2>3. \A u \in Tickets : ClaimRests(u) /\ TicketPriced(u)'
    BY <2>1, <2>2, StatusRests
  <2> QED  BY <2>1, <2>3, NoReturnMoves, QuietStep
<1>7. CASE dispatchReship(a)
  <2>1. UNCHANGED <<returns, pointVars, status>> /\ t \in Tickets
    BY <1>7, <1>0 DEF dispatchReship, at, JobFits
  <2>2. CASE resolution' = resolution
    BY <2>1, <2>2, NoReturnMoves, NoTicketMoves, QuietStep
  <2>3. CASE /\ resolution[t].status = "PREPARING"
             /\ resolution' = [resolution EXCEPT ![t].status = "SHIPPED"]
    <3>1. /\ resolution'[t].type = resolution[t].type
          /\ resolution'[t].items = resolution[t].items
          /\ resolution'[t].amount = resolution[t].amount
          /\ resolution'[t].status = "SHIPPED"
          /\ \A u \in Tickets \ {t} : resolution'[u] = resolution[u]
      BY <1>0, <2>1, <2>3 DEF TypeInv, Resolution
    <3>2. \A u \in Tickets : ClaimRests(u) /\ TicketPriced(u)'
      BY <2>1, <2>3, <3>1, StatusRests
    <3> QED  BY <2>1, <3>2, NoReturnMoves, QuietStep
  <2> QED  BY <1>7, <2>2, <2>3 DEF dispatchReship, StillPreparing
<1>8. CASE recordAnswer(a)
  <2>1. t \in Tickets /\ returns' = returns
    BY <1>8, <1>0 DEF recordAnswer, at, JobFits
  <2>2. CASE ~OwnsTicket(a)
    <3>1. UNCHANGED <<pointVars, status, resolution>>
      BY <1>8, <2>2 DEF recordAnswer
    <3> QED  BY <2>1, <3>1, NoReturnMoves, NoTicketMoves, QuietStep
  <2>3. CASE OwnsTicket(a) /\ settle(t)
    <3>1. resolution[t].status \in OpenRefund
      BY <2>3 DEF OwnsTicket, OpenRefund
    <3> QED  BY <2>1, <2>3, <3>1, SettlePoints
  <2>4. CASE OwnsTicket(a) /\ ~settle(t)
    <3>1. /\ UNCHANGED <<pointVars, status>>
          /\ \/ release(t)
             \/ resolution' = [resolution EXCEPT ![t].status = "REFUND_PROCESSING"]
      BY <1>8, <2>4 DEF recordAnswer, release
    <3>2. Keeps(t) /\ resolution'[t].status # "REFUND_COMPLETED"
      BY <1>0, <2>1, <3>1, RefundMoves
    <3>3. \A u \in Tickets : ClaimRests(u) /\ TicketPriced(u)'
      BY <2>1, <2>4, <3>2, StatusRests DEF Keeps, OwnsTicket
    <3> QED  BY <2>1, <3>1, <3>3, NoReturnMoves, QuietStep
  <2> QED  BY <2>2, <2>3, <2>4
<1> QED
  BY <1>1, <1>2, <1>3, <1>4, <1>5, <1>6, <1>7, <1>8 DEF Handler

(* At the start there is nothing to share.                                 *)
LEMMA PointsInit == Init => Priced /\ PointsInv
<1> SUFFICES ASSUME Init
             PROVE  Priced /\ PointsInv
  OBVIOUS
<1>1. Priced
  BY DEF Init, NoResolution, Idle, Priced, TicketPriced, JobPriced
<1>2. \A r \in Requests : ArrivedAmount(r) = 0 /\ ArrivedGross(r) = 0
  BY DEF Init, NoReturn, ArrivedAmount, ArrivedGross, Arrived
<1>3. \A t \in Tickets : PartialAmount(t) = 0 /\ LostGross(t) = 0
  BY DEF Init, NoResolution, PartialAmount, LostGross, Completed
<1>4. /\ Total(Requests, [r \in Requests |-> ArrivedAmount(r)]) = 0
      /\ Total(Requests, [r \in Requests |-> ArrivedGross(r)]) = 0
  BY <1>2, TotalZero
<1>5. /\ Total(Tickets, [t \in Tickets |-> PartialAmount(t)]) = 0
      /\ Total(Tickets, [t \in Tickets |-> LostGross(t)]) = 0
  BY <1>3, TotalZero
<1>6. TotalGoods = 0 /\ TotalGross = 0
  BY <1>4, <1>5 DEF TotalGoods, TotalGross
<1>7. /\ share(0, 0, eligibleAmountForOrder) = 0 /\ share(Spent, 0, Subtotal) = 0
      /\ EarnRate * 0 <= eligibleAmountForOrder
  BY Bases, ShareBounds
<1>8. earned = 0 /\ clawed = 0 /\ givenBack = 0
  BY DEF Init
<1> QED  BY <1>1, <1>6, <1>7, <1>8 DEF PointsInv

(* Every step shares the points out.                                       *)
LEMMA PointsNext ==
    ASSUME ProtocolInv, TypeInv', Priced, PointsInv, [Next]_vars
    PROVE  Priced' /\ PointsInv'
<1>1. CASE Next
  <2>1. PointsInv' /\ \A u \in Tickets : TicketPriced(u)'
    BY <1>1, Moves, ReturnsPoints, HandlersPoints, ParcelsPoints, RefundsPoints
  <2>2. \A a \in Handlers : JobPriced(a)'
    BY <1>1, PricedJobs DEF ProtocolInv, Priced
  <2> QED  BY <2>1, <2>2 DEF Priced
<1>2. CASE UNCHANGED vars
  <2>1. UNCHANGED <<returns, resolution, job, pointVars, status>>
    BY <1>2 DEF vars
  <2>2. PointsInv' /\ \A u \in Tickets : TicketPriced(u)'
    BY <2>1, NoReturnMoves, NoTicketMoves, QuietStep
  <2>3. \A a \in Handlers : JobPriced(a)'
    BY <2>1 DEF Priced, JobPriced
  <2> QED  BY <2>2, <2>3 DEF Priced
<1> QED  BY <1>1, <1>2

(* The points are shared out throughout: what was taken back is the share  *)
(* of the goods refunded, what was given back that of the goods that are   *)
(* not with the customer (revokeOrderPointsPartial,                        *)
(* refundOrderPointsPartial).                                              *)
THEOREM PointsShared == Spec => [](BooksInv /\ Priced /\ PointsInv)
<1>1. Init => Priced /\ PointsInv
  BY PointsInit
<1>2. BooksInv /\ BooksInv' /\ Priced /\ PointsInv /\ [Next]_vars => Priced' /\ PointsInv'
  BY PointsNext DEF BooksInv, ProtocolInv
<1> QED
  BY <1>1, <1>2, BooksBalance, PTL DEF Spec

(* The documents that moved points.                                        *)
BackReturns == {r \in Requests : Arrived(r)}
DamageRefunds == {t \in Tickets : Completed(t, "PARTIAL_REFUND")}

BackCopies == [b \in Books |-> BackAtShop(b)]
DamagedCopies == [b \in Books |-> Compensated(b, DamageRefunds)]

(* What came back is worth what its copies are.                            *)
LEMMA BackWorth ==
    ASSUME TypeInv
    PROVE  /\ BackCopies \in Lines
           /\ Total(BackReturns, [r \in Requests |-> Gross(returns[r].items)]) = Gross(BackCopies)
           /\ Total(Requests, [r \in Requests |-> ArrivedGross(r)]) = Gross(BackCopies)
<1> DEFINE items == [r \in BackReturns |-> returns[r].items]
           worth == [r \in BackReturns |-> Gross(items[r])]
           gross == [r \in Requests |-> Gross(returns[r].items)]
           copies == [b \in Books |-> [r \in Requests |-> returns[r].items[b]]]
<1>1. BackReturns \in SUBSET Requests /\ IsFiniteSet(Requests)
  BY OrderAssumption DEF BackReturns
<1>2. IsFiniteSet(BackReturns) /\ items \in [BackReturns -> Lines]
  BY <1>1, FS_Subset DEF TypeInv, ReturnRecord
<1>3. \A b \in Books, r \in BackReturns : copies[b][r] = items[r][b]
  BY <1>1
<1>4. \A b \in Books : BackAtShop(b) = Total(BackReturns, copies[b])
  BY DEF BackAtShop, BackReturns, Arrived
<1>5. \A r \in BackReturns : worth[r] = gross[r]
  BY <1>1
<1>6. \A r \in Requests : ArrivedGross(r) = IF r \in BackReturns THEN gross[r] ELSE 0
  BY DEF ArrivedGross, BackReturns
<1>7. worth = [r \in BackReturns |-> Gross(items[r])]
  OBVIOUS
<1> HIDE DEF items, gross, copies, worth
<1>8. BackCopies = [b \in Books |-> Total(BackReturns, copies[b])]
  BY <1>4, Zenon DEF BackCopies
<1>9. Total(BackReturns, worth) = Gross(BackCopies) /\ BackCopies \in Lines
  BY <1>2, <1>3, <1>7, <1>8, GrossOfAll, Zenon
<1>10. Total(BackReturns, gross) = Total(BackReturns, worth)
  BY <1>5, TotalSame
<1>11. Total(BackReturns, gross) = Total(Requests, [r \in Requests |-> ArrivedGross(r)])
  BY <1>1, <1>6, TotalOfPart
<1> QED  BY <1>9, <1>10, <1>11 DEF gross

(* So is what was paid for as damaged.                                     *)
LEMMA DamagedWorth ==
    ASSUME TypeInv
    PROVE  /\ DamagedCopies \in Lines
           /\ Total(DamageRefunds, [t \in Tickets |-> Gross(resolution[t].items)])
                  = Gross(DamagedCopies)
<1> DEFINE items == [t \in DamageRefunds |-> resolution[t].items]
           worth == [t \in DamageRefunds |-> Gross(items[t])]
           gross == [t \in Tickets |-> Gross(resolution[t].items)]
           copies == [b \in Books |-> [t \in Tickets |-> resolution[t].items[b]]]
<1>1. DamageRefunds \in SUBSET Tickets /\ IsFiniteSet(Tickets)
  BY OrderAssumption DEF DamageRefunds
<1>2. IsFiniteSet(DamageRefunds) /\ items \in [DamageRefunds -> Lines]
  BY <1>1, FS_Subset DEF TypeInv, Resolution
<1>3. \A b \in Books, t \in DamageRefunds : copies[b][t] = items[t][b]
  BY <1>1
<1>4. \A b \in Books : Compensated(b, DamageRefunds) = Total(DamageRefunds, copies[b])
  BY DEF Compensated
<1>5. \A t \in DamageRefunds : worth[t] = gross[t]
  BY <1>1
<1>6. worth = [t \in DamageRefunds |-> Gross(items[t])]
  OBVIOUS
<1> HIDE DEF items, gross, copies, worth
<1>7. DamagedCopies = [b \in Books |-> Total(DamageRefunds, copies[b])]
  BY <1>4, Zenon DEF DamagedCopies
<1>8. Total(DamageRefunds, worth) = Gross(DamagedCopies) /\ DamagedCopies \in Lines
  BY <1>2, <1>3, <1>6, <1>7, GrossOfAll, Zenon
<1>9. Total(DamageRefunds, gross) = Total(DamageRefunds, worth)
  BY <1>5, TotalSame
<1> QED  BY <1>8, <1>9 DEF gross

(* The points never run over.                                              *)
LEMMA PointsWithin ==
    ASSUME TypeInv, OrderClosed, PointsInv
    PROVE  clawed \in Nat /\ clawed <= earned /\ givenBack <= Spent
<1>1. TotalGoods \in Nat /\ TotalGross \in Nat
  BY PointTypes DEF NaturalPoints
<1>2. earned \in Nat /\ clawed = share(earned, TotalGoods, eligibleAmountForOrder)
  BY DEF PointsInv
<1>3. clawed \in Nat /\ clawed <= earned
  BY <1>1, <1>2, Bases, ShareBounds
<1>4. CASE status = "REFUNDED"
  BY <1>3, <1>4, Bases DEF OrderClosed
<1>5. CASE status # "REFUNDED"
  <2>1. givenBack = share(Spent, TotalGross, Subtotal)
    BY <1>5 DEF PointsInv
  <2> QED  BY <1>1, <1>3, <2>1, Bases, ShareBounds
<1> QED  BY <1>4, <1>5

(* All copies returned: everything redeemed is back.                       *)
LEMMA ReturnedGivesBack ==
    ASSUME ProtocolInv, PointsInv, \A b \in Books : BackAtShop(b) = Qty[b]
    PROVE  givenBack = Spent
<1>0. TypeInv
  BY DEF ProtocolInv
<1>1. BackCopies = Qty
  BY OrderAssumption DEF BackCopies
<1>2. Total(Requests, [r \in Requests |-> ArrivedGross(r)]) = Subtotal
  BY <1>0, <1>1, BackWorth DEF Subtotal
<1>3. Total(Tickets, [t \in Tickets |-> LostGross(t)]) \in Nat
  BY <1>0, PointTypes, TotalIsNat, OrderAssumption DEF NaturalPoints
<1>4. TotalGross \in Nat /\ TotalGross >= Subtotal
  BY <1>2, <1>3, Bases DEF TotalGross
<1>5. status = "DELIVERED"
  <2> SUFFICES ASSUME status # "DELIVERED"
               PROVE  FALSE
    OBVIOUS
  <2>1. \A r \in Requests : ArrivedGross(r) = 0
    BY DEF ProtocolInv, OrderFits, ArrivedGross, Arrived
  <2>2. Total(Requests, [r \in Requests |-> ArrivedGross(r)]) = 0
    BY <2>1, TotalZero
  <2> QED  BY <1>2, <2>2, Bases
<1>6. givenBack = share(Spent, TotalGross, Subtotal)
  BY <1>5 DEF PointsInv
<1> QED  BY <1>4, <1>6, Bases, ShareBounds

(* The sums of what was refunded, when all of it was at its full price.    *)
LEMMA GoodsRefunded ==
    ASSUME ProtocolInv, Priced,
           \A b \in Books : BackAtShop(b) + Compensated(b, DamageRefunds) = Qty[b],
           \A r \in LiveReturns : returns[r].amount = calculateRefundAmount(returns[r].items)
    PROVE  /\ Cardinality(BackReturns) + Cardinality(DamageRefunds) \in Nat
           /\ 2 * eligibleAmountForOrder
                  <= 2 * TotalGoods + (Cardinality(BackReturns) + Cardinality(DamageRefunds))
<1> DEFINE amountBack == [r \in Requests |-> returns[r].amount]
           grossBack == [r \in Requests |-> Gross(returns[r].items)]
           amountPaid == [t \in Tickets |-> resolution[t].amount]
           grossPaid == [t \in Tickets |-> Gross(resolution[t].items)]
<1>0. TypeInv
  BY DEF ProtocolInv
<1>1. /\ BackReturns \in SUBSET Requests /\ DamageRefunds \in SUBSET Tickets
      /\ IsFiniteSet(BackReturns) /\ IsFiniteSet(DamageRefunds)
  BY FS_Subset, OrderAssumption DEF BackReturns, DamageRefunds
<1>2. FullPrice(BackReturns, amountBack, grossBack)
  <2>1. ASSUME NEW r \in BackReturns
        PROVE  r \in Requests /\ r \in LiveReturns /\ returns[r].items \in Lines
    BY <1>0 DEF BackReturns, Arrived, LiveReturns, TypeInv, ReturnRecord
  <2> QED  BY <2>1 DEF FullPrice
<1>3. FullPrice(DamageRefunds, amountPaid, grossPaid)
  <2>1. ASSUME NEW t \in DamageRefunds
        PROVE  /\ t \in Tickets /\ resolution[t].items \in Lines
               /\ resolution[t].amount = calculateRefundAmount(resolution[t].items)
    BY <1>0 DEF DamageRefunds, Completed, Priced, TicketPriced, TypeInv, Resolution
  <2> QED  BY <2>1 DEF FullPrice
<1>4. /\ Total(BackReturns, grossBack) = Gross(BackCopies) /\ BackCopies \in Lines
      /\ Total(DamageRefunds, grossPaid) = Gross(DamagedCopies) /\ DamagedCopies \in Lines
  BY <1>0, BackWorth, DamagedWorth
<1>5. Subtotal = Gross(BackCopies) + Gross(DamagedCopies)
  <2>1. \A b \in Books : Qty[b] = BackCopies[b] + DamagedCopies[b]
    <3>1. /\ \A b \in Books : BackCopies[b] = BackAtShop(b)
          /\ \A b \in Books : DamagedCopies[b] = Compensated(b, DamageRefunds)
      BY Zenon DEF BackCopies, DamagedCopies
    <3> QED  BY <3>1, Zenon
  <2>2. Qty \in Lines
    BY OrderAssumption DEF Lines
  <2> QED  BY <1>4, <2>1, <2>2, GrossPlus DEF Subtotal
<1>6. TotalGoods = Total(BackReturns, amountBack) + Total(DamageRefunds, amountPaid)
  <2>1. Total(BackReturns, amountBack) = Total(Requests, [r \in Requests |-> ArrivedAmount(r)])
    BY <1>1, TotalOfPart DEF ArrivedAmount, BackReturns
  <2>2. Total(DamageRefunds, amountPaid) = Total(Tickets, [t \in Tickets |-> PartialAmount(t)])
    BY <1>1, TotalOfPart DEF PartialAmount, DamageRefunds
  <2> QED  BY <2>1, <2>2 DEF TotalGoods
<1> HIDE DEF amountBack, grossBack, amountPaid, grossPaid
<1>7. PICK a1, g1, n1 \in Nat :
          /\ a1 = Total(BackReturns, amountBack) /\ g1 = Total(BackReturns, grossBack)
          /\ n1 = Cardinality(BackReturns)
          /\ 2 * eligibleAmountForOrder * g1 <= 2 * Subtotal * a1 + Subtotal * n1
  BY <1>1, <1>2, RefundsShort
<1>8. PICK a2, g2, n2 \in Nat :
          /\ a2 = Total(DamageRefunds, amountPaid) /\ g2 = Total(DamageRefunds, grossPaid)
          /\ n2 = Cardinality(DamageRefunds)
          /\ 2 * eligibleAmountForOrder * g2 <= 2 * Subtotal * a2 + Subtotal * n2
  <2>1. /\ Total(DamageRefunds, amountPaid) \in Nat /\ Total(DamageRefunds, grossPaid) \in Nat
        /\ Cardinality(DamageRefunds) \in Nat
        /\ 2 * eligibleAmountForOrder * Total(DamageRefunds, grossPaid)
               <= 2 * Subtotal * Total(DamageRefunds, amountPaid)
                  + Subtotal * Cardinality(DamageRefunds)
    BY <1>1, <1>3, RefundsShort
  <2> QED  BY <2>1
<1>9. Subtotal = g1 + g2 /\ TotalGoods = a1 + a2
  BY <1>4, <1>5, <1>6, <1>7, <1>8
<1>10. PICK e, s \in Nat : e = eligibleAmountForOrder /\ s = Subtotal /\ s > 0
  BY Bases
<1>11. 2 * e * s <= s * (2 * (a1 + a2) + (n1 + n2))
  <2>1. 2 * e * g1 + 2 * e * g2 = 2 * e * s
    BY <1>9, <1>10
  <2>2. 2 * s * a1 + s * n1 + 2 * s * a2 + s * n2 = s * (2 * (a1 + a2) + (n1 + n2))
    OBVIOUS
  <2> QED  BY <1>7, <1>8, <1>10, <2>1, <2>2
<1>12. 2 * e <= 2 * (a1 + a2) + (n1 + n2)
  <2>1. PICK m \in Nat : m = 2 * (a1 + a2) + (n1 + n2)
    OBVIOUS
  <2>2. 2 * e * s <= s * m
    BY <1>11, <2>1
  <2> SUFFICES ASSUME 2 * e >= m + 1
               PROVE  FALSE
    BY <2>1
  <2>3. s * (2 * e) >= s * (m + 1) /\ s * (m + 1) = s * m + s /\ s * (2 * e) = 2 * e * s
    BY <2>1
  <2> QED  BY <1>10, <2>2, <2>3
<1> QED  BY <1>7, <1>8, <1>9, <1>10, <1>12

(* From a product to a quotient.                                           *)
LEMMA WithinQuotient ==
    ASSUME NEW R \in Nat \ {0}, NEW n \in Nat, NEW d \in Int,
           d <= 0 \/ 2 * R * (d - 1) < n
    PROVE  d <= 1 + (n - 1) \div (2 * R)
<1>1. CASE n = 0
  <2>1. PICK m \in Nat \ {0} : m = 2 * R
    OBVIOUS
  <2>2. (0 - 1) \div m = -1
    BY <2>1
  <2>3. d <= 0
    <3> SUFFICES ASSUME d >= 1
                 PROVE  FALSE
      OBVIOUS
    <3>1. d - 1 \in Nat /\ R * (d - 1) \in Nat /\ 2 * R * (d - 1) = 2 * (R * (d - 1))
      OBVIOUS
    <3> QED  BY <1>1, <3>1
  <2> QED  BY <1>1, <2>1, <2>2, <2>3
<1>2. CASE n > 0
  <2>1. PICK k \in Nat, m \in Nat \ {0} : k = n - 1 /\ m = 2 * R
    BY <1>2
  <2>2. PICK q \in Nat : q = k \div m /\ k < m * q + m
    BY Quotient
  <2>3. d <= 1 + q
    <3> SUFFICES ASSUME d - 1 >= q + 1
                 PROVE  FALSE
      BY <2>2
    <3>1. PICK c \in Nat : c = d - 1
      BY <2>2
    <3>2. m * c >= m * (q + 1) /\ m * (q + 1) = m * q + m
      BY <2>1, <2>2, <3>1
    <3>3. m * c < n
      BY <2>1, <3>1
    <3> QED  BY <2>1, <2>2, <3>2, <3>3
  <2> QED  BY <2>1, <2>2, <2>3
<1> QED  BY <1>1, <1>2

(* No movement takes back more than was earned or gives back more than was *)
(* redeemed; everything given up takes all that was earned but what        *)
(* rounding the refunds costs, and everything returned gives all back      *)
(* (revokeOrderPointsPartial and refundOrderPointsPartial, whatever the    *)
(* order of returns, damage refunds and lost parcels).                     *)
THEOREM PointsDoConverge == Spec => []PointsConverge
<1>1. ASSUME BooksInv, Priced, PointsInv
      PROVE  PointsConverge
  <2>1. TypeInv /\ ProtocolInv /\ OrderClosed
    BY <1>1 DEF BooksInv, ProtocolInv
  <2>2. /\ PriorReturns(NoRequest) = BackReturns
        /\ PriorTickets(NoTicket, "PARTIAL_REFUND") = DamageRefunds
    BY <2>1, PriorsAre DEF BackReturns, DamageRefunds
  <2>3. clawed \in Nat /\ clawed <= earned /\ givenBack <= Spent
    BY <1>1, <2>1, PointsWithin
  <2>4. ASSUME \A b \in Books :
                   BackAtShop(b) + Compensated(b, PriorTickets(NoTicket, "PARTIAL_REFUND"))
                       = Qty[b],
               \A r \in LiveReturns : returns[r].amount = calculateRefundAmount(returns[r].items)
        PROVE  earned - clawed <= 1 + (Movements - 1) \div (2 * EarnRate)
    <3>1. Movements = Cardinality(BackReturns) + Cardinality(DamageRefunds)
      BY <2>2 DEF Movements
    <3>2. Movements \in Nat /\ 2 * eligibleAmountForOrder <= 2 * TotalGoods + Movements
      BY <1>1, <2>1, <2>2, <2>4, <3>1, GoodsRefunded
    <3>3. /\ earned \in Nat /\ EarnRate * earned <= eligibleAmountForOrder
          /\ clawed = share(earned, TotalGoods, eligibleAmountForOrder)
      BY <1>1 DEF PointsInv
    <3>4. TotalGoods \in Nat
      BY <2>1, PointTypes DEF NaturalPoints
    <3>5. earned - clawed <= 0 \/ 2 * EarnRate * (earned - clawed - 1) < Movements
      BY <2>3, <3>2, <3>3, <3>4, Bases, Rounding
    <3>6. earned - clawed \in Int /\ EarnRate \in Nat \ {0}
      BY <2>3, <3>3, Bases
    <3> QED  BY <3>2, <3>5, <3>6, WithinQuotient
  <2>5. ASSUME \A b \in Books : BackAtShop(b) = Qty[b]
        PROVE  givenBack = Spent
    BY <1>1, <2>1, <2>5, ReturnedGivesBack
  <2> QED  BY <2>3, <2>4, <2>5 DEF PointsConverge
<1> QED
  BY <1>1, PointsShared, PTL

=============================================================================
