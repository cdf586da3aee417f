---------------------------- MODULE FulfilmentProofs ----------------------------
(***************************************************************************)
(* What holds of the task queue, for any number of requests, workers,      *)
(* orders, retries and crashes.                                            *)
(***************************************************************************)
EXTENDS Fulfilment, ShopProofs, FiniteSetTheorems, SequenceTheorems

-------------------------------------------------------------------------------
(***************************************************************************)
(* The shop goes its own way: what ShopProofs proves of it still holds.    *)
(***************************************************************************)
LEMMA ShopStep == [FulfilNext]_allVars => [Next]_vars
<1>1. ASSUME NEW r \in Requests, Request(r) PROVE Next
  BY <1>1 DEF Request, Next
<1> QED
  BY <1>1 DEF FulfilNext, allVars

\* So the invariant of the shop holds next to the queue, too.
LEMMA ShopInvariance == FulfilSpec => []IInv
<1>1. FulfilInit => IInv
  BY InitIInv DEF FulfilInit
<1> QED
  BY <1>1, NextIInv, ShopStep, PTL DEF FulfilSpec

\* An order keeps its past.
LEMMA VisitedGrows ==
  ASSUME IInv, [Next]_vars, NEW o \in OrderIds
  PROVE  visited[o] \subseteq visited'[o]
<1>1. visited \in [OrderIds -> SUBSET OrderStatus]
  BY DEF IInv, TablesOK, TablesTyped
<1>2. ASSUME UNCHANGED visited PROVE visited[o] \subseteq visited'[o]
  BY <1>2
<1>3. ASSUME NEW a, NEW x, visited' = [visited EXCEPT ![a] = @ \cup {x}]
      PROVE  visited[o] \subseteq visited'[o]
  BY <1>1, <1>3
<1>4. ASSUME NEW r \in Requests, StatusWriter(r)
      PROVE  visited[o] \subseteq visited'[o]
  <2>1. CASE CleanupCommit(r)
    BY <2>1 DEF CleanupCommit
  <2>2. CASE CreateOrderCommit(r)
    BY <1>3, <2>2 DEF CreateOrderCommit
  <2>3. CASE \/ CancelCommit(r) \/ PayApprovedCommit(r) \/ PayDeclinedCommit(r)
             \/ \E target \in OrderStatus : StatusCommit(r, target)
    BY <1>3, <2>3
    DEF CancelCommit, StatusCommit, PayApprovedCommit, PayDeclinedCommit, SetStatus
  <2> QED
    BY <1>4, <2>1, <2>2, <2>3 DEF StatusWriter
<1> QED
  BY <1>2, <1>4, OrderWriters DEF Next, vars, tables, orders

-------------------------------------------------------------------------------
(***************************************************************************)
(* Types.                                                                  *)
(***************************************************************************)
TypesInv == TasksTyped /\ IsFiniteSet(queue)

\* There is always a copy that nobody has: a new message is not one of those
\* that are on their way.
LEMMA NewOK ==
  ASSUME TypesInv, NEW m \in Message
  PROVE  /\ New(m) \in Message \ Unacknowledged
         /\ New(m).kind = m.kind /\ New(m).order = m.order
<1> DEFINE U == Unacknowledged
           n == Cardinality(U)
           copyOf(i) == [m EXCEPT !.copy = i]
           I == 0..n
<1>1. IsFiniteSet(U)
  <2> DEFINE f == [w \in Workers |-> running[w]]
  <2>1. IsFiniteSet({running[w] : w \in Workers})
    <3>1. f \in Surjection(Workers, {running[w] : w \in Workers})
      BY DEF Surjection
    <3> QED
      BY <3>1, FS_Surjection, TasksAssumption
  <2>2. IsFiniteSet({running[w] : w \in Workers} \ {None})
    BY <2>1, FS_Subset
  <2> QED
    BY <2>2, FS_Union DEF TypesInv, Unacknowledged
<1>2. n \in Nat
  BY <1>1, FS_CardinalityType
<1>3. \A i \in I : /\ copyOf(i) \in Message /\ copyOf(i).copy = i
                   /\ copyOf(i).kind = m.kind /\ copyOf(i).order = m.order
  BY <1>2 DEF Message
<1> HIDE DEF U, n, copyOf
<1>4. IsFiniteSet(I) /\ Cardinality(I) = n + 1
  BY <1>2, FS_Interval
<1>5. \E i \in I : copyOf(i) \notin U
  <2> SUFFICES ASSUME \A i \in I : copyOf(i) \in U PROVE FALSE
    OBVIOUS
  <2> DEFINE f == [i \in I |-> copyOf(i)]
  <2>1. f \in [I -> U]
    OBVIOUS
  <2>2. Cardinality(U) < Cardinality(I)
    BY <1>2, <1>4 DEF n
  <2>3. \E x, y \in I : x # y /\ f[x] = f[y]
    <3> HIDE DEF f, I
    <3> QED
      BY <1>1, <1>4, <2>1, <2>2, FS_PigeonHole
  <2> QED
    BY <1>3, <2>3
<1>6. PICK i \in I : i = (CHOOSE j \in I : copyOf(j) \notin U) /\ copyOf(i) \notin U
  BY <1>5
<1>7. New(m) = copyOf(i)
  BY <1>6 DEF New, copyOf, n, U
<1> QED
  BY <1>3, <1>6, <1>7 DEF U

\* A step in which the message m that worker w holds leaves it, or stays with
\* it to be acknowledged.
Releases(w) ==
    \/ running' = running /\ stage' = [stage EXCEPT ![w] = "ack"]
    \/ /\ running' = [running EXCEPT ![w] = None]
       /\ stage' = [stage EXCEPT ![w] = "idle"]

\* What workers hold after such a step is what they held, and nothing else.
LEMMA ReleasesOK ==
  ASSUME TypesInv, NEW w \in Workers, stage[w] # "idle", Releases(w),
         queue' \subseteq Message, IsFiniteSet(queue'),
         \A m \in queue' :
            \/ m \in queue
            \/ m \notin Unacknowledged
            \/ m = running[w] /\ running'[w] = None
  PROVE  /\ running' \in [Workers -> Message \cup {None}]
         /\ stage' \in [Workers -> {"idle", "run", "ack"}]
         /\ \A x \in Workers :
               /\ (running'[x] = None) = (stage'[x] = "idle")
               /\ running'[x] \notin queue'
               /\ \A v \in Workers :
                     running'[x] # None /\ running'[v] = running'[x] => v = x
<1>1. /\ running \in [Workers -> Message \cup {None}]
      /\ stage \in [Workers -> {"idle", "run", "ack"}]
      /\ \A x \in Workers :
            /\ running[x] = None <=> stage[x] = "idle"
            /\ running[x] \notin queue
            /\ \A v \in Workers :
                  running[x] # None /\ running[v] = running[x] => v = x
      /\ running[w] # None
  BY DEF TypesInv, TasksTyped
<1>2. /\ running' \in [Workers -> Message \cup {None}]
      /\ stage' \in [Workers -> {"idle", "run", "ack"}]
  BY <1>1 DEF Releases
<1>3. \A x \in Workers : /\ running'[x] = None <=> stage'[x] = "idle"
                         /\ running'[x] \in {running[x], None}
                         /\ x # w => running'[x] = running[x]
  BY <1>1 DEF Releases
<1>4. ASSUME NEW x \in Workers PROVE running'[x] \notin queue'
  <2>1. CASE running'[x] = None
    BY <2>1, MessageAssumption
  <2>2. CASE running'[x] # None
    <3>1. running'[x] = running[x] /\ running[x] \in Unacknowledged
      BY <1>3, <2>2 DEF Unacknowledged
    <3>2. running[x] = running[w] => x = w
      BY <1>1
    <3> QED
      BY <1>1, <2>2, <3>1, <3>2
  <2> QED
    BY <2>1, <2>2
<1>5. \A x, v \in Workers :
         running'[x] # None /\ running'[v] = running'[x] => v = x
  BY <1>1, <1>3
<1> QED
  BY <1>2, <1>3, <1>4, <1>5

\* The columns of TasksTyped that count, and the places of the messages.
CountersTyped ==
    /\ outbox    \in [Requests -> Seq(Task)]
    /\ mails     \in [OrderIds -> [MailKinds -> Nat]]
    /\ invoiced  \subseteq OrderIds
    /\ published \in [OrderIds -> [Kinds -> Nat]]
    /\ doubts    \in [OrderIds -> [Kinds -> Nat]]
    /\ failed    \subseteq Task
    /\ deaths    \in 0..MaxDeaths

PlacesTyped ==
    /\ queue     \subseteq Message /\ IsFiniteSet(queue)
    /\ running   \in [Workers -> Message \cup {None}]
    /\ stage     \in [Workers -> {"idle", "run", "ack"}]
    /\ \A w \in Workers :
          /\ (running[w] = None) = (stage[w] = "idle")
          /\ running[w] \notin queue
          /\ \A v \in Workers :
                running[w] # None /\ running[v] = running[w] => v = w

\* The two parts are the whole.
LEMMA TypesSplit == TypesInv <=> CountersTyped /\ PlacesTyped
BY DEF TypesInv, TasksTyped, CountersTyped, PlacesTyped

\* The message of a busy worker.
LEMMA RunningOK ==
  ASSUME TypesInv, NEW w \in Workers, stage[w] # "idle"
  PROVE  /\ running[w] \in Message
         /\ running[w].kind \in Kinds /\ running[w].order \in OrderIds
         /\ [kind |-> running[w].kind, order |-> running[w].order] \in Task
<1>1. running[w] \in Message
  BY DEF TypesInv, TasksTyped
<1> QED
  BY <1>1 DEF Message, Task

\* Publishing.
LEMMA PublishTyped ==
  ASSUME TypesInv, NEW r \in Requests, Publish(r)
  PROVE  CountersTyped' /\ PlacesTyped'
<1> DEFINE t == Head(outbox[r])
           m == [kind |-> t.kind, order |-> t.order, retries |-> 0, copy |-> 0]
<1>1. /\ outbox[r] \in Seq(Task) /\ outbox[r] # <<>>
      /\ CountersTyped /\ PlacesTyped
  BY TypesSplit DEF TypesInv, TasksTyped, Publish
<1>2. t \in Task /\ Tail(outbox[r]) \in Seq(Task)
  BY <1>1, HeadTailProperties
<1>3. t.kind \in Kinds /\ t.order \in OrderIds
  BY <1>2 DEF Task
<1>4. m \in Message
  BY <1>3 DEF Message
<1>5. /\ queue' = queue \cup {New(m)}
      /\ published' = [published EXCEPT ![t.order][t.kind] = @ + 1]
      /\ outbox' = [outbox EXCEPT ![r] = Tail(@)]
      /\ UNCHANGED <<running, stage, deaths, mails, invoiced, doubts, failed>>
  BY DEF Publish, effects
<1> HIDE DEF t, m
<1>6. New(m) \in Message \ Unacknowledged
  BY <1>4, NewOK
<1>7. PlacesTyped'
  <2>1. queue' \subseteq Message /\ IsFiniteSet(queue')
    BY <1>1, <1>5, <1>6, FS_AddElement DEF PlacesTyped
  <2>2. \A w \in Workers : running[w] # New(m)
    BY <1>6, MessageAssumption DEF Unacknowledged
  <2> QED
    BY <1>1, <1>5, <2>1, <2>2 DEF PlacesTyped
<1>8. published' \in [OrderIds -> [Kinds -> Nat]]
  BY <1>1, <1>3, <1>5 DEF CountersTyped
<1>9. CountersTyped'
  BY <1>1, <1>2, <1>5, <1>8 DEF CountersTyped
<1> QED
  BY <1>7, <1>9

\* Losing the tasks that were to be published.
LEMMA PublishLostTyped ==
  ASSUME TypesInv, NEW r \in Requests, PublishLost(r)
  PROVE  CountersTyped' /\ PlacesTyped'
<1>1. CountersTyped /\ PlacesTyped
  BY TypesSplit
<1>2. /\ failed' = failed \cup {outbox[r][i] : i \in DOMAIN outbox[r]}
      /\ outbox' = [outbox EXCEPT ![r] = <<>>]
      /\ UNCHANGED <<queue, running, stage, deaths, mails, invoiced, published, doubts>>
  BY DEF PublishLost, broker, effects
<1>3. outbox[r] \in Seq(Task)
  BY <1>1 DEF CountersTyped
<1>4. {outbox[r][i] : i \in DOMAIN outbox[r]} \subseteq Task
  BY <1>3, LenProperties, ElementOfSeq
<1>5. <<>> \in Seq(Task)
  BY EmptySeq
<1>6. CountersTyped'
  BY <1>1, <1>2, <1>4, <1>5 DEF CountersTyped
<1> QED
  BY <1>1, <1>2, <1>6 DEF PlacesTyped

\* A worker takes a message.
LEMMA TakeTyped ==
  ASSUME TypesInv, NEW w \in Workers, NEW m \in queue, Take(w, m)
  PROVE  CountersTyped' /\ PlacesTyped'
<1>1. CountersTyped /\ PlacesTyped
  BY TypesSplit
<1>2. /\ queue' = queue \ {m}
      /\ running' = [running EXCEPT ![w] = m] /\ stage' = [stage EXCEPT ![w] = "run"]
      /\ UNCHANGED <<outbox, deaths, mails, invoiced, published, doubts, failed>>
  BY DEF Take, effects
<1>3. m \in Message /\ m # None
  BY <1>1, MessageAssumption DEF PlacesTyped
<1>4. IsFiniteSet(queue')
  BY <1>1, <1>2, FS_RemoveElement DEF PlacesTyped
<1>5. PlacesTyped'
  BY <1>1, <1>2, <1>3, <1>4 DEF PlacesTyped
<1> QED
  BY <1>1, <1>2, <1>5 DEF CountersTyped

\* A worker is done with a message, or loses it.
Ends(w) ==
    \/ MailSent(w) \/ \E accepted \in BOOLEAN : MailFails(w, accepted)
    \/ InvoiceWritten(w) \/ InvoiceFails(w)
    \/ Ack(w) \/ WorkerDies(w) \/ ChildDies(w)

\* What such a step does with the message m.
EndEffects(w, m) ==
    /\ stage[w] # "idle" /\ Releases(w)
    /\ m \in Message /\ m.kind \in Kinds /\ m.order \in OrderIds
    /\ RetryOf(m) \in Message \ Unacknowledged
    /\ RetryOf(m).kind = m.kind /\ RetryOf(m).order = m.order
    /\ \/ queue' = queue
       \/ queue' = queue \cup {RetryOf(m)}
       \/ queue' = queue \cup {m} /\ running' = [running EXCEPT ![w] = None]
    /\ outbox' = outbox /\ published' = published
    /\ \/ invoiced' = invoiced
       \/ m.kind = "invoice" /\ invoiced' \subseteq invoiced \cup {m.order}
    /\ \/ mails' = mails
       \/ m.kind \in MailKinds /\ Mailed(m)
    /\ doubts' = doubts \/ Doubt(m)
    /\ failed' = failed \/ GiveUp(m)
    /\ deaths' \in 0..MaxDeaths

\* Every way to end has only these effects.
LEMMA EndsOK ==
  ASSUME TypesInv, NEW w \in Workers, Ends(w)
  PROVE  EndEffects(w, running[w])
<1> DEFINE m == running[w]
<1>1. stage[w] # "idle" /\ Releases(w)
  BY DEF Ends, MailSent, MailFails, InvoiceWritten, InvoiceFails, Ack, WorkerDies,
         ChildDies, Runs, Returned, Drop, Releases
<1>2. m \in Message /\ m.kind \in Kinds /\ m.order \in OrderIds
  BY <1>1, RunningOK
<1>3. /\ RetryOf(m) \in Message \ Unacknowledged
      /\ RetryOf(m).kind = m.kind /\ RetryOf(m).order = m.order
  <2> DEFINE x == [m EXCEPT !.retries = @ + 1]
  <2>1. x \in Message /\ x.kind = m.kind /\ x.order = m.order
    BY <1>2 DEF Message
  <2>2. RetryOf(m) = New(x)
    BY DEF RetryOf
  <2> HIDE DEF x
  <2> QED
    BY <2>1, <2>2, NewOK
<1>4. \/ queue' = queue
      \/ queue' = queue \cup {RetryOf(m)}
      \/ queue' = queue \cup {m} /\ running' = [running EXCEPT ![w] = None]
  BY DEF Ends, MailSent, MailFails, InvoiceWritten, InvoiceFails, Ack, WorkerDies,
         ChildDies, Drop
<1>5. deaths' \in 0..MaxDeaths
  <2>1. deaths \in 0..MaxDeaths /\ MaxDeaths \in Nat
    BY TasksAssumption DEF TypesInv, TasksTyped
  <2> QED
    BY <2>1
    DEF Ends, MailSent, MailFails, InvoiceWritten, InvoiceFails, Ack, WorkerDies,
        ChildDies, Returned
<1>6. \/ mails' = mails
      \/ m.kind \in MailKinds /\ Mailed(m)
  BY DEF Ends, MailSent, MailFails, InvoiceWritten, InvoiceFails, Ack, WorkerDies,
         ChildDies, Runs, effects
<1>7. doubts' = doubts \/ Doubt(m)
  BY DEF Ends, MailSent, MailFails, InvoiceWritten, InvoiceFails, Ack, WorkerDies,
         ChildDies
<1>8. failed' = failed \/ GiveUp(m)
  BY DEF Ends, MailSent, MailFails, InvoiceWritten, InvoiceFails, Ack, WorkerDies,
         ChildDies
<1>9. /\ outbox' = outbox /\ published' = published
      /\ \/ invoiced' = invoiced
         \/ m.kind = "invoice" /\ invoiced' \subseteq invoiced \cup {m.order}
  BY DEF Ends, MailSent, MailFails, InvoiceWritten, InvoiceFails, Ack, WorkerDies,
         ChildDies, Runs, effects
<1> HIDE DEF m
<1>10. EndEffects(w, m)
  BY <1>1, <1>2, <1>3, <1>4, <1>5, <1>6, <1>7, <1>8, <1>9 DEF EndEffects
<1> QED
  BY <1>10 DEF m

\* The end of a message keeps the types.
LEMMA EndsTyped ==
  ASSUME TypesInv, NEW w \in Workers, Ends(w)
  PROVE  CountersTyped' /\ PlacesTyped'
<1>1. CountersTyped /\ PlacesTyped
  BY TypesSplit
<1>2. PICK m : m = running[w] /\ EndEffects(w, m)
  BY EndsOK
<1>3. /\ stage[w] # "idle" /\ Releases(w)
      /\ m \in Message /\ m.kind \in Kinds /\ m.order \in OrderIds
      /\ [kind |-> m.kind, order |-> m.order] \in Task
  BY <1>2 DEF EndEffects, Task
<1>4. doubts' \in [OrderIds -> [Kinds -> Nat]]
  <2>1. CASE doubts' = [doubts EXCEPT ![m.order][m.kind] = @ + 1]
    BY <1>1, <1>3, <2>1 DEF CountersTyped
  <2> QED
    BY <1>1, <1>2, <2>1 DEF CountersTyped, EndEffects, Doubt
<1>5. mails' \in [OrderIds -> [MailKinds -> Nat]]
  <2>1. CASE m.kind \in MailKinds /\ mails' = [mails EXCEPT ![m.order][m.kind] = @ + 1]
    BY <1>1, <1>3, <2>1 DEF CountersTyped
  <2> QED
    BY <1>1, <1>2, <2>1 DEF CountersTyped, EndEffects, Mailed
<1>6. CountersTyped'
  <2>1. failed' \subseteq Task /\ invoiced' \subseteq OrderIds
    BY <1>1, <1>2, <1>3 DEF CountersTyped, EndEffects, GiveUp
  <2> QED
    BY <1>1, <1>2, <1>4, <1>5, <2>1 DEF CountersTyped, EndEffects
<1>7. \/ queue' = queue
      \/ queue' = queue \cup {RetryOf(m)} /\ RetryOf(m) \in Message \ Unacknowledged
      \/ queue' = queue \cup {m} /\ running' = [running EXCEPT ![w] = None]
  BY <1>2 DEF EndEffects
<1>8. queue' \subseteq Message /\ IsFiniteSet(queue')
  BY <1>1, <1>3, <1>7, FS_AddElement DEF PlacesTyped
<1>9. \A x \in queue' :
         \/ x \in queue
         \/ x \notin Unacknowledged
         \/ x = running[w] /\ running'[w] = None
  <2>1. running \in [Workers -> Message \cup {None}]
    BY <1>1 DEF PlacesTyped
  <2> QED
    BY <1>2, <1>7, <2>1
<1>10. PlacesTyped'
  <2>1. /\ running' \in [Workers -> Message \cup {None}]
        /\ stage' \in [Workers -> {"idle", "run", "ack"}]
        /\ \A x \in Workers :
              /\ (running'[x] = None) = (stage'[x] = "idle")
              /\ running'[x] \notin queue'
              /\ \A v \in Workers :
                    running'[x] # None /\ running'[v] = running'[x] => v = x
    BY <1>3, <1>8, <1>9, ReleasesOK
  <2> QED
    BY <1>8, <2>1 DEF PlacesTyped
<1> QED
  BY <1>6, <1>10

\* So does every step of the queue.
LEMMA TaskTyped ==
  ASSUME TypesInv, TaskStep
  PROVE  TypesInv'
<1>1. CountersTyped' /\ PlacesTyped'
  BY PublishTyped, PublishLostTyped, TakeTyped, EndsTyped DEF TaskStep, Work, Ends
<1> QED
  BY <1>1 DEF TypesInv, TasksTyped, CountersTyped, PlacesTyped

-------------------------------------------------------------------------------
(***************************************************************************)
(* What a request announces.                                               *)
(***************************************************************************)
\* What the mail or the invoice of t tells the customer has happened.
Earned(t) == IF t.kind = "payment_failed" THEN "PAYMENT_FAILED" \in visited[t.order]
                                          ELSE "ORDER_CONFIRMED" \in visited[t.order]

\* A payment that is not a duplicate commits: it does not do anything else.
LEMMA PaymentCommits ==
  ASSUME NEW r \in Requests, Continue(r), ~Duplicate(ses[r])
  PROVE  /\ pc[r] = "pay_approved" => PayApprovedCommit(r)
         /\ pc[r] = "pay_declined" => PayDeclinedCommit(r)
<1> SUFFICES ASSUME pc[r] \in {"pay_approved", "pay_declined"}
             PROVE  PayApprovedCommit(r) \/ PayDeclinedCommit(r)
  BY DEF PayApprovedCommit, PayDeclinedCommit
<1>1. Wanted(r) = {}
  BY DEF Wanted
<1>2. ~DeadlockVictim(r) /\ \A p \in Products : ~LockRow(r, p)
  BY <1>1 DEF DeadlockVictim, WaitsFor, LockRow
<1>3. ~CartStep(r)
  BY DEF CartStep, AddItemReadCart, AddItemUpdate, AddItemInsert, AddItemConflict,
         UpdateItemReadProducts, UpdateItemReject, UpdateItemCommit,
         UpdateItemConflict, CartDeleteCommit
<1>4. ~OrderStep(r)
  BY <1>2 DEF OrderStep, CreateOrderReadProducts, CreateOrderCommit,
              CreateOrderReject, CancelReadProducts, CancelCommit, StatusCommit,
              CleanupCommit
<1>5. ~ProductStep(r)
  BY DEF ProductStep, UpdateProductCommit, DeleteProductCommit
<1>6. PaymentStep(r)
  BY <1>3, <1>4, <1>5 DEF Continue
<1> QED
  BY <1>6 DEF PaymentStep, PayRejectRetries, PayGateway, PayConflict

\* What it announces is so once it has committed.
LEMMA AnnouncedOK ==
  ASSUME IInv, NEW r \in Requests, Continue(r)
  PROVE  \E q \in Seq(Task) : /\ q = Announced(r)
                              /\ \A i \in DOMAIN q : Earned(q[i])'
<1> DEFINE o == ses[r].order
<1>1. /\ visited \in [OrderIds -> SUBSET OrderStatus]
      /\ SessionOK(pc[r], ses[r])
  BY DEF IInv, TablesOK, TablesTyped
<1>2. CASE pc[r] = "pay_approved" /\ ~Duplicate(ses[r])
  <2>1. PayApprovedCommit(r) /\ o \in OrderIds
    BY <1>1, <1>2, PaymentCommits DEF SessionOK, OrderLabels, Placed
  <2>2. visited' = [visited EXCEPT ![o] = @ \cup {"ORDER_CONFIRMED"}]
    BY <2>1 DEF PayApprovedCommit, SetStatus
  <2>3. Announced(r) = [i \in 1..2 |-> [kind |-> <<"confirmation", "invoice">>[i],
                                        order |-> o]]
    BY <1>2 DEF Announced, To
  <2> HIDE DEF o
  <2> DEFINE q == [i \in 1..2 |-> [kind |-> <<"confirmation", "invoice">>[i],
                                   order |-> o]]
  <2>4. q \in [1..2 -> Task]
    BY <2>1 DEF Task, Kinds, MailKinds
  <2>5. q \in Seq(Task)
    BY <2>4, SeqDef
  <2>6. \A i \in 1..2 : q[i].kind # "payment_failed" /\ q[i].order = o
    OBVIOUS
  <2>7. "ORDER_CONFIRMED" \in visited'[o]
    BY <1>1, <2>1, <2>2
  <2>8. DOMAIN q = 1..2
    OBVIOUS
  <2>9. PICK x \in Seq(Task) : x = q
    BY <2>5
  <2> HIDE DEF q
  <2> QED
    BY <2>3, <2>6, <2>7, <2>8, <2>9 DEF Earned, q
<1>3. CASE pc[r] = "pay_declined" /\ ~Duplicate(ses[r])
  <2>1. PayDeclinedCommit(r) /\ o \in OrderIds /\ ses[r].status \in visited[o]
    BY <1>1, <1>3, PaymentCommits DEF SessionOK, OrderLabels, Placed
  <2>2. PICK x : /\ visited' = [visited EXCEPT ![o] = @ \cup {x}]
                 /\ x = "PAYMENT_FAILED" \/ ses[r].status = "PAYMENT_FAILED"
    BY <2>1 DEF PayDeclinedCommit, SetStatus, Flushed
  <2>3. Announced(r) = [i \in 1..1 |-> [kind |-> "payment_failed", order |-> o]]
    BY <1>3 DEF Announced, To
  <2>4. "PAYMENT_FAILED" \in visited'[o]
    BY <1>1, <2>1, <2>2
  <2> HIDE DEF o
  <2> DEFINE q == [i \in 1..1 |-> [kind |-> "payment_failed", order |-> o]]
  <2>5. q \in [1..1 -> Task]
    BY <2>1 DEF Task, Kinds, MailKinds
  <2>6. q \in Seq(Task)
    BY <2>5, SeqDef
  <2>7. /\ \A i \in 1..1 : q[i].kind = "payment_failed" /\ q[i].order = o
        /\ DOMAIN q = 1..1
    OBVIOUS
  <2>8. PICK y \in Seq(Task) : y = q
    BY <2>6
  <2> HIDE DEF q
  <2> QED
    BY <2>3, <2>4, <2>7, <2>8 DEF Earned, q
<1>4. CASE ~(pc[r] \in {"pay_approved", "pay_declined"} /\ ~Duplicate(ses[r]))
  <2>1. Announced(r) = <<>>
    BY <1>4 DEF Announced
  <2>2. <<>> \in Seq(Task) /\ DOMAIN <<>> = {}
    BY EmptySeq
  <2> QED
    BY <2>1, <2>2
<1> QED
  BY <1>2, <1>3, <1>4

\* And every step of a request, which only fills its outbox.
LEMMA RequestTyped ==
  ASSUME IInv, TypesInv, NEW r \in Requests, Request(r)
  PROVE  TypesInv'
<1>1. CountersTyped /\ PlacesTyped
  BY TypesSplit
<1>2. UNCHANGED <<queue, running, stage, deaths, mails, invoiced, published, doubts,
                  failed>>
  BY DEF Request, broker, effects
<1>3. outbox' \in [Requests -> Seq(Task)]
  <2>1. CASE UNCHANGED outbox
    BY <1>1, <2>1 DEF CountersTyped
  <2>2. CASE Continue(r) /\ outbox' = [outbox EXCEPT ![r] = Announced(r)]
    BY <1>1, <2>2, AnnouncedOK DEF CountersTyped
  <2> QED
    BY <2>1, <2>2 DEF Request
<1>4. CountersTyped' /\ PlacesTyped'
  BY <1>1, <1>2, <1>3 DEF CountersTyped, PlacesTyped
<1> QED
  BY <1>4 DEF TypesInv, TasksTyped, CountersTyped, PlacesTyped

\* So every step keeps the types.
LEMMA TypesNext == IInv /\ TypesInv /\ [FulfilNext]_allVars => TypesInv'
<1>1. ASSUME TypesInv, UNCHANGED taskVars PROVE TypesInv'
  <2>1. CountersTyped /\ PlacesTyped
    BY <1>1, TypesSplit
  <2>2. CountersTyped' /\ PlacesTyped'
    BY <1>1, <2>1 DEF taskVars, broker, effects, CountersTyped, PlacesTyped
  <2> QED
    BY <2>2 DEF TypesInv, TasksTyped, CountersTyped, PlacesTyped
<1> QED
  BY <1>1, RequestTyped, TaskTyped DEF FulfilNext, allVars

\* The types hold throughout, with the invariant of the shop.
LEMMA TypesInvariance == FulfilSpec => [](IInv /\ TypesInv)
<1>1. FulfilInit => TypesInv
  <2> SUFFICES ASSUME FulfilInit PROVE TypesInv
    OBVIOUS
  <2>1. TaskInit /\ <<>> \in Seq(Task) /\ 0 \in 0..MaxDeaths
    BY EmptySeq, TasksAssumption DEF FulfilInit
  <2>2. CountersTyped
    BY <2>1 DEF TaskInit, CountersTyped
  <2>3. PlacesTyped
    BY <2>1, FS_EmptySet DEF TaskInit, PlacesTyped
  <2> QED
    BY <2>2, <2>3, TypesSplit
<1> QED
  BY <1>1, ShopInvariance, TypesNext, PTL DEF FulfilSpec

\* Tasks, messages and workers keep their types, and no message is lost in a
\* merge or handled by two workers: it is in one place at a time.
THEOREM QueueTyped == FulfilSpec => []TasksTyped
<1>1. TypesInv => TasksTyped
  BY DEF TypesInv
<1> QED
  BY <1>1, TypesInvariance, PTL

-------------------------------------------------------------------------------
(***************************************************************************)
(* Customers are told the truth: a task says of its order what has been    *)
(* committed before the task was published, and an order keeps its past.   *)
(***************************************************************************)
TruthInv ==
    /\ \A r \in Requests : \A i \in DOMAIN outbox[r] : Earned(outbox[r][i])
    /\ \A m \in queue : Earned(m)
    /\ \A w \in Workers : stage[w] # "idle" => Earned(running[w])
    /\ NoticeIsTrue

\* A request that has committed, or anything else that leaves the queue alone.
LEMMA TruthShop ==
  ASSUME IInv, TypesInv, TruthInv, [Next]_vars,
         UNCHANGED <<queue, running, stage, mails, invoiced>>,
         \/ UNCHANGED outbox
         \/ \E r \in Requests : /\ Continue(r)
                                /\ outbox' = [outbox EXCEPT ![r] = Announced(r)]
  PROVE  TruthInv'
<1>1. \A o \in OrderIds : visited[o] \subseteq visited'[o]
  BY VisitedGrows
<1>2. \A t : t.order \in OrderIds /\ Earned(t) => Earned(t)'
  BY <1>1 DEF Earned
<1>3. CountersTyped /\ PlacesTyped
  BY TypesSplit
<1>4. \A m \in queue : Earned(m)'
  BY <1>2, <1>3 DEF TruthInv, PlacesTyped, Message
<1>5. ASSUME NEW w \in Workers, stage[w] # "idle"
      PROVE  Earned(running[w])'
  <2>1. PICK m : m = running[w] /\ m \in Message /\ Earned(m)
    BY <1>5, RunningOK DEF TruthInv
  <2>2. Earned(m)' /\ m = running'[w]
    BY <1>2, <2>1 DEF Message
  <2> QED
    BY <2>2 DEF Earned
<1>6. ASSUME NEW r \in Requests, NEW i \in DOMAIN outbox[r]
      PROVE  \E t : t = outbox[r][i] /\ Earned(t)'
  <2>1. outbox[r] \in Seq(Task)
    BY <1>3 DEF CountersTyped
  <2>2. outbox[r][i] \in Task
    BY <2>1, LenProperties, ElementOfSeq
  <2>3. PICK t : t = outbox[r][i] /\ t \in Task /\ Earned(t)
    BY <2>2 DEF TruthInv
  <2>4. Earned(t)'
    BY <1>2, <2>3 DEF Task
  <2> QED
    BY <2>3, <2>4
<1>7. ASSUME NEW r \in Requests, NEW i \in DOMAIN outbox'[r]
      PROVE  Earned(outbox[r][i])'
  <2>1. CASE outbox'[r] = outbox[r]
    <3>1. PICK t : t = outbox[r][i] /\ Earned(t)'
      BY <1>6, <1>7, <2>1
    <3>2. t = outbox'[r][i]
      BY <2>1, <3>1
    <3> QED
      BY <3>1, <3>2 DEF Earned
  <2>2. CASE Continue(r) /\ outbox' = [outbox EXCEPT ![r] = Announced(r)]
    <3>1. PICK q \in Seq(Task) : q = Announced(r) /\ \A j \in DOMAIN q : Earned(q[j])'
      BY <2>2, AnnouncedOK
    <3>2. outbox'[r] = q
      BY <1>3, <2>2, <3>1 DEF CountersTyped
    <3>3. Earned(q[i])'
      BY <1>7, <3>1, <3>2
    <3> QED
      BY <3>2, <3>3 DEF Earned
  <2> QED
    BY <1>3, <2>1, <2>2 DEF CountersTyped
<1>8. NoticeIsTrue'
  BY <1>1 DEF TruthInv, NoticeIsTrue
<1>9. (\A m \in queue : Earned(m))'
  BY <1>4 DEF Earned
<1>10. (\A w \in Workers : stage[w] # "idle" => Earned(running[w]))'
  BY <1>5 DEF Earned
<1> QED
  BY <1>7, <1>8, <1>9, <1>10 DEF TruthInv

\* The queue and its workers, while the shop stands still.
LEMMA TruthTask ==
  ASSUME TypesInv, TruthInv, TaskStep, UNCHANGED vars
  PROVE  TruthInv'
<1>1. visited' = visited
  BY DEF vars, tables, orders
<1>2. \A t : Earned(t)' <=> Earned(t)
  BY <1>1 DEF Earned
<1>3. CountersTyped /\ PlacesTyped
  BY TypesSplit
<1>4. ASSUME NEW r \in Requests, Publish(r) PROVE TruthInv'
  <2> DEFINE t == Head(outbox[r])
             m == [kind |-> t.kind, order |-> t.order, retries |-> 0, copy |-> 0]
  <2>1. outbox[r] \in Seq(Task) /\ outbox[r] # <<>>
    BY <1>3, <1>4 DEF CountersTyped, Publish
  <2>2. /\ t \in Task /\ t = outbox[r][1] /\ 1 \in DOMAIN outbox[r]
        /\ \A i \in DOMAIN Tail(outbox[r]) :
              /\ i + 1 \in DOMAIN outbox[r]
              /\ Tail(outbox[r])[i] = outbox[r][i + 1]
    <3>1. /\ t \in Task /\ Tail(outbox[r]) \in Seq(Task)
          /\ Len(Tail(outbox[r])) = Len(outbox[r]) - 1
          /\ \A i \in 1..Len(Tail(outbox[r])) : Tail(outbox[r])[i] = outbox[r][i + 1]
      BY <2>1, HeadTailProperties
    <3>2. /\ DOMAIN Tail(outbox[r]) = 1..Len(Tail(outbox[r]))
          /\ DOMAIN outbox[r] = 1..Len(outbox[r])
          /\ Len(outbox[r]) \in Nat \ {0}
      BY <2>1, <3>1, LenProperties, EmptySeq
    <3>3. t = outbox[r][1]
      BY <2>1
    <3> QED
      BY <3>1, <3>2, <3>3
  <2>3. m \in Message /\ Earned(t)
    BY <2>2 DEF TruthInv, Message, Task
  <2>4. /\ queue' = queue \cup {New(m)}
        /\ outbox' = [outbox EXCEPT ![r] = Tail(@)]
        /\ UNCHANGED <<running, stage, mails, invoiced>>
    BY <1>4 DEF Publish, effects
  <2>5. Earned(New(m))
    BY <2>3, NewOK DEF Earned
  <2> HIDE DEF t, m
  <2>6. \A x \in queue' : Earned(x)'
    BY <1>2, <2>4, <2>5 DEF TruthInv
  <2>7. ASSUME NEW x \in Requests, NEW i \in DOMAIN outbox'[x]
        PROVE  Earned(outbox[x][i])'
    <3>1. outbox' \in [Requests -> Seq(Task)]
      BY <1>4, PublishTyped DEF CountersTyped
    <3>2. CASE x = r
      <4>1. outbox'[r] = Tail(outbox[r])
        BY <1>3, <2>4 DEF CountersTyped
      <4>2. i + 1 \in DOMAIN outbox[r] /\ outbox'[r][i] = outbox[r][i + 1]
        BY <2>2, <2>7, <3>2, <4>1
      <4>3. Earned(outbox[r][i + 1])
        BY <4>2 DEF TruthInv
      <4> QED
        BY <1>1, <3>2, <4>2, <4>3 DEF Earned
    <3>3. CASE x # r
      <4>1. outbox'[x] = outbox[x]
        BY <1>3, <2>4, <3>3 DEF CountersTyped
      <4> QED
        BY <1>1, <2>7, <4>1 DEF TruthInv, Earned
    <3> QED
      BY <3>2, <3>3
  <2>8. \A w \in Workers : stage'[w] # "idle" => Earned(running[w])'
    BY <1>1, <2>4 DEF TruthInv, Earned
  <2>9. NoticeIsTrue'
    BY <1>1, <2>4 DEF TruthInv, NoticeIsTrue
  <2> QED
    BY <2>6, <2>7, <2>8, <2>9 DEF TruthInv
<1>5. ASSUME NEW r \in Requests, PublishLost(r) PROVE TruthInv'
  <2>1. /\ outbox' = [outbox EXCEPT ![r] = <<>>]
        /\ UNCHANGED <<queue, running, stage, mails, invoiced>>
    BY <1>5 DEF PublishLost, broker, effects
  <2>2. ASSUME NEW x \in Requests, NEW i \in DOMAIN outbox'[x]
        PROVE  Earned(outbox[x][i])'
    <3>1. outbox'[x] = outbox[x]
      <4>1. DOMAIN <<>> = {}
        OBVIOUS
      <4> QED
        BY <1>3, <2>1, <2>2, <4>1 DEF CountersTyped
    <3> QED
      BY <1>1, <2>2, <3>1 DEF TruthInv, Earned
  <2>3. /\ \A m \in queue' : Earned(m)'
        /\ \A w \in Workers : stage'[w] # "idle" => Earned(running[w])'
        /\ NoticeIsTrue'
    BY <1>1, <2>1 DEF TruthInv, NoticeIsTrue, Earned
  <2> QED
    BY <2>2, <2>3 DEF TruthInv
<1>6. ASSUME NEW w \in Workers, NEW m \in queue, Take(w, m) PROVE TruthInv'
  <2>1. /\ queue' = queue \ {m}
        /\ running' = [running EXCEPT ![w] = m] /\ stage' = [stage EXCEPT ![w] = "run"]
        /\ UNCHANGED <<outbox, mails, invoiced>>
    BY <1>6 DEF Take, effects
  <2>2. ASSUME NEW x \in Workers, stage'[x] # "idle" PROVE Earned(running[x])'
    <3>1. CASE x = w
      <4>1. running'[x] = m /\ Earned(m)
        BY <1>3, <2>1, <3>1 DEF TruthInv, PlacesTyped
      <4> QED
        BY <1>1, <4>1 DEF Earned
    <3>2. CASE x # w
      <4>1. running'[x] = running[x] /\ stage'[x] = stage[x]
        BY <1>3, <2>1, <3>2 DEF PlacesTyped
      <4> QED
        BY <1>1, <2>2, <4>1 DEF Earned, TruthInv
    <3> QED
      BY <3>1, <3>2
  <2>3. /\ \A r \in Requests : \A i \in DOMAIN outbox'[r] : Earned(outbox[r][i])'
        /\ \A x \in queue' : Earned(x)'
        /\ NoticeIsTrue'
    BY <1>1, <2>1 DEF TruthInv, NoticeIsTrue, Earned
  <2> QED
    BY <2>2, <2>3 DEF TruthInv
<1>7. ASSUME NEW w \in Workers, Ends(w) PROVE TruthInv'
  <2>1. PICK m : m = running[w] /\ EndEffects(w, m)
    BY <1>7, EndsOK
  <2>2. /\ stage[w] # "idle" /\ Releases(w) /\ Earned(m)
        /\ m.kind \in Kinds /\ m.order \in OrderIds
    BY <2>1 DEF EndEffects, TruthInv
  <2>3. \A x \in queue' : Earned(x)'
    BY <1>2, <2>1, <2>2 DEF TruthInv, EndEffects, Earned
  <2>4. ASSUME NEW x \in Workers, stage'[x] # "idle" PROVE Earned(running[x])'
    <3>1. running'[x] = running[x] /\ stage[x] # "idle"
      BY <1>3, <2>2, <2>4 DEF Releases, PlacesTyped
    <3> QED
      BY <1>1, <3>1 DEF Earned, TruthInv
  <2>5. \A r \in Requests : \A i \in DOMAIN outbox'[r] : Earned(outbox[r][i])'
    BY <1>1, <2>1 DEF TruthInv, Earned, EndEffects
  <2>6. ASSUME NEW o \in OrderIds
        PROVE  /\ mails'[o]["confirmation"] > 0 \/ o \in invoiced' =>
                    "ORDER_CONFIRMED" \in visited[o]
               /\ mails'[o]["payment_failed"] > 0 => "PAYMENT_FAILED" \in visited[o]
    <3>1. /\ mails[o]["confirmation"] > 0 \/ o \in invoiced =>
                    "ORDER_CONFIRMED" \in visited[o]
          /\ mails[o]["payment_failed"] > 0 => "PAYMENT_FAILED" \in visited[o]
      BY DEF TruthInv, NoticeIsTrue
    <3>2. o \in invoiced' => "ORDER_CONFIRMED" \in visited[o]
      BY <2>1, <2>2, <3>1 DEF EndEffects, Earned
    <3>3. ASSUME NEW k \in MailKinds, mails'[o][k] # mails[o][k]
          PROVE  o = m.order /\ k = m.kind
      <4>1. mails' = [mails EXCEPT ![m.order][m.kind] = @ + 1]
        BY <2>1, <3>3 DEF EndEffects, Mailed
      <4>2. mails \in [OrderIds -> [MailKinds -> Nat]]
        BY <1>3 DEF CountersTyped
      <4> QED
        BY <2>2, <3>3, <4>1, <4>2
    <3>4. mails'[o]["confirmation"] > 0 => "ORDER_CONFIRMED" \in visited[o]
      BY <2>2, <3>1, <3>3 DEF Earned, MailKinds
    <3>5. mails'[o]["payment_failed"] > 0 => "PAYMENT_FAILED" \in visited[o]
      BY <2>2, <3>1, <3>3 DEF Earned, MailKinds
    <3> QED
      BY <3>2, <3>4, <3>5
  <2>7. NoticeIsTrue'
    BY <1>1, <2>6 DEF NoticeIsTrue
  <2> QED
    BY <2>3, <2>4, <2>5, <2>7 DEF TruthInv
<1> QED
  BY <1>4, <1>5, <1>6, <1>7 DEF TaskStep, Work, Ends

\* process_payment publishes after its commit, so no mail and no invoice tells
\* of a confirmation, or of a failure, that the tables never had.
THEOREM NoticesTrue == FulfilSpec => []NoticeIsTrue
<1>1. FulfilInit => TruthInv
  <2> SUFFICES ASSUME FulfilInit PROVE TruthInv
    OBVIOUS
  <2>1. TaskInit /\ DOMAIN <<>> = {}
    BY DEF FulfilInit
  <2> QED
    BY <2>1 DEF TaskInit, TruthInv, NoticeIsTrue, MailKinds
<1>2. IInv /\ TypesInv /\ TruthInv /\ [FulfilNext]_allVars => TruthInv'
  <2> SUFFICES ASSUME IInv, TypesInv, TruthInv, [FulfilNext]_allVars PROVE TruthInv'
    OBVIOUS
  <2>1. ASSUME NEW r \in Requests, Request(r) PROVE TruthInv'
    <3>1. UNCHANGED <<queue, running, stage, mails, invoiced>>
      BY <2>1 DEF Request, broker, effects
    <3>2. \/ UNCHANGED outbox
          \/ Continue(r) /\ outbox' = [outbox EXCEPT ![r] = Announced(r)]
      BY <2>1 DEF Request
    <3> QED
      BY <3>1, <3>2, ShopStep, TruthShop
  <2>2. CASE UNCHANGED allVars
    <3>1. UNCHANGED <<outbox, queue, running, stage, mails, invoiced>>
      BY <2>2 DEF allVars, taskVars, broker, effects
    <3> QED
      BY <3>1, ShopStep, TruthShop
  <2> QED
    BY <2>1, <2>2, TruthTask DEF FulfilNext
<1>3. TruthInv => NoticeIsTrue
  BY DEF TruthInv
<1> QED
  BY <1>1, <1>2, <1>3, TypesInvariance, PTL DEF FulfilSpec

-------------------------------------------------------------------------------
(***************************************************************************)
(* Every mail is accounted for.  A message that waits, or runs, may still  *)
(* be mailed once.                                                         *)
(***************************************************************************)
Waiting(o, k) == {m \in queue : m.order = o /\ m.kind = k}

Running(o, k) ==
    {w \in Workers : stage[w] = "run" /\ running[w].order = o /\ running[w].kind = k}

CountInv ==
    \A o \in OrderIds, k \in MailKinds :
        mails[o][k] + Cardinality(Waiting(o, k)) + Cardinality(Running(o, k))
            <= published[o][k] + doubts[o][k]

Matches(m, o, k) == m.order = o /\ m.kind = k

\* What is counted is finite.
LEMMA Countable ==
  ASSUME TypesInv, NEW o \in OrderIds, NEW k \in Kinds
  PROVE  /\ IsFiniteSet(Waiting(o, k)) /\ Cardinality(Waiting(o, k)) \in Nat
         /\ IsFiniteSet(Running(o, k)) /\ Cardinality(Running(o, k)) \in Nat
<1>1. IsFiniteSet(Waiting(o, k))
  <2>1. Waiting(o, k) \subseteq queue
    BY DEF Waiting
  <2> QED
    BY <2>1, FS_Subset DEF TypesInv
<1>2. IsFiniteSet(Running(o, k))
  <2>1. Running(o, k) \subseteq Workers
    BY DEF Running
  <2> QED
    BY <2>1, FS_Subset, TasksAssumption
<1> QED
  BY <1>1, <1>2, FS_CardinalityType

\* A new message in the queue.
LEMMA OneMoreWaits ==
  ASSUME TypesInv, NEW o \in OrderIds, NEW k \in Kinds, NEW x, x \notin queue,
         queue' = queue \cup {x}
  PROVE  Cardinality(Waiting(o, k))' =
             Cardinality(Waiting(o, k)) + (IF Matches(x, o, k) THEN 1 ELSE 0)
<1>1. IsFiniteSet(Waiting(o, k)) /\ Cardinality(Waiting(o, k)) \in Nat
  BY Countable
<1>2. CASE Matches(x, o, k)
  <2>1. Waiting(o, k)' = Waiting(o, k) \cup {x} /\ x \notin Waiting(o, k)
    BY <1>2 DEF Waiting, Matches
  <2> QED
    BY <1>1, <1>2, <2>1, FS_AddElement
<1>3. CASE ~Matches(x, o, k)
  <2>1. Waiting(o, k)' = Waiting(o, k)
    BY <1>3 DEF Waiting, Matches
  <2> QED
    BY <1>1, <1>3, <2>1
<1> QED
  BY <1>2, <1>3

\* A worker that no longer runs the message it held.
LEMMA OneLessRuns ==
  ASSUME TypesInv, NEW o \in OrderIds, NEW k \in Kinds, NEW w \in Workers, Releases(w)
  PROVE  Cardinality(Running(o, k))' =
             Cardinality(Running(o, k))
                 - (IF stage[w] = "run" /\ Matches(running[w], o, k) THEN 1 ELSE 0)
<1>1. IsFiniteSet(Running(o, k)) /\ Cardinality(Running(o, k)) \in Nat
  BY Countable
<1>2. PlacesTyped
  BY TypesSplit
<1>3. Running(o, k)' = Running(o, k) \ {w}
  <2>1. stage'[w] # "run"
    BY <1>2 DEF PlacesTyped, Releases
  <2>2. \A x \in Workers \ {w} : running'[x] = running[x] /\ stage'[x] = stage[x]
    BY <1>2 DEF PlacesTyped, Releases
  <2> QED
    BY <2>1, <2>2 DEF Running
<1>4. w \in Running(o, k) <=> stage[w] = "run" /\ Matches(running[w], o, k)
  BY DEF Running, Matches
<1> DEFINE R == Running(o, k)
           B == Running(o, k)'
<1>5. w \in R => Cardinality(B) = Cardinality(R) - 1
  <2>1. IsFiniteSet(R) /\ B = R \ {w}
    BY <1>1, <1>3
  <2> HIDE DEF R, B
  <2> QED
    BY <2>1, FS_RemoveElement
<1>6. w \notin R => Cardinality(B) = Cardinality(R)
  <2>1. w \notin R => B = R
    BY <1>3
  <2> HIDE DEF R, B
  <2> QED
    BY <2>1
<1> QED
  BY <1>1, <1>4, <1>5, <1>6

\* What the end of a message means to the mails: none, or one that ran, or one
\* that will be repeated and is doubted.
EndMails(w, m) ==
    \/ /\ queue' = queue
       /\ \/ mails' = mails /\ doubts' = doubts
          \/ stage[w] = "run" /\ Mailed(m) /\ doubts' = doubts
    \/ /\ stage[w] = "run"
       /\ \E x : queue' = queue \cup {x} /\ x \notin queue
                 /\ x.order = m.order /\ x.kind = m.kind
       /\ \/ mails' = mails /\ doubts' = doubts
          \/ Mailed(m) /\ Doubt(m)
    \/ /\ queue' = queue \cup {m} /\ m \notin queue
       /\ mails' = mails /\ Doubt(m)

\* Every way to end is one of these.
LEMMA EndMailsOK ==
  ASSUME TypesInv, NEW w \in Workers, Ends(w)
  PROVE  EndMails(w, running[w])
<1> DEFINE m == running[w]
<1>1. EndEffects(w, m)
  BY EndsOK
<1>2. /\ RetryOf(m) \notin queue
      /\ RetryOf(m).order = m.order /\ RetryOf(m).kind = m.kind
      /\ m \notin queue /\ stage[w] \in {"run", "ack"}
  BY <1>1 DEF EndEffects, Unacknowledged, TypesInv, TasksTyped
<1>3. CASE MailSent(w)
  BY <1>3 DEF MailSent, Runs, EndMails
<1>4. ASSUME NEW accepted \in BOOLEAN, MailFails(w, accepted) PROVE EndMails(w, m)
  <2>1. /\ stage[w] = "run"
        /\ \/ mails' = mails /\ doubts' = doubts
           \/ Mailed(m) /\ doubts' = doubts /\ queue' = queue
           \/ Mailed(m) /\ Doubt(m)
        /\ \/ queue' = queue \cup {RetryOf(m)}
           \/ queue' = queue /\ doubts' = doubts
    BY <1>4 DEF MailFails, Runs
  <2> HIDE DEF m
  <2>2. CASE queue' = queue /\ doubts' = doubts
    BY <2>1, <2>2 DEF EndMails
  <2> QED
    BY <1>2, <2>1, <2>2 DEF EndMails
<1>5. CASE InvoiceWritten(w) \/ InvoiceFails(w) \/ Ack(w) \/ ChildDies(w)
  BY <1>5 DEF InvoiceWritten, InvoiceFails, Ack, ChildDies, effects, EndMails
<1>6. CASE WorkerDies(w)
  <2>1. /\ queue' = queue \cup {m} /\ mails' = mails
        /\ \/ stage[w] = "ack" /\ Doubt(m)
           \/ stage[w] # "ack" /\ doubts' = doubts
    BY <1>6 DEF WorkerDies, effects
  <2> QED
    BY <1>2, <2>1 DEF EndMails
<1> QED
  BY <1>3, <1>4, <1>5, <1>6 DEF Ends

\* One more mail, or one more doubt, at the place of m and nowhere else.
LEMMA OneMoreAt ==
  ASSUME TypesInv, NEW m, m.order \in OrderIds, m.kind \in Kinds,
         NEW o \in OrderIds, NEW k \in MailKinds
  PROVE  /\ mails[o][k] \in Nat /\ doubts[o][k] \in Nat /\ published[o][k] \in Nat
         /\ Mailed(m) /\ m.kind \in MailKinds =>
                mails'[o][k] = mails[o][k] + (IF Matches(m, o, k) THEN 1 ELSE 0)
         /\ Doubt(m) =>
                doubts'[o][k] = doubts[o][k] + (IF Matches(m, o, k) THEN 1 ELSE 0)
<1>1. CountersTyped /\ k \in Kinds
  BY TypesSplit DEF Kinds
<1>2. /\ mails[o][k] \in Nat /\ doubts[o][k] \in Nat /\ published[o][k] \in Nat
  BY <1>1 DEF CountersTyped
<1>3. ASSUME mails' = [mails EXCEPT ![m.order][m.kind] = @ + 1], m.kind \in MailKinds
      PROVE  mails'[o][k] = mails[o][k] + (IF Matches(m, o, k) THEN 1 ELSE 0)
  BY <1>1, <1>2, <1>3 DEF CountersTyped, Matches
<1>4. ASSUME doubts' = [doubts EXCEPT ![m.order][m.kind] = @ + 1]
      PROVE  doubts'[o][k] = doubts[o][k] + (IF Matches(m, o, k) THEN 1 ELSE 0)
  BY <1>1, <1>2, <1>4 DEF CountersTyped, Matches
<1> QED
  BY <1>2, <1>3, <1>4 DEF Mailed, Doubt

\* Publishing adds a message that waits and a task that was published.
LEMMA CountPublish ==
  ASSUME TypesInv, CountInv, NEW r \in Requests, Publish(r)
  PROVE  CountInv'
<1> DEFINE t == Head(outbox[r])
           m == [kind |-> t.kind, order |-> t.order, retries |-> 0, copy |-> 0]
<1>1. CountersTyped /\ outbox[r] \in Seq(Task) /\ outbox[r] # <<>>
  BY TypesSplit DEF TypesInv, TasksTyped, Publish
<1>2. t \in Task
  BY <1>1, HeadTailProperties
<1>3. m \in Message /\ t.kind \in Kinds /\ t.order \in OrderIds
  BY <1>2 DEF Message, Task
<1>4. /\ New(m) \notin queue
      /\ New(m).kind = t.kind /\ New(m).order = t.order
  BY <1>3, NewOK DEF Unacknowledged
<1>5. /\ queue' = queue \cup {New(m)}
      /\ published' = [published EXCEPT ![t.order][t.kind] = @ + 1]
      /\ UNCHANGED <<running, stage, mails, doubts>>
  BY DEF Publish, effects
<1> HIDE DEF t, m
<1>6. ASSUME NEW o \in OrderIds, NEW k \in MailKinds
      PROVE  (mails[o][k] + Cardinality(Waiting(o, k)) + Cardinality(Running(o, k))
                  <= published[o][k] + doubts[o][k])'
  <2> DEFINE one == IF Matches(t, o, k) THEN 1 ELSE 0
             W == Cardinality(Waiting(o, k))
             R == Cardinality(Running(o, k))
  <2>1. k \in Kinds
    BY DEF Kinds
  <2>2. W \in Nat /\ R \in Nat
    BY <2>1, Countable
  <2>3. W' = W + one
    BY <1>4, <1>5, <2>1, OneMoreWaits DEF Matches
  <2>4. R' = R
    BY <1>5 DEF Running
  <2>5. /\ mails[o][k] \in Nat /\ doubts[o][k] \in Nat /\ published[o][k] \in Nat
        /\ published'[o][k] = published[o][k] + one
    BY <1>1, <1>3, <1>5, <2>1 DEF CountersTyped, Matches
  <2>6. mails[o][k] + W + R <= published[o][k] + doubts[o][k]
    BY DEF CountInv
  <2>7. one \in Nat
    OBVIOUS
  <2> HIDE DEF one, W, R
  <2>8. mails[o][k] + W' + R' <= published'[o][k] + doubts[o][k]
    BY <2>2, <2>3, <2>4, <2>5, <2>6, <2>7
  <2> QED
    BY <1>5, <2>8 DEF W, R
<1> QED
  BY <1>6 DEF CountInv

\* Taking a message moves it from those that wait to those that run.
LEMMA CountTake ==
  ASSUME TypesInv, CountInv, NEW w \in Workers, NEW m \in queue, Take(w, m)
  PROVE  CountInv'
<1>1. PlacesTyped
  BY TypesSplit
<1>2. /\ queue' = queue \ {m} /\ stage[w] = "idle"
      /\ running' = [running EXCEPT ![w] = m] /\ stage' = [stage EXCEPT ![w] = "run"]
      /\ UNCHANGED <<mails, published, doubts>>
  BY DEF Take, effects
<1>3. ASSUME NEW o \in OrderIds, NEW k \in MailKinds
      PROVE  (mails[o][k] + Cardinality(Waiting(o, k)) + Cardinality(Running(o, k))
                  <= published[o][k] + doubts[o][k])'
  <2> DEFINE W == Waiting(o, k)
             R == Running(o, k)
  <2>1. k \in Kinds
    BY DEF Kinds
  <2>2. /\ IsFiniteSet(W) /\ Cardinality(W) \in Nat
        /\ IsFiniteSet(R) /\ Cardinality(R) \in Nat
    BY <2>1, Countable
  <2>3. CASE Matches(m, o, k)
    <3>1. W' = W \ {m} /\ m \in W
      BY <1>2, <2>3 DEF Waiting, Matches
    <3>2. R' = R \cup {w} /\ w \notin R
      BY <1>1, <1>2, <2>3 DEF Running, Matches, PlacesTyped
    <3> HIDE DEF W, R
    <3>3. Cardinality(W') = Cardinality(W) - 1 /\ Cardinality(R') = Cardinality(R) + 1
      BY <2>2, <3>1, <3>2, FS_RemoveElement, FS_AddElement
    <3>4. Cardinality(W') + Cardinality(R') = Cardinality(W) + Cardinality(R)
      BY <2>2, <3>3
    <3>5. Cardinality(W') \in Nat /\ Cardinality(R') \in Nat
      BY <2>2, <3>1, <3>2, FS_RemoveElement, FS_AddElement, FS_CardinalityType
    <3>6. /\ mails[o][k] \in Nat /\ doubts[o][k] \in Nat /\ published[o][k] \in Nat
      BY <2>1, TypesSplit DEF CountersTyped
    <3>7. mails[o][k] + Cardinality(W) + Cardinality(R) <= published[o][k] + doubts[o][k]
      BY DEF CountInv, W, R
    <3>8. mails[o][k] + Cardinality(W') + Cardinality(R')
              <= published[o][k] + doubts[o][k]
      BY <2>2, <3>4, <3>5, <3>6, <3>7
    <3> QED
      BY <1>2, <3>8 DEF W, R
  <2>4. CASE ~Matches(m, o, k)
    <3>1. W' = W
      BY <1>2, <2>4 DEF Waiting, Matches
    <3>2. R' = R
      BY <1>1, <1>2, <2>4 DEF Running, Matches, PlacesTyped
    <3> QED
      BY <1>2, <3>1, <3>2 DEF CountInv
  <2> QED
    BY <2>3, <2>4
<1> QED
  BY <1>3 DEF CountInv

\* A mail takes the place of the message that ran; what is repeated is doubted,
\* unless it was not mailed.
LEMMA CountEnds ==
  ASSUME TypesInv, CountInv, NEW w \in Workers, Ends(w)
  PROVE  CountInv'
<1>1. PICK m : m = running[w] /\ EndEffects(w, m) /\ EndMails(w, m)
  BY EndsOK, EndMailsOK
<1>2. /\ Releases(w) /\ m.kind \in Kinds /\ m.order \in OrderIds
      /\ published' = published
      /\ mails' = mails \/ m.kind \in MailKinds
  BY <1>1 DEF EndEffects
<1>3. ASSUME NEW o \in OrderIds, NEW k \in MailKinds
      PROVE  (mails[o][k] + Cardinality(Waiting(o, k)) + Cardinality(Running(o, k))
                  <= published[o][k] + doubts[o][k])'
  <2> DEFINE one == IF Matches(m, o, k) THEN 1 ELSE 0
             W == Cardinality(Waiting(o, k))
             R == Cardinality(Running(o, k))
  <2>1. k \in Kinds
    BY DEF Kinds
  <2>2. W \in Nat /\ R \in Nat /\ one \in {0, 1}
    BY <2>1, Countable
  <2>3. R' = R - (IF stage[w] = "run" THEN one ELSE 0)
    BY <1>1, <1>2, <2>1, OneLessRuns
  <2>4. /\ mails[o][k] \in Nat /\ doubts[o][k] \in Nat /\ published[o][k] \in Nat
        /\ Mailed(m) /\ m.kind \in MailKinds => mails'[o][k] = mails[o][k] + one
        /\ Doubt(m) => doubts'[o][k] = doubts[o][k] + one
    BY <1>2, OneMoreAt
  <2>5. mails[o][k] + W + R <= published[o][k] + doubts[o][k]
    BY DEF CountInv
  <2>6. queue' = queue => W' = W
    BY DEF Waiting
  <2>7. \A x : /\ queue' = queue \cup {x} /\ x \notin queue
               /\ x.order = m.order /\ x.kind = m.kind
               => W' = W + one
    BY <2>1, OneMoreWaits DEF Matches
  <2>8. mails' = mails \/ Mailed(m) => mails' = mails
                                       \/ mails'[o][k] = mails[o][k] + one
    BY <1>2, <2>4
  <2> HIDE DEF one, W, R
  <2>9. mails'[o][k] + W' + R' <= published'[o][k] + doubts'[o][k]
    <3>1. CASE /\ queue' = queue
               /\ \/ mails' = mails /\ doubts' = doubts
                  \/ stage[w] = "run" /\ Mailed(m) /\ doubts' = doubts
      BY <1>2, <2>2, <2>3, <2>4, <2>5, <2>6, <2>8, <3>1
    <3>2. CASE /\ stage[w] = "run"
               /\ \E x : queue' = queue \cup {x} /\ x \notin queue
                         /\ x.order = m.order /\ x.kind = m.kind
               /\ \/ mails' = mails /\ doubts' = doubts
                  \/ Mailed(m) /\ Doubt(m)
      BY <1>2, <2>2, <2>3, <2>4, <2>5, <2>7, <2>8, <3>2
    <3>3. CASE /\ queue' = queue \cup {m} /\ m \notin queue
               /\ mails' = mails /\ Doubt(m)
      BY <1>2, <2>2, <2>3, <2>4, <2>5, <2>7, <3>3
    <3> QED
      BY <1>1, <3>1, <3>2, <3>3 DEF EndMails
  <2> QED
    BY <2>9 DEF W, R
<1> QED
  BY <1>3 DEF CountInv

\* Every step keeps the count.
LEMMA CountNext == TypesInv /\ CountInv /\ [FulfilNext]_allVars => CountInv'
<1> SUFFICES ASSUME TypesInv, CountInv, [FulfilNext]_allVars PROVE CountInv'
  OBVIOUS
<1>1. ASSUME UNCHANGED <<queue, running, stage, mails, published, doubts>>
      PROVE  CountInv'
  BY <1>1 DEF CountInv, Waiting, Running
<1>2. ASSUME NEW r \in Requests, Request(r) \/ PublishLost(r) PROVE CountInv'
  <2>1. UNCHANGED <<queue, running, stage, mails, published, doubts>>
    BY <1>2 DEF Request, PublishLost, broker, effects
  <2> QED
    BY <1>1, <2>1
<1>3. CASE UNCHANGED allVars
  <2>1. UNCHANGED <<queue, running, stage, mails, published, doubts>>
    BY <1>3 DEF allVars, taskVars, broker, effects
  <2> QED
    BY <1>1, <2>1
<1>4. CASE TaskStep
  BY <1>2, <1>4, CountPublish, CountTake, CountEnds DEF TaskStep, Work, Ends
<1> QED
  BY <1>2, <1>3, <1>4 DEF FulfilNext

\* No mail is sent out of nothing: task_acks_late and self.retry repeat one only
\* when its answer, or its acknowledgement, was lost.
THEOREM MailsCounted == FulfilSpec => []MailsExplained
<1>1. FulfilInit => CountInv
  <2> SUFFICES ASSUME FulfilInit, NEW o \in OrderIds, NEW k \in MailKinds
               PROVE  mails[o][k] + Cardinality(Waiting(o, k))
                          + Cardinality(Running(o, k)) <= published[o][k] + doubts[o][k]
    BY DEF CountInv
  <2>1. TaskInit
    BY DEF FulfilInit
  <2>2. Waiting(o, k) = {} /\ Running(o, k) = {}
    BY <2>1 DEF TaskInit, Waiting, Running
  <2>3. mails[o][k] = 0 /\ published[o][k] = 0 /\ doubts[o][k] = 0
    BY <2>1 DEF TaskInit, Kinds
  <2> QED
    BY <2>2, <2>3, FS_EmptySet
<1>2. TypesInv /\ CountInv => MailsExplained
  <2> SUFFICES ASSUME TypesInv, CountInv, NEW o \in OrderIds, NEW k \in MailKinds
               PROVE  mails[o][k] <= published[o][k] + doubts[o][k]
    BY DEF MailsExplained
  <2> DEFINE W == Cardinality(Waiting(o, k))
             R == Cardinality(Running(o, k))
  <2>1. k \in Kinds
    BY DEF Kinds
  <2>2. W \in Nat /\ R \in Nat
    BY <2>1, Countable
  <2>3. /\ mails[o][k] \in Nat /\ doubts[o][k] \in Nat /\ published[o][k] \in Nat
    BY <2>1, TypesSplit DEF CountersTyped
  <2>4. mails[o][k] + W + R <= published[o][k] + doubts[o][k]
    BY DEF CountInv
  <2> HIDE DEF W, R
  <2> QED
    BY <2>2, <2>3, <2>4
<1> QED
  BY <1>1, <1>2, CountNext, TypesInvariance, PTL DEF FulfilSpec

===============================================================================
