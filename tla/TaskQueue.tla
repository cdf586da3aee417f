-------------------------------- MODULE TaskQueue --------------------------------
(***************************************************************************)
(* app/celery_app.py and the tasks process_payment enqueues: the mails of  *)
(* app/tasks/email_tasks.py and the invoice of app/tasks/invoice_tasks.py. *)
(* A request publishes its tasks (.delay) after the commit, a worker takes *)
(* a message, runs the task and acknowledges it afterwards                 *)
(* (task_acks_late).  Messages are taken in any order: a retry waits for   *)
(* its countdown, a redelivery for the broker's visibility timeout.        *)
(***************************************************************************)
EXTENDS Database, Sequences, FiniteSets

CONSTANTS
    Workers,        \* Celery workers
    MAIL_RETRIES,   \* max_retries of the mail tasks
    EMAIL_ENABLED,
    MaxDeaths       \* bound: crashes of workers and of their pool processes

ASSUME TasksAssumption ==
    /\ MAIL_RETRIES \in Nat
    /\ EMAIL_ENABLED \in BOOLEAN
    /\ MaxDeaths \in Nat
    /\ IsFiniteSet(Workers)

VARIABLES
    outbox,         \* the tasks each request has still to publish
    queue,          \* messages in the broker
    running, stage, \* the message each worker holds, and how far it is
    mails,          \* mails the SMTP server accepted, by order and kind
    invoiced,       \* orders with an invoice file
    published,      \* history: tasks published, by order and kind
    doubts,         \* history: mails repeated for lack of an answer or an ack
    failed,         \* history: tasks given up, by order and kind
    deaths          \* how many there were

broker   == <<queue, running, stage, deaths>>
effects  == <<mails, invoiced>>
taskVars == <<outbox, broker, effects, published, doubts, failed>>

MailKinds == {"confirmation", "payment_failed"}
Kinds     == MailKinds \cup {"invoice"}

Task == [kind : Kinds, order : OrderIds]

\* A task on its way, retried so often.  The broker keeps two messages of the
\* same content apart, as copy does here.
Message == [kind : Kinds, order : OrderIds, retries : Nat, copy : Nat]

ASSUME MessageAssumption == None \notin Message

Unacknowledged == queue \cup ({running[w] : w \in Workers} \ {None})

\* m as a message of its own.
New(m) ==
    LET copyOf(i) == [m EXCEPT !.copy = i]
    IN  copyOf(CHOOSE i \in 0..Cardinality(Unacknowledged) :
                   copyOf(i) \notin Unacknowledged)

TaskInit ==
    /\ outbox    = [r \in Requests |-> <<>>]
    /\ queue     = {}
    /\ running   = [w \in Workers |-> None]
    /\ stage     = [w \in Workers |-> "idle"]
    /\ mails     = [o \in OrderIds |-> [k \in MailKinds |-> 0]]
    /\ invoiced  = {}
    /\ published = [o \in OrderIds |-> [k \in Kinds |-> 0]]
    /\ doubts    = [o \in OrderIds |-> [k \in Kinds |-> 0]]
    /\ failed    = {}
    /\ deaths    = 0

-------------------------------------------------------------------------------
(***************************************************************************)
(* The request: one .delay after the other.                                *)
(***************************************************************************)
Publish(r) ==
    LET t == Head(outbox[r])
    IN  /\ outbox[r] # <<>>
        /\ queue' = queue \cup
               {New([kind |-> t.kind, order |-> t.order, retries |-> 0, copy |-> 0])}
        /\ published' = [published EXCEPT ![t.order][t.kind] = @ + 1]
        /\ outbox' = [outbox EXCEPT ![r] = Tail(@)]
        /\ UNCHANGED <<running, stage, deaths, effects, doubts, failed>>

\* The API process dies, or the broker is down: the commit stands, the tasks
\* that were to follow are never published.
PublishLost(r) ==
    /\ outbox[r] # <<>>
    /\ failed' = failed \cup {outbox[r][i] : i \in DOMAIN outbox[r]}
    /\ outbox' = [outbox EXCEPT ![r] = <<>>]
    /\ UNCHANGED <<broker, effects, published, doubts>>

-------------------------------------------------------------------------------
(***************************************************************************)
(* A worker.                                                               *)
(***************************************************************************)
\* Mutant of Take: the broker keeps the message.
TakeCopy(w, m) ==
    /\ stage[w] = "idle"
    /\ m \in queue
    /\ running' = [running EXCEPT ![w] = m]
    /\ stage'   = [stage EXCEPT ![w] = "run"]
    /\ UNCHANGED <<outbox, queue, deaths, effects, published, doubts, failed>>

Take(w, m) ==
    /\ stage[w] = "idle"
    /\ m \in queue
    /\ queue'   = queue \ {m}
    /\ running' = [running EXCEPT ![w] = m]
    /\ stage'   = [stage EXCEPT ![w] = "run"]
    /\ UNCHANGED <<outbox, deaths, effects, published, doubts, failed>>

Runs(w, kinds) == stage[w] = "run" /\ running[w].kind \in kinds

\* The task has returned, or raised: what is left is to acknowledge.
Returned(w) == stage' = [stage EXCEPT ![w] = "ack"] /\ UNCHANGED <<running, deaths>>

GiveUp(m) == failed' = failed \cup {[kind |-> m.kind, order |-> m.order]}

Mailed(m) == mails' = [mails EXCEPT ![m.order][m.kind] = @ + 1]

Doubt(m) == doubts' = [doubts EXCEPT ![m.order][m.kind] = @ + 1]

\* Mutant of MailSent: retried although the server answered.
MailSentTwice(w) ==
    LET m == running[w]
    IN  /\ Runs(w, MailKinds)
        /\ Mailed(m)
        /\ queue' = IF m.retries < MAIL_RETRIES
                    THEN queue \cup {[m EXCEPT !.retries = @ + 1]} ELSE queue
        /\ Returned(w)
        /\ UNCHANGED <<outbox, invoiced, published, doubts, failed>>

\* Simulated, that is logged, unless EMAIL_ENABLED.
MailSent(w) ==
    /\ Runs(w, MailKinds)
    /\ IF EMAIL_ENABLED THEN Mailed(running[w]) ELSE UNCHANGED mails
    /\ Returned(w)
    /\ UNCHANGED <<outbox, queue, invoiced, published, doubts, failed>>

\* Mutant of RetryOf: the attempts are not counted.
RetryForever(m) == m

RetryOf(m) == New([m EXCEPT !.retries = @ + 1])

\* An SMTP error or timeout, possibly after the server accepted the mail:
\* self.retry publishes the task again, max_retries times, then raises.
MailFails(w, accepted) ==
    LET m == running[w]
    IN  /\ EMAIL_ENABLED
        /\ Runs(w, MailKinds)
        /\ IF accepted THEN Mailed(m) ELSE UNCHANGED mails
        /\ \/ /\ m.retries < MAIL_RETRIES
              /\ queue' = queue \cup {RetryOf(m)}
              /\ IF accepted THEN Doubt(m) ELSE UNCHANGED doubts
              /\ UNCHANGED failed
           \/ /\ m.retries >= MAIL_RETRIES
              /\ GiveUp(m)
              /\ UNCHANGED <<queue, doubts>>
        /\ Returned(w)
        /\ UNCHANGED <<outbox, invoiced, published>>

\* The file is written over: a second run leaves the same invoice.
InvoiceWritten(w) ==
    LET o == running[w].order
    IN  /\ Runs(w, {"invoice"})
        /\ invoiced' = invoiced \cup ({o} \cap Placed)
        /\ Returned(w)
        /\ UNCHANGED <<outbox, queue, mails, published, doubts, failed>>

\* The task declares max_retries and never calls retry.
InvoiceFails(w) ==
    /\ Runs(w, {"invoice"})
    /\ GiveUp(running[w])
    /\ Returned(w)
    /\ UNCHANGED <<outbox, queue, effects, published, doubts>>

Drop(w) ==
    /\ running' = [running EXCEPT ![w] = None]
    /\ stage'   = [stage EXCEPT ![w] = "idle"]

Ack(w) ==
    /\ stage[w] = "ack"
    /\ Drop(w)
    /\ UNCHANGED <<outbox, queue, deaths, effects, published, doubts, failed>>

\* Mutant of WorkerDies: the message was acknowledged when it was taken.
WorkerDiesAcked(w) ==
    /\ stage[w] # "idle"
    /\ deaths < MaxDeaths
    /\ deaths' = deaths + 1
    /\ Drop(w)
    /\ UNCHANGED <<outbox, queue, effects, published, doubts, failed>>

\* The worker dies before it acknowledged: the broker delivers the message again.
WorkerDies(w) ==
    LET m == running[w]
    IN  /\ stage[w] # "idle"
        /\ deaths < MaxDeaths
        /\ deaths' = deaths + 1
        /\ queue' = queue \cup {m}
        /\ IF stage[w] = "ack" THEN Doubt(m) ELSE UNCHANGED doubts
        /\ Drop(w)
        /\ UNCHANGED <<outbox, effects, published, failed>>

\* The pool process that runs the task is killed, or exceeds task_time_limit:
\* its worker acknowledges (task_reject_on_worker_lost is not set).
ChildDies(w) ==
    /\ stage[w] = "run"
    /\ deaths < MaxDeaths
    /\ deaths' = deaths + 1
    /\ GiveUp(running[w])
    /\ Drop(w)
    /\ UNCHANGED <<outbox, queue, effects, published, doubts>>

\* The worker goes on with what it has, or takes a message.
Work(w) ==
    \/ \E m \in queue : Take(w, m)
    \/ MailSent(w) \/ \E accepted \in BOOLEAN : MailFails(w, accepted)
    \/ InvoiceWritten(w) \/ InvoiceFails(w)
    \/ Ack(w)

TaskStep ==
    \/ \E r \in Requests : Publish(r) \/ PublishLost(r)
    \/ \E w \in Workers : Work(w) \/ WorkerDies(w) \/ ChildDies(w)

===============================================================================
