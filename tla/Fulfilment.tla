------------------------------- MODULE Fulfilment -------------------------------
(***************************************************************************)
(* The shop and its task queue: what process_payment commits, and the      *)
(* mails and invoices that follow.                                         *)
(***************************************************************************)
EXTENDS ShopProperties, TaskQueue

allVars == <<vars, taskVars>>

FulfilInit == Init /\ TaskInit

-------------------------------------------------------------------------------
To(o, kinds) == [i \in DOMAIN kinds |-> [kind |-> kinds[i], order |-> o]]

\* Mutant of Announced: also by a payment whose INSERT conflicts.
AnnouncedAlways(r) ==
    LET o == ses[r].order
    IN  CASE pc[r] = "pay_approved" -> To(o, <<"confirmation", "invoice">>)
          [] pc[r] = "pay_declined" -> To(o, <<"payment_failed">>)
          [] OTHER                  -> <<>>

\* The tasks that the next statement of r is followed by: those of a payment
\* that commits.
Announced(r) ==
    LET o == ses[r].order
    IN  CASE pc[r] = "pay_approved" /\ ~Duplicate(ses[r]) ->
                To(o, <<"confirmation", "invoice">>)
          [] pc[r] = "pay_declined" /\ ~Duplicate(ses[r]) ->
                To(o, <<"payment_failed">>)
          [] OTHER -> <<>>

\* A request is busy until it has published its tasks.
Request(r) ==
    /\ outbox[r] = <<>>
    /\ \/ Start(r) /\ UNCHANGED outbox
       \/ Continue(r) /\ outbox' = [outbox EXCEPT ![r] = Announced(r)]
       \/ Crash(r) /\ UNCHANGED outbox
    /\ UNCHANGED <<broker, effects, published, doubts, failed>>

FulfilNext ==
    \/ \E r \in Requests : Request(r)
    \/ TaskStep /\ UNCHANGED vars

FulfilSpec == FulfilInit /\ [][FulfilNext]_allVars

\* The event loop resumes a request, and a worker that is up works.  Workers
\* are restarted, and do not crash forever (MaxDeaths).
FairFulfilSpec ==
    /\ FulfilSpec
    /\ \A r \in Requests : WF_allVars(Publish(r) /\ UNCHANGED vars)
    /\ \A w \in Workers : WF_allVars(Work(w) /\ UNCHANGED vars)

-------------------------------------------------------------------------------
\* Tasks, messages and workers keep their types; a worker holds a message
\* exactly while it is busy, and no message is in two places.
TasksTyped ==
    /\ outbox    \in [Requests -> Seq(Task)]
    /\ queue     \subseteq Message
    /\ running   \in [Workers -> Message \cup {None}]
    /\ stage     \in [Workers -> {"idle", "run", "ack"}]
    /\ mails     \in [OrderIds -> [MailKinds -> Nat]]
    /\ invoiced  \subseteq OrderIds
    /\ published \in [OrderIds -> [Kinds -> Nat]]
    /\ doubts    \in [OrderIds -> [Kinds -> Nat]]
    /\ failed    \subseteq Task
    /\ deaths    \in 0..MaxDeaths
    /\ \A w \in Workers :
          /\ (running[w] = None) = (stage[w] = "idle")
          /\ running[w] \notin queue
          /\ \A v \in Workers :
                running[w] # None /\ running[v] = running[w] => v = w

\* A customer is told only what was committed: a confirmation or an invoice is
\* of an order that was confirmed, a failure mail of one whose payment failed.
NoticeIsTrue ==
    \A o \in OrderIds :
        /\ mails[o]["confirmation"] > 0 \/ o \in invoiced =>
              "ORDER_CONFIRMED" \in visited[o]
        /\ mails[o]["payment_failed"] > 0 => "PAYMENT_FAILED" \in visited[o]

\* A mail is repeated only for lack of an answer of the SMTP server, or of an
\* acknowledgement: at-least-once delivery, and no more than that.
MailsExplained ==
    \A o \in OrderIds, k \in MailKinds :
        mails[o][k] <= published[o][k] + doubts[o][k]

\* A task does not circulate forever: it is done, or given up.
InCirculation(o, k) ==
    \/ \E m \in queue : m.order = o /\ m.kind = k
    \/ \E w \in Workers : stage[w] # "idle" /\ running[w].order = o
                                            /\ running[w].kind = k

TasksEnd ==
    \A o \in OrderIds, k \in Kinds : InCirculation(o, k) ~> ~InCirculation(o, k)

\* With EMAIL_ENABLED, a paid order's customer gets the confirmation and the
\* invoice, unless one of the faults that the code does not recover from hits
\* that very task: a crash between commit and publication, a lost pool process,
\* an error while the invoice is written, the last retry of the mail.
Settled(o, k) ==
    \/ [kind |-> k, order |-> o] \in failed
    \/ IF k = "invoice" THEN o \in invoiced ELSE mails[o][k] > 0

PaidIsAnnounced ==
    \A o \in OrderIds :
        EMAIL_ENABLED /\ payment[o].status = "SUCCESS" ~>
            Settled(o, "confirmation") /\ Settled(o, "invoice")

===============================================================================
