----------------------------- MODULE FundedWork -----------------------------
(***************************************************************************)
(* The preparation of confirmed-funded attempts of the native receiving     *)
(* backend: deposits are classified (live-feeder.ts), an attempt with       *)
(* exactly one confirmed payment gets a row of receiving_funded_work_v4,     *)
(* workers lease these rows in turn (receiving-funded-worker-v4.ts) and      *)
(* prepare them (receiving-runtime-v4.ts): charge the costs, publish the     *)
(* publication several attempts may share, retain and send the preparation  *)
(* (receiving-jobs-v4.ts), and queue the payload the one-time worker         *)
(* executes (execution-payload-producer.ts; OneTimeExecution goes on there). *)
(*                                                                         *)
(* Workers are processes, each with one tick at a time (tickRunning): a new  *)
(* process is started while the last one may still be in its tick.           *)
(* External: the glue that stores observations and marks attempts, the       *)
(* payers, the chain.  Proofs, signatures, prices and the contents of the    *)
(* validated records are left out; a check of theirs that fails is a Throw.  *)
(***************************************************************************)
EXTENDS Naturals, FiniteSets, FiniteSetsExt

CONSTANTS Attempts, Publications,
          PubOf,            \* the publication of an attempt, or NoPub (self funding)
          Transfers,        \* payments to the virtual addresses; one that a reorganisation
                            \* puts into another block is another member
          AttemptOf,        \* the attempt of a payment
          Exact,            \* the payments of the expected token and amount
          Early, Seen,      \* payments confirmed, or seen with too few confirmations,
                            \* before the workers start
          MaxRevisions,     \* bound on the versions of an execution seed
          Processes,        \* bound on the processes started
          NoPub, None,
          MaxFaults         \* bound on exceptions, crashes, lapses, reorganisations,
                            \* registrations by others and attempts that expire

ASSUME FundedAssumption ==
    /\ PubOf \in [Attempts -> Publications \cup {NoPub}] /\ NoPub \notin Publications
    /\ AttemptOf \in [Transfers -> Attempts] /\ Exact \subseteq Transfers
    /\ Early \subseteq Exact /\ Seen \subseteq Exact
    /\ Processes \in Nat \ {0}
    /\ None \notin Attempts \cup Transfers \cup Nat
    /\ MaxRevisions \in Nat \ {0} /\ MaxFaults \in Nat

Workers == 1..Processes

(* The subjects of receiving_native_jobs_v4; each has one retained transaction. *)
Subjects == ({"publication"} \X Publications) \cup ({"preparation"} \X Attempts)
(* With the registrations other accounts may send. *)
Txs == Subjects \cup ({"foreign"} \X Publications)

VARIABLES
    obs,             \* one_time_funding_observations: the classification of a payment
    expired,         \* attempts past expires_at
    work,            \* receiving_funded_work_v4
    fresh,           \* its rows that were never checked (checked_at IS NULL)
    older,           \* <<a, b>>: row a was checked before row b
    cost,            \* receiving_costs_v4: what an attempt was charged for
    signed,          \* receiving_native_jobs_v4
    revisions,       \* receiving_seed_revisions_v4: how many an attempt has
    payload,         \* relayer_execution_payloads
    place,           \* what the node knows of a transaction (external)
    current,         \* the process that starts ticks
    pc, my,          \* where each worker stands, and its local variables
    faults

deposits == <<obs, expired>>
rows     == <<work, fresh, older>>
vars     == <<deposits, rows, cost, signed, revisions, payload, place, current, pc, my, faults>>

NoRow   == [status |-> "absent", obs |-> None, holder |-> None, live |-> FALSE]
Nothing == [job |-> None, published |-> FALSE, subject |-> None, unsent |-> FALSE,
            seed |-> None, status |-> "pending"]

(* The rows a worker has leased before. *)
Checked == {a \in Attempts : work[a].status # "absent"} \ fresh

TypeOK ==
    /\ obs \in [Transfers -> {"unseen", "pending", "eligible", "review"}]
    /\ expired \subseteq Attempts
    /\ work \in [Attempts -> [status : {"absent", "queued", "leased", "prepared"},
                              obs : Transfers \cup {None}, holder : Workers \cup {None},
                              live : BOOLEAN]]
    /\ \A a \in Attempts :
          /\ work[a].status = "absent" <=> work[a].obs = None
          /\ work[a].status = "leased" <=> work[a].holder \in Workers
          /\ work[a].live => work[a].status = "leased"
    /\ \A a \in fresh : a \in Attempts /\ work[a].status # "absent"
    /\ older \subseteq Attempts \X Attempts
    /\ \A a, b \in Checked : a # b => (<<a, b>> \in older <=> <<b, a>> \notin older)
    /\ cost \in [Attempts -> {"none", "own", "publication"}]
    /\ signed \subseteq Subjects
    /\ revisions \in [Attempts -> 0..MaxRevisions]
    /\ payload \in [Attempts -> 1..MaxRevisions \cup {None}]
    /\ place \in [Txs -> {"none", "pool", "shallow", "deep"}]
    /\ pc \in [Workers -> {"idle", "begin", "charge", "sign", "read", "act",
                           "produce", "insert", "finish"}]
    /\ my \in [Workers -> [job : Attempts \cup {None}, published : BOOLEAN,
                           subject : Subjects \cup {None}, unsent : BOOLEAN,
                           seed : 1..MaxRevisions \cup {None}, status : {"pending", "prepared"}]]
    /\ \A w \in Workers : pc[w] # "idle" => my[w].job \in Attempts
    /\ current \in Workers /\ faults \in 0..MaxFaults

Init ==
    /\ obs = [t \in Transfers |-> CASE t \in Early -> "eligible"
                                    [] t \in Seen \ Early -> "pending"
                                    [] OTHER -> "unseen"]
    /\ expired = {}
    /\ work = [a \in Attempts |-> NoRow] /\ fresh = {} /\ older = {}
    /\ cost = [a \in Attempts |-> "none"]
    /\ signed = {} /\ revisions = [a \in Attempts |-> 0] /\ payload = [a \in Attempts |-> None]
    /\ \E registered \in SUBSET ({"foreign"} \X Publications) :  \* by others, before
          place = [x \in Txs |-> IF x \in registered THEN "shallow" ELSE "none"]
    /\ pc = [w \in Workers |-> "idle"] /\ my = [w \in Workers |-> Nothing]
    /\ current = 1 /\ faults = 0

Fault == faults < MaxFaults /\ faults' = faults + 1

----------------------------------------------------------------------------
(* Deposits *)

Payments(a) == {t \in Transfers : AttemptOf[t] = a /\ obs[t] = "eligible"}

(* classifyPhase3Tip1022FeederObservation.  Review stands for every class no   *)
(* worker takes: dust, late, inexact, reorganised, and unpayable, as the glue  *)
(* that keeps the attempts marks them paid or cancelled when it will.          *)
Classes(t) ==
    IF t \in Exact /\ AttemptOf[t] \notin expired THEN {"pending", "eligible", "review"}
    ELSE {"review"}

Classify(t) ==
    /\ obs[t] = "unseen"
    /\ \E class \in Classes(t) : obs' = [obs EXCEPT ![t] = class]
    /\ UNCHANGED <<expired, rows, cost, signed, revisions, payload, place, current, pc, my, faults>>

(* reevaluatePhase3Tip1022Confirmation.  A payment that waits has its          *)
(* confirmations, or is in review because its block is not the one that was    *)
(* seen; one that is confirmed is sent to review or made to wait again by a    *)
(* reorganisation, which counts with the faults.  Review is not left.          *)
Reevaluate(t) ==
    /\ obs[t] \in {"pending", "eligible"}
    /\ IF obs[t] = "eligible" THEN Fault ELSE UNCHANGED faults
    /\ \E class \in {"pending", "eligible", "review"} \ {obs[t]} : obs' = [obs EXCEPT ![t] = class]
    /\ UNCHANGED <<expired, rows, cost, signed, revisions, payload, place, current, pc, my>>

(* expires_at passes; counted with the faults. *)
Expire(a) ==
    /\ a \notin expired /\ expired' = expired \cup {a} /\ Fault
    /\ UNCHANGED <<obs, rows, cost, signed, revisions, payload, place, current, pc, my>>

(* The query "eligible" of the worker; a payment must be the only one. *)
Fundable(a) == a \notin expired /\ Cardinality(Payments(a)) = 1

(* ... and the row, if there is one, was made for that very payment. *)
Bound(a) == Fundable(a) /\ work[a].obs \in {None} \cup Payments(a)

----------------------------------------------------------------------------
(* The chain, as the worker reads it *)

Included(x) == place[x] \in {"shallow", "deep"}
Registered(p) == p = NoPub \/ Included(<<"publication", p>>) \/ Included(<<"foreign", p>>)
Prepared(a) == Included(<<"preparation", a>>)
Satisfied(s) == IF s[1] = "preparation" THEN Prepared(s[2]) ELSE Registered(s[2])

----------------------------------------------------------------------------
(* The worker *)

Goto(w, where, rec) ==
    /\ pc' = [pc EXCEPT ![w] = where]
    /\ my' = [my EXCEPT ![w] = rec]

Job(w) == my[w].job
AndThen(w, where, subject) ==
    Goto(w, where, [Nothing EXCEPT !.job = Job(w), !.subject = subject])
Done(w, status) == Goto(w, "finish", [Nothing EXCEPT !.job = Job(w), !.status = status])

(* assertLease and assertFunded, which every guard calls together. *)
Leased(w) == work[Job(w)].holder = w /\ work[Job(w)].live
Holds(w) == Leased(w) /\ Fundable(Job(w)) /\ Payments(Job(w)) = {work[Job(w)].obs}

(* The transaction at the start of runOnce: INSERT of the new eligible rows,  *)
(* then a lease on the row that was not checked for the longest time.         *)
Inserted ==
    [a \in Attempts |-> IF Fundable(a) /\ work[a].status = "absent"
                        THEN [NoRow EXCEPT !.status = "queued", !.obs = CHOOSE t \in Payments(a) : TRUE]
                        ELSE work[a]]

Free(a) ==
    /\ Bound(a) /\ work[a].status # "prepared" /\ ~work[a].live

Unchecked == fresh \cup {a \in Attempts : work[a].status = "absent" /\ Inserted[a] # NoRow}

(* The rows of A that none of A was checked before. *)
Oldest(A) == {a \in A : \A b \in A : <<b, a>> \notin older}

(* Fault: ORDER BY checked_at, without NULLS FIRST. *)
TurnNullsLast == LET free == {a \in Attempts : Free(a)}
                     old  == free \ Unchecked
                 IN IF old # {} THEN Oldest(old) ELSE free

Turn == LET free  == {a \in Attempts : Free(a)}
            first == free \cap Unchecked
        IN IF first # {} THEN first ELSE Oldest(free)

Select(w) ==
    /\ pc[w] = "idle" /\ w = current
    /\ \E a \in Turn :
          /\ work' = [Inserted EXCEPT ![a] = [@ EXCEPT !.status = "leased", !.holder = w, !.live = TRUE]]
          /\ fresh' = Unchecked \ {a}
          /\ older' = {e \in older : e[1] # a} \cup {<<b, a>> : b \in Checked \ {a}}
          /\ Goto(w, "begin", [Nothing EXCEPT !.job = a])
    /\ UNCHANGED <<deposits, cost, signed, revisions, payload, place, current, faults>>

(* The guards, then prepare up to its read of the payload and publication(): *)
(* published is what that read says.                                         *)
Begin(w) ==
    /\ pc[w] = "begin" /\ Holds(w)
    /\ IF payload[Job(w)] # None
       THEN Done(w, "prepared")
       ELSE Goto(w, "charge", [my[w] EXCEPT !.published = Registered(PubOf[Job(w)])])
    /\ UNCHANGED <<deposits, rows, cost, signed, revisions, payload, place, current, faults>>

(* Fault: only an owner that is still funded counts. *)
OwnersFunded(a) ==
    {b \in Attempts \ {a} : PubOf[b] = PubOf[a] /\ cost[b] = "publication" /\ Fundable(b)}

(* costs: one transaction under the advisory lock of the publication. *)
Owners(a) == {b \in Attempts \ {a} : PubOf[b] = PubOf[a] /\ cost[b] = "publication"}

(* The second publication() of prepare: is there still something to publish? *)
Publish(w) ==
    LET p == PubOf[Job(w)]
    IN AndThen(w, "sign", IF Registered(p) THEN <<"preparation", Job(w)>> ELSE <<"publication", p>>)

Charge(w) ==
    /\ pc[w] = "charge"
    /\ LET a == Job(w)
       IN \/ /\ cost[a] # "none"
             /\ Publish(w) /\ UNCHANGED cost
          \/ /\ cost[a] = "none" /\ ~my[w].published /\ Owners(a) # {}
             /\ Done(w, "pending") /\ UNCHANGED cost
          \/ /\ cost[a] = "none" /\ (my[w].published \/ Owners(a) = {})
             /\ cost' = [cost EXCEPT ![a] = IF my[w].published THEN "own" ELSE "publication"]
             /\ Publish(w)
    /\ UNCHANGED <<deposits, rows, signed, revisions, payload, place, current, faults>>

(* The step after a subject that needs nothing more. *)
Onward(w) ==
    IF my[w].subject[1] = "publication"
    THEN AndThen(w, "sign", <<"preparation", Job(w)>>)
    ELSE AndThen(w, "produce", None)

(* readRequest and request: a reward of zero is refused, so only the attempt *)
(* that was charged for the publication can send it.                         *)
Rewarded(w) == my[w].subject[1] = "publication" => cost[Job(w)] = "publication"
Admits(w) == Satisfied(my[w].subject) \/ Rewarded(w)

(* jobs.prepare, one transaction under the lock of the nonce lane. *)
Sign(w) ==
    /\ pc[w] = "sign" /\ Holds(w) /\ Admits(w)
    /\ LET s == my[w].subject
       IN IF s \in signed \/ ~Satisfied(s)
          THEN signed' = signed \cup {s} /\ Goto(w, "read", my[w])
          ELSE Onward(w) /\ UNCHANGED signed
    /\ UNCHANGED <<deposits, rows, cost, revisions, payload, place, current, faults>>

(* jobs.resume up to its first readRequest ... *)
Read(w) ==
    /\ pc[w] = "read" /\ Holds(w) /\ Admits(w)
    /\ Goto(w, "act", [my[w] EXCEPT !.unsent = ~Satisfied(my[w].subject)])
    /\ UNCHANGED <<deposits, rows, cost, signed, revisions, payload, place, current, faults>>

(* ... and from the receipt on.  The answer of a broadcast may be lost, and  *)
(* that exception ends the activation (Throw).                               *)
Act(w) ==
    /\ pc[w] = "act"
    /\ LET s == my[w].subject
       IN \/ /\ place[s] = "deep" /\ Holds(w)
             /\ Onward(w) /\ UNCHANGED place
          \/ /\ (place[s] = "shallow" /\ Holds(w)) \/ (place[s] = "pool" /\ my[w].unsent)
             /\ Done(w, "pending") /\ UNCHANGED place
          \/ /\ ~Included(s) /\ ~my[w].unsent
             /\ Onward(w) /\ UNCHANGED place
          \/ /\ place[s] = "none" /\ my[w].unsent /\ Holds(w) /\ Admits(w)
             /\ IF Satisfied(s) THEN Onward(w) /\ UNCHANGED place
                ELSE place' = [place EXCEPT ![s] = "pool"] /\ Done(w, "pending")
    /\ UNCHANGED <<deposits, rows, cost, signed, revisions, payload, current, faults>>

(* refreshed and the full validation, which asks for the publication and the *)
(* preparation on chain, the guards, and producePrivateExecutionPayload up   *)
(* to its read of the payload.  The seed is a retained revision whose proof  *)
(* still holds, or a new one.                                                *)
Validated(a) == Registered(PubOf[a]) /\ Prepared(a)
Seeds(a) == 1..Min({revisions[a] + 1, MaxRevisions})

Produce(w) ==
    /\ pc[w] = "produce" /\ Holds(w) /\ Validated(Job(w))
    /\ LET a == Job(w)
       IN \E r \in Seeds(a) :
             /\ revisions' = [revisions EXCEPT ![a] = Max({@, r})]
             /\ \/ payload[a] = None /\ Goto(w, "insert", [my[w] EXCEPT !.seed = r])
                \/ payload[a] = r /\ Done(w, "prepared")  \* the same hash; another is a Throw
    /\ UNCHANGED <<deposits, rows, cost, signed, payload, place, current, faults>>

(* Fault: the INSERT became an upsert. *)
InsertAgain(w) ==
    /\ pc[w] = "insert"
    /\ payload' = [payload EXCEPT ![Job(w)] = my[w].seed]
    /\ Done(w, "prepared")
    /\ UNCHANGED <<deposits, rows, cost, signed, revisions, place, current, faults>>

(* INSERT ... ON CONFLICT (attempt_id) DO NOTHING. *)
Insert(w) ==
    /\ pc[w] = "insert"
    /\ payload' = [payload EXCEPT ![Job(w)] = IF @ = None THEN my[w].seed ELSE @]
    /\ Done(w, "prepared")
    /\ UNCHANGED <<deposits, rows, cost, signed, revisions, place, current, faults>>

(* The guards after prepare, and the last UPDATE. *)
Returned(a, status) == [work EXCEPT ![a] = [@ EXCEPT !.status = status, !.holder = None, !.live = FALSE]]

Finish(w) ==
    /\ pc[w] = "finish" /\ Holds(w)
    /\ my[w].status = "prepared" => payload[Job(w)] # None
    /\ work' = Returned(Job(w), IF my[w].status = "prepared" THEN "prepared" ELSE "queued")
    /\ Goto(w, "idle", Nothing)
    /\ UNCHANGED <<deposits, fresh, older, cost, signed, revisions, payload, place, current, faults>>

(* The checks of a place; when one fails the step throws. *)
Passes(w) ==
    CASE pc[w] = "begin"   -> Holds(w)
      [] pc[w] \in {"sign", "read"} -> Holds(w) /\ Admits(w)
      [] pc[w] = "act"     -> LET s == my[w].subject
                              IN /\ Included(s) => Holds(w)
                                 /\ place[s] = "none" /\ my[w].unsent => Holds(w) /\ Admits(w)
      [] pc[w] = "produce" -> /\ Holds(w) /\ Validated(Job(w))
                              /\ payload[Job(w)] = None
      [] pc[w] = "finish"  -> Holds(w)
      [] OTHER             -> TRUE

(* Fault: the catch does not compare the token. *)
CatchUnfenced(w) ==
    /\ work' = IF work[Job(w)].status = "leased" THEN Returned(Job(w), "queued") ELSE work
    /\ Goto(w, "idle", Nothing)
    /\ UNCHANGED <<deposits, fresh, older, cost, signed, revisions, payload, current>>

(* The catch of runOnce: the row is queued again if it still has the token,  *)
(* even when the lease has ended.                                            *)
Catch(w) ==
    /\ work' = IF work[Job(w)].holder = w THEN Returned(Job(w), "queued") ELSE work
    /\ Goto(w, "idle", Nothing)
    /\ UNCHANGED <<deposits, fresh, older, cost, signed, revisions, payload, current>>

Refuse(w) == pc[w] # "idle" /\ ~Passes(w) /\ Catch(w) /\ UNCHANGED <<place, faults>>

(* An exception of the database or the node; one after a broadcast leaves    *)
(* the transaction with the node.                                            *)
Throw(w) ==
    /\ pc[w] # "idle" /\ Fault /\ Catch(w)
    /\ \/ UNCHANGED place
       \/ /\ pc[w] = "act" /\ my[w].unsent /\ place[my[w].subject] = "none" /\ Passes(w)
          /\ place' = [place EXCEPT ![my[w].subject] = "pool"]

(* The process dies; its row stays leased until the lease ends. *)
Crash(w) ==
    /\ pc[w] # "idle" /\ Fault /\ Goto(w, "idle", Nothing)
    /\ UNCHANGED <<deposits, rows, cost, signed, revisions, payload, place, current>>

(* A restart that overlaps the old process, which only ends its tick.  One   *)
(* between two ticks changes nothing but the name of the process.            *)
Deploy ==
    /\ current < Processes /\ pc[current] # "idle" /\ current' = current + 1
    /\ UNCHANGED <<deposits, rows, cost, signed, revisions, payload, place, pc, my, faults>>

Orphaned(a) == work[a].live /\ my[work[a].holder].job # a

(* A lease ends: nobody renews it, or its timer is late. *)
Lapse(a) ==
    /\ work[a].live
    /\ IF Orphaned(a) THEN UNCHANGED faults ELSE Fault
    /\ work' = [work EXCEPT ![a] = [@ EXCEPT !.live = FALSE]]
    /\ UNCHANGED <<deposits, fresh, older, cost, signed, revisions, payload, place, current, pc, my>>

----------------------------------------------------------------------------
(* The chain *)

MoveTx(x, where) ==
    /\ place' = [place EXCEPT ![x] = where]
    /\ UNCHANGED <<deposits, rows, cost, signed, revisions, payload, current, pc, my>>

(* Another account registers a publication; counted with the faults. *)
RegisterElsewhere(p) == ~Registered(p) /\ Fault /\ MoveTx(<<"foreign", p>>, "shallow")

Mine(x) ==
    /\ place[x] = "pool" /\ ~Satisfied(x)
    /\ MoveTx(x, "shallow") /\ UNCHANGED faults

Deepen(x) == place[x] = "shallow" /\ MoveTx(x, "deep") /\ UNCHANGED faults

(* A block is replaced, a transaction is forgotten by the node. *)
Reorganise(x) ==
    /\ place[x] = "shallow" /\ Fault
    /\ \E where \in {"none"} \cup (IF x \in Subjects THEN {"pool"} ELSE {}) : MoveTx(x, where)
Drop(x) == place[x] = "pool" /\ Fault /\ MoveTx(x, "none")

----------------------------------------------------------------------------
WorkerStep(w) ==
    \/ Select(w) \/ Begin(w) \/ Charge(w) \/ Sign(w) \/ Read(w) \/ Act(w)
    \/ Produce(w) \/ Insert(w) \/ Finish(w) \/ Refuse(w)

Next ==
    \/ Deploy
    \/ \E w \in Workers : WorkerStep(w) \/ Throw(w) \/ Crash(w)
    \/ \E t \in Transfers : Classify(t) \/ Reevaluate(t)
    \/ \E a \in Attempts : Expire(a) \/ Lapse(a)
    \/ \E p \in Publications : RegisterElsewhere(p)
    \/ \E x \in Subjects : Mine(x) \/ Deepen(x) \/ Drop(x)
    \/ \E x \in Txs : Reorganise(x)

Spec == Init /\ [][Next]_vars

(* Ticks go on and end, an orphaned lease ends, and the chain includes what  *)
(* the node keeps.                                                           *)
Fairness ==
    /\ \A w \in Workers : WF_vars(WorkerStep(w))
    /\ WF_vars(\E a \in Attempts : Orphaned(a) /\ Lapse(a))
    /\ WF_vars(\E x \in Subjects : Mine(x) \/ Deepen(x))

FairSpec == Spec /\ Fairness
----------------------------------------------------------------------------
(* Of the attempts that share a publication at most one pays for it, and it  *)
(* is published from a charge: the budget of a signed registration is in the *)
(* fee of a payment (costs, request).                                        *)
PublicationPaidOnce ==
    \A p \in Publications :
       LET payers == {a \in Attempts : PubOf[a] = p /\ cost[a] = "publication"}
       IN /\ Cardinality(payers) <= 1
          /\ <<"publication", p>> \in signed => payers # {}

(* A live lease ends by a step of its holder or because it lapses: a stale   *)
(* worker, whose lease another has taken over, takes nothing away (the token *)
(* in every UPDATE of runOnce).                                              *)
LeaseEndsByHolder ==
    [][\A a \in Attempts :
          work[a].live /\ work'[a] # work[a] =>
             \/ work'[a] = [work[a] EXCEPT !.live = FALSE]
             \/ my[work[a].holder].job = a /\ pc'[work[a].holder] = "idle"]_vars

(* Once queued, the payload of an attempt is never replaced, and a row that  *)
(* is prepared stays so: the executor may have taken it already, although a  *)
(* worker that lost its lease may still be about to insert another revision. *)
PayloadNeverChanges ==
    [][\A a \in Attempts :
          /\ payload[a] # None => payload'[a] = payload[a]
          /\ work[a].status = "prepared" => payload[a] # None /\ work'[a] = work[a]]_vars

(* Nobody can publish for a any more: it was charged its own costs while a   *)
(* registration stood that is gone now, or the attempt charged for the       *)
(* publication has expired, was paid twice or by another payment than its    *)
(* row is for, or is done.                                                   *)
Stranded(a) ==
    /\ ~Registered(PubOf[a])
    /\ place[<<"publication", PubOf[a]>>] = "none"
    /\ cost[a] # "publication"
    /\ \/ cost[a] = "own"
       \/ \E b \in Owners(a) : ~Bound(b) \/ work[b].status = "prepared"

(* A payment is served: no attempt with exactly one confirmed payment, whose *)
(* row is not for another one, waits for ever to be prepared, in turn with   *)
(* the others and through lapses, lost answers, dropped and reorganised      *)
(* transactions and processes that overlap, unless it is stranded as above.  *)
(* A row keeps the observation and the block it was inserted with (ON        *)
(* CONFLICT DO NOTHING): if that payment is demoted and another confirmed,   *)
(* no query finds the row again.                                             *)
Waiting(a) == Bound(a) /\ work[a].status # "prepared" /\ ~Stranded(a)

FundedIsPrepared == []<>(\A a \in Attempts : ~Waiting(a))
=============================================================================
