--------------------------- MODULE FundedWorkProofs ---------------------------
(***************************************************************************)
(* Theorems about the preparation of funded attempts, for any attempts,      *)
(* publications, payments and processes: a publication is paid once, leases *)
(* end by their holder, payloads are final.  And what DepositPairing        *)
(* guarantees of the deposits that fund them, for every transaction.        *)
(***************************************************************************)
EXTENDS FundedDeposits, FiniteSetTheorems, WellFoundedInduction, TLAPS

----------------------------------------------------------------------------
(* The inductive invariant *)

Places == {"idle", "begin", "charge", "sign", "read", "act", "produce", "insert", "finish"}
Locals == [job : Attempts \cup {None}, published : BOOLEAN, subject : Subjects \cup {None},
           unsent : BOOLEAN, seed : 1..MaxRevisions \cup {None}, status : {"pending", "prepared"}]
Rows == [status : {"absent", "queued", "leased", "prepared"}, obs : Transfers \cup {None},
         holder : Workers \cup {None}, live : BOOLEAN]

(* The locals m of a worker at place p: a subject is the preparation of the  *)
(* worker's own attempt, or the publication that attempt shares.             *)
At(p, m) ==
    /\ p \in Places /\ m \in Locals
    /\ p # "idle" => m.job \in Attempts
    /\ p \in {"sign", "read", "act"} =>
          /\ m.subject \in Subjects
          /\ m.subject \in {<<"preparation", m.job>>, <<"publication", PubOf[m.job]>>}

WorkersAt ==
    /\ pc \in [Workers -> Places] /\ my \in [Workers -> Locals]
    /\ \A w \in Workers : At(pc[w], my[w])

RowFits(row) ==
    /\ row \in Rows
    /\ row.status = "absent" <=> row.obs = None
    /\ row.status = "leased" <=> row.holder \in Workers
    /\ row.live => row.status = "leased"

RowsOK ==
    /\ work \in [Attempts -> Rows] /\ \A a \in Attempts : RowFits(work[a])
    /\ \A a \in fresh : a \in Attempts /\ work[a].status # "absent"
    /\ older \subseteq Attempts \X Attempts
    /\ \A a, b \in Checked : a # b => (<<a, b>> \in older <=> <<b, a>> \notin older)

RestOK ==
    /\ obs \in [Transfers -> {"unseen", "pending", "eligible", "review"}]
    /\ expired \subseteq Attempts
    /\ cost \in [Attempts -> {"none", "own", "publication"}]
    /\ signed \subseteq Subjects
    /\ revisions \in [Attempts -> 0..MaxRevisions]
    /\ payload \in [Attempts -> 1..MaxRevisions \cup {None}]
    /\ place \in [Txs -> {"none", "pool", "shallow", "deep"}]
    /\ current \in Workers /\ faults \in 0..MaxFaults

Payers(p) == {a \in Attempts : PubOf[a] = p /\ cost[a] = "publication"}

PaidOnce ==
    \A p \in Publications :
        /\ \A a, b \in Payers(p) : a = b
        /\ <<"publication", p>> \in signed => Payers(p) # {}

PreparedIsQueued == \A a \in Attempts : work[a].status = "prepared" => payload[a] # None

IInv == WorkersAt /\ RowsOK /\ RestOK /\ PaidOnce /\ PreparedIsQueued

----------------------------------------------------------------------------
(* The workers *)

LEMMA MinAndMax ==
    ASSUME NEW x \in Nat, NEW y \in Nat
    PROVE  /\ Min({x, y}) \in {x, y} /\ Min({x, y}) <= x /\ Min({x, y}) <= y
           /\ Max({x, y}) \in {x, y}
<1>1. \E m \in {x, y} : \A n \in {x, y} : m <= n
  OBVIOUS
<1>2. \E m \in {x, y} : \A n \in {x, y} : m >= n
  OBVIOUS
<1> QED BY <1>1, <1>2 DEF Min, Max

(* The revisions an attempt may have are within the bound. *)
LEMMA SeedsAre ==
    ASSUME RestOK, NEW a \in Attempts, NEW r \in Seeds(a)
    PROVE  r \in 1..MaxRevisions /\ Max({revisions[a], r}) \in 0..MaxRevisions
<1>1. revisions[a] \in 0..MaxRevisions /\ MaxRevisions \in Nat
  BY FundedAssumption DEF RestOK
<1>2. r \in 1..MaxRevisions
  BY <1>1, MinAndMax DEF Seeds
<1> QED BY <1>1, <1>2, MinAndMax

LEMMA NothingIs ==
    /\ Nothing \in Locals /\ At("idle", Nothing)
    /\ \A a \in Attempts : /\ [Nothing EXCEPT !.job = a] \in Locals
                           /\ [Nothing EXCEPT !.job = a].job = a
<1>1. Nothing \in Locals
  BY DEF Nothing, Locals
<1>2. ASSUME NEW a \in Attempts
      PROVE  [Nothing EXCEPT !.job = a] \in Locals /\ [Nothing EXCEPT !.job = a].job = a
  BY <1>1 DEF Locals
<1> QED BY <1>1, <1>2 DEF At, Places

Moves(w) == \E p, m : Goto(w, p, m) /\ At(p, m)

LEMMA MoveKeepsAt ==
    ASSUME WorkersAt, NEW w \in Workers, Moves(w)
    PROVE  WorkersAt'
<1>1. PICK p, m : Goto(w, p, m) /\ At(p, m)
  BY DEF Moves
<1>2. p \in Places /\ m \in Locals
  BY <1>1 DEF At
<1>3. pc' = [pc EXCEPT ![w] = p] /\ my' = [my EXCEPT ![w] = m]
  BY <1>1 DEF Goto
<1>4. pc' \in [Workers -> Places] /\ my' \in [Workers -> Locals]
  BY <1>2, <1>3 DEF WorkersAt
<1>5. pc'[w] = p /\ my'[w] = m /\ \A v \in Workers : v # w => pc'[v] = pc[v] /\ my'[v] = my[v]
  BY <1>3 DEF WorkersAt
<1>6. \A v \in Workers : At(pc'[v], my'[v])
  BY <1>1, <1>5 DEF WorkersAt
<1> QED BY <1>4, <1>6 DEF WorkersAt

(* The ends of the steps. *)
LEMMA Ends ==
    ASSUME WorkersAt, NEW w \in Workers
    PROVE  /\ Goto(w, "idle", Nothing) => Moves(w)
           /\ \A status \in {"pending", "prepared"} :
                 pc[w] # "idle" /\ Done(w, status) => Moves(w)
           /\ pc[w] # "idle" /\ AndThen(w, "produce", None) => Moves(w)
           /\ pc[w] # "idle" /\ AndThen(w, "sign", <<"preparation", Job(w)>>) => Moves(w)
<1>1. Goto(w, "idle", Nothing) => Moves(w)
  BY NothingIs DEF Moves
<1>2. ASSUME pc[w] # "idle" PROVE Job(w) \in Attempts
  BY <1>2 DEF WorkersAt, At, Job
<1>3. ASSUME pc[w] # "idle", NEW status \in {"pending", "prepared"}, Done(w, status) PROVE Moves(w)
  <2> DEFINE n == [Nothing EXCEPT !.job = Job(w)]
             m == [Nothing EXCEPT !.job = Job(w), !.status = status]
  <2>1. n \in Locals /\ n.job = Job(w) /\ m = [n EXCEPT !.status = status]
    BY <1>2, <1>3, NothingIs
  <2>2. m \in Locals /\ m.job = Job(w)
    <3> HIDE DEF n
    <3> QED BY <2>1 DEF Locals
  <2>3. Goto(w, "finish", m)
    BY <1>3 DEF Done
  <2> HIDE DEF m
  <2>4. At("finish", m)
    BY <1>2, <1>3, <2>2 DEF At, Places
  <2> QED BY <2>3, <2>4 DEF Moves
<1>4. ASSUME pc[w] # "idle", NEW subject \in Subjects \cup {None}, NEW p \in Places,
             AndThen(w, p, subject),
             p \notin {"sign", "read", "act"} \/ subject = <<"preparation", Job(w)>>
      PROVE  Moves(w)
  <2> DEFINE n == [Nothing EXCEPT !.job = Job(w)]
             m == [Nothing EXCEPT !.job = Job(w), !.subject = subject]
  <2>1. n \in Locals /\ n.job = Job(w) /\ m = [n EXCEPT !.subject = subject]
    BY <1>2, <1>4, NothingIs
  <2>2. m \in Locals /\ m.job = Job(w) /\ m.subject = subject
    <3> HIDE DEF n
    <3> QED BY <2>1 DEF Locals
  <2>3. Goto(w, p, m)
    BY <1>4 DEF AndThen
  <2> HIDE DEF m
  <2>4. <<"preparation", Job(w)>> \in Subjects
    BY <1>2, <1>4 DEF Subjects
  <2>5. At(p, m)
    BY <1>2, <1>4, <2>2, <2>4 DEF At
  <2> QED BY <2>3, <2>5 DEF Moves
<1>5. pc[w] # "idle" => <<"preparation", Job(w)>> \in Subjects
  BY <1>2 DEF Subjects
<1> QED BY <1>1, <1>3, <1>4, <1>5 DEF Places

LEMMA OnwardMoves ==
    ASSUME WorkersAt, NEW w \in Workers, pc[w] # "idle", Onward(w)
    PROVE  Moves(w)
  BY Ends DEF Onward

LEMMA PublishMoves ==
    ASSUME WorkersAt, NEW w \in Workers, pc[w] # "idle", Publish(w)
    PROVE  Moves(w)
<1>1. Job(w) \in Attempts
  BY DEF WorkersAt, At, Job
<1>2. CASE AndThen(w, "sign", <<"preparation", Job(w)>>)
  BY <1>2, Ends
<1>3. CASE AndThen(w, "sign", <<"publication", PubOf[Job(w)]>>) /\ ~Registered(PubOf[Job(w)])
  <2> DEFINE subject == <<"publication", PubOf[Job(w)]>>
             n == [Nothing EXCEPT !.job = Job(w)]
             m == [Nothing EXCEPT !.job = Job(w), !.subject = subject]
  <2>1. PubOf[Job(w)] \in Publications
    BY <1>1, <1>3, FundedAssumption DEF Registered
  <2>2. subject \in Subjects
    BY <2>1 DEF Subjects
  <2> HIDE DEF subject
  <2>3. n \in Locals /\ n.job = Job(w) /\ m = [n EXCEPT !.subject = subject]
    BY <1>1, NothingIs
  <2>4. m \in Locals /\ m.job = Job(w) /\ m.subject = subject
    <3> HIDE DEF n
    <3> QED BY <2>2, <2>3 DEF Locals
  <2>5. Goto(w, "sign", m)
    BY <1>3 DEF AndThen, subject
  <2> HIDE DEF m
  <2>6. At("sign", m)
    BY <1>1, <2>2, <2>4 DEF At, Places, subject
  <2> QED BY <2>5, <2>6 DEF Moves
<1> QED BY <1>2, <1>3 DEF Publish

LEMMA WorkerMoves ==
    ASSUME WorkersAt, RestOK, NEW w \in Workers, WorkerStep(w) \/ Throw(w) \/ Crash(w)
    PROVE  Moves(w)
<1>0. pc[w] # "idle" => Job(w) \in Attempts /\ my[w] \in Locals /\ my[w].job = Job(w)
  BY DEF WorkersAt, At, Job
<1>1. ASSUME Select(w) PROVE Moves(w)
  <2>1. PICK a \in Turn : Goto(w, "begin", [Nothing EXCEPT !.job = a])
    BY <1>1 DEF Select
  <2>2. a \in Attempts
    BY DEF Turn, Oldest
  <2>3. At("begin", [Nothing EXCEPT !.job = a])
    BY <2>2, NothingIs DEF At, Places
  <2> QED BY <2>1, <2>3 DEF Moves
<1>2. ASSUME Begin(w) PROVE Moves(w)
  <2>1. pc[w] = "begin"
    BY <1>2 DEF Begin
  <2>2. CASE Done(w, "prepared")
    BY <2>1, <2>2, Ends
  <2>3. CASE Goto(w, "charge", [my[w] EXCEPT !.published = Registered(PubOf[Job(w)])])
    <3> DEFINE m == [my[w] EXCEPT !.published = Registered(PubOf[Job(w)])]
    <3>1. Registered(PubOf[Job(w)]) \in BOOLEAN
      BY DEF Registered, Included
    <3>2. m \in Locals /\ m.job = Job(w)
      BY <1>0, <2>1, <3>1 DEF Locals
    <3>3. At("charge", m)
      <4> HIDE DEF m
      <4> QED BY <1>0, <2>1, <3>2 DEF At, Places
    <3> QED BY <2>3, <3>3 DEF Moves
  <2> QED BY <1>2, <2>2, <2>3 DEF Begin
<1>3. ASSUME Charge(w) PROVE Moves(w)
  <2>1. pc[w] # "idle" /\ (Publish(w) \/ Done(w, "pending"))
    BY <1>3 DEF Charge
  <2> QED BY <2>1, PublishMoves, Ends
<1>4. ASSUME Sign(w) PROVE Moves(w)
  <2>1. pc[w] = "sign" /\ (Goto(w, "read", my[w]) \/ Onward(w))
    BY <1>4 DEF Sign
  <2>2. At("read", my[w])
    BY <2>1 DEF WorkersAt, At, Places
  <2> QED BY <2>1, <2>2, OnwardMoves DEF Moves
<1>5. ASSUME Read(w) PROVE Moves(w)
  <2> DEFINE m == [my[w] EXCEPT !.unsent = ~Satisfied(my[w].subject)]
  <2>1. pc[w] = "read" /\ Goto(w, "act", m)
    BY <1>5 DEF Read
  <2>2. m \in Locals /\ m.job = my[w].job /\ m.subject = my[w].subject
    BY <1>0, <2>1 DEF Locals
  <2>3. At("act", m)
    <3>1. At("read", my[w])
      BY <2>1 DEF WorkersAt
    <3> HIDE DEF m
    <3> QED BY <2>2, <3>1 DEF At, Places
  <2> QED BY <2>1, <2>3 DEF Moves
<1>6. ASSUME Act(w) PROVE Moves(w)
  <2>1. pc[w] # "idle" /\ (Onward(w) \/ Done(w, "pending"))
    BY <1>6 DEF Act
  <2> QED BY <2>1, OnwardMoves, Ends
<1>7. ASSUME Produce(w) PROVE Moves(w)
  <2>1. pc[w] = "produce"
    BY <1>7 DEF Produce
  <2>2. PICK r \in Seeds(Job(w)) : Goto(w, "insert", [my[w] EXCEPT !.seed = r]) \/ Done(w, "prepared")
    BY <1>7 DEF Produce
  <2>3. CASE Done(w, "prepared")
    BY <2>1, <2>3, Ends
  <2>4. CASE Goto(w, "insert", [my[w] EXCEPT !.seed = r])
    <3> DEFINE m == [my[w] EXCEPT !.seed = r]
    <3>1. r \in 1..MaxRevisions
      BY <1>0, <2>1, SeedsAre
    <3>2. m \in Locals /\ m.job = Job(w)
      BY <1>0, <2>1, <3>1 DEF Locals
    <3>3. At("insert", m)
      <4> HIDE DEF m
      <4> QED BY <1>0, <2>1, <3>2 DEF At, Places
    <3> QED BY <2>4, <3>3 DEF Moves
  <2> QED BY <2>2, <2>3, <2>4
<1>8. ASSUME Insert(w) PROVE Moves(w)
  <2>1. pc[w] # "idle" /\ Done(w, "prepared")
    BY <1>8 DEF Insert
  <2> QED BY <2>1, Ends
<1>9. ASSUME Finish(w) \/ Refuse(w) \/ Throw(w) \/ Crash(w) PROVE Moves(w)
  <2>1. Goto(w, "idle", Nothing)
    BY <1>9 DEF Finish, Refuse, Throw, Catch, Crash
  <2> QED BY <2>1, Ends
<1> QED BY <1>1, <1>2, <1>3, <1>4, <1>5, <1>6, <1>7, <1>8, <1>9 DEF WorkerStep

LEMMA WorkersStep ==
    ASSUME WorkersAt, RestOK, Next
    PROVE  WorkersAt'
<1>1. ASSUME NEW w \in Workers, WorkerStep(w) \/ Throw(w) \/ Crash(w) PROVE WorkersAt'
  BY <1>1, WorkerMoves, MoveKeepsAt
<1>2. ASSUME UNCHANGED <<pc, my>> PROVE WorkersAt'
  BY <1>2 DEF WorkersAt
<1>3. Deploy => UNCHANGED <<pc, my>>
  BY DEF Deploy
<1>4. ASSUME NEW t \in Transfers, Classify(t) \/ Reevaluate(t) PROVE UNCHANGED <<pc, my>>
  BY <1>4 DEF Classify, Reevaluate
<1>5. ASSUME NEW a \in Attempts, Expire(a) \/ Lapse(a) PROVE UNCHANGED <<pc, my>>
  BY <1>5 DEF Expire, Lapse
<1>6. ASSUME NEW p \in Publications, RegisterElsewhere(p) PROVE UNCHANGED <<pc, my>>
  BY <1>6 DEF RegisterElsewhere, MoveTx
<1>7. ASSUME NEW x \in Txs, Mine(x) \/ Deepen(x) \/ Drop(x) \/ Reorganise(x) PROVE UNCHANGED <<pc, my>>
  BY <1>7 DEF Mine, Deepen, Drop, Reorganise, MoveTx
<1>8. Subjects \subseteq Txs
  BY DEF Txs
<1> QED BY <1>1, <1>2, <1>3, <1>4, <1>5, <1>6, <1>7, <1>8 DEF Next

----------------------------------------------------------------------------
(* The rows *)

(* A worker hands the row that it holds back. *)
GiveBack(w) ==
    /\ Job(w) \in Attempts /\ work[Job(w)].holder = w /\ pc[w] # "idle"
    /\ Goto(w, "idle", Nothing) /\ UNCHANGED <<fresh, older, payload>>
    /\ \E status \in {"queued", "prepared"} :
          /\ work' = Returned(Job(w), status)
          /\ status = "prepared" => payload[Job(w)] # None

LEMMA RowsChange ==
    ASSUME WorkersAt, Next
    PROVE  \/ UNCHANGED rows
           \/ \E w \in Workers : Select(w) \/ GiveBack(w)
           \/ \E a \in Attempts : Lapse(a)
<1>1. ASSUME NEW w \in Workers,
             Begin(w) \/ Charge(w) \/ Sign(w) \/ Read(w) \/ Act(w) \/ Produce(w) \/ Insert(w) \/ Crash(w)
      PROVE  UNCHANGED rows
  BY <1>1 DEF Begin, Charge, Sign, Read, Act, Produce, Insert, Crash, rows
<1>2. ASSUME NEW w \in Workers, Finish(w) PROVE GiveBack(w)
  <2>1. Job(w) \in Attempts
    BY <1>2 DEF Finish, WorkersAt, At, Job
  <2> QED BY <1>2, <2>1 DEF Finish, GiveBack, Holds, Leased
<1>3. ASSUME NEW w \in Workers, Refuse(w) \/ Throw(w)
      PROVE  UNCHANGED rows \/ GiveBack(w)
  <2>1. Job(w) \in Attempts /\ pc[w] # "idle"
    BY <1>3 DEF Refuse, Throw, WorkersAt, At, Job
  <2>2. Catch(w)
    BY <1>3 DEF Refuse, Throw
  <2>3. CASE work[Job(w)].holder = w
    BY <2>1, <2>2, <2>3 DEF Catch, GiveBack
  <2>4. CASE work[Job(w)].holder # w
    BY <2>2, <2>4 DEF Catch, rows
  <2> QED BY <2>3, <2>4
<1>4. Deploy => UNCHANGED rows
  BY DEF Deploy
<1>5. ASSUME NEW t \in Transfers, Classify(t) \/ Reevaluate(t) PROVE UNCHANGED rows
  BY <1>5 DEF Classify, Reevaluate
<1>6. ASSUME NEW a \in Attempts, Expire(a) PROVE UNCHANGED rows
  BY <1>6 DEF Expire
<1>7. ASSUME NEW p \in Publications, RegisterElsewhere(p) PROVE UNCHANGED rows
  BY <1>7 DEF RegisterElsewhere, MoveTx
<1>8. ASSUME NEW x \in Txs, Mine(x) \/ Deepen(x) \/ Drop(x) \/ Reorganise(x) PROVE UNCHANGED rows
  BY <1>8 DEF Mine, Deepen, Drop, Reorganise, MoveTx
<1>9. Subjects \subseteq Txs
  BY DEF Txs
<1> QED BY <1>1, <1>2, <1>3, <1>4, <1>5, <1>6, <1>7, <1>8, <1>9 DEF Next, WorkerStep

(* What the INSERT of runOnce leaves alone and what it adds. *)
LEMMA InsertedIs ==
    ASSUME RowsOK, RestOK, NEW a \in Attempts
    PROVE  /\ RowFits(Inserted[a])
           /\ work[a].status # "absent" => Inserted[a] = work[a]
           /\ Inserted[a] = work[a] \/ (Inserted[a].status = "queued" /\ ~Inserted[a].live)
           /\ a \in Unchecked => Inserted[a].status # "absent"
           /\ Inserted[a].status # "absent" /\ a \notin Unchecked <=> a \in Checked
           /\ Fundable(a) => Inserted[a].status # "absent"
<1>1. CASE Fundable(a) /\ work[a].status = "absent"
  <2> DEFINE t == CHOOSE t \in Payments(a) : TRUE
             row == [NoRow EXCEPT !.status = "queued", !.obs = t]
  <2>1. Payments(a) # {}
    BY <1>1, FS_EmptySet DEF Fundable
  <2>2. t \in Transfers
    BY <2>1 DEF Payments
  <2>3. Inserted[a] = row
    BY <1>1 DEF Inserted
  <2> HIDE DEF t
  <2>4. /\ row \in Rows /\ row.status = "queued" /\ row.obs = t /\ row.holder = None /\ ~row.live
        /\ row # NoRow
    BY <2>2 DEF NoRow, Rows
  <2>5. None \notin Workers /\ None \notin Transfers
    BY FundedAssumption DEF Workers
  <2> HIDE DEF row
  <2>6. RowFits(row)
    BY <2>2, <2>4, <2>5 DEF RowFits
  <2>7. a \in Unchecked
    BY <1>1, <2>3, <2>4 DEF Unchecked
  <2>8. a \notin Checked
    BY <1>1 DEF Checked
  <2> QED BY <1>1, <2>3, <2>4, <2>6, <2>7, <2>8
<1>2. CASE ~(Fundable(a) /\ work[a].status = "absent")
  <2>1. Inserted[a] = work[a]
    BY <1>2 DEF Inserted
  <2>2. RowFits(work[a])
    BY DEF RowsOK
  <2>3. work[a].status = "absent" => Inserted[a] = NoRow
    <3>1. ASSUME work[a].status = "absent"
          PROVE  /\ work[a].obs = None /\ work[a].holder = None /\ work[a].live = FALSE
                 /\ work[a] \in Rows
      BY <2>2, <3>1 DEF RowFits, Rows
    <3> QED BY <2>1, <3>1 DEF Rows, NoRow
  <2> QED BY <1>2, <2>1, <2>2, <2>3 DEF Unchecked, Checked, RowsOK
<1> QED BY <1>1, <1>2

LEMMA TurnIs ==
    ASSUME RowsOK, RestOK, NEW a \in Turn
    PROVE  /\ a \in Attempts /\ Free(a)
           /\ Inserted[a].status \in {"queued", "leased"} /\ ~Inserted[a].live
<1>1. a \in Attempts /\ Free(a)
  BY DEF Turn, Oldest
<1>2. CASE work[a].status = "absent"
  <2>1. Inserted[a].status # "absent"
    BY <1>1, InsertedIs DEF Free, Bound
  <2> QED BY <1>1, <1>2, <2>1, InsertedIs
<1>3. CASE work[a].status # "absent"
  <2>1. Inserted[a] = work[a] /\ RowFits(Inserted[a])
    BY <1>1, <1>3, InsertedIs
  <2> QED BY <1>1, <1>3, <2>1 DEF Free, RowFits, Rows
<1> QED BY <1>1, <1>2, <1>3

LEMMA SelectRows ==
    ASSUME RowsOK, RestOK, NEW w \in Workers, Select(w)
    PROVE  RowsOK'
<1>1. PICK a \in Turn :
          /\ work' = [Inserted EXCEPT ![a] = [@ EXCEPT !.status = "leased", !.holder = w, !.live = TRUE]]
          /\ fresh' = Unchecked \ {a}
          /\ older' = {e \in older : e[1] # a} \cup {<<b, a>> : b \in Checked \ {a}}
  BY DEF Select
<1>2. a \in Attempts /\ Inserted[a].status # "absent" /\ RowFits(Inserted[a])
  BY TurnIs, InsertedIs
<1> DEFINE row == [Inserted[a] EXCEPT !.status = "leased", !.holder = w, !.live = TRUE]
<1>3. row \in Rows /\ row.status = "leased" /\ row.holder = w /\ row.obs = Inserted[a].obs /\ row.live
  BY <1>2 DEF RowFits, Rows
<1>4. /\ DOMAIN work' = Attempts /\ work' = [b \in Attempts |-> work'[b]] /\ work'[a] = row
      /\ \A b \in Attempts : b # a => work'[b] = Inserted[b]
  <2>1. Inserted = [b \in Attempts |-> Inserted[b]] /\ DOMAIN Inserted = Attempts
    BY DEF Inserted
  <2> QED BY <1>1, <1>2, <2>1
<1> HIDE DEF row
<1>5. RowFits(row)
  BY <1>2, <1>3 DEF RowFits
<1>6. \A b \in Attempts : RowFits(work'[b])
  BY <1>4, <1>5, InsertedIs
<1>7. work' \in [Attempts -> Rows]
  <2>1. \A b \in Attempts : work'[b] \in Rows
    BY <1>6 DEF RowFits
  <2> QED BY <1>4, <2>1
<1>8. \A b \in fresh' : b \in Attempts /\ work'[b].status # "absent"
  <2>1. \A b \in Unchecked : b \in Attempts
    BY DEF Unchecked, RowsOK
  <2> QED BY <1>1, <1>4, <2>1, InsertedIs
<1>9. Checked' = Checked \cup {a}
  <2>1. ASSUME NEW b \in Attempts, b # a PROVE b \in Checked' <=> b \in Checked
    <3>1. b \in Checked' <=> Inserted[b].status # "absent" /\ b \notin Unchecked
      BY <1>1, <1>4, <2>1 DEF Checked
    <3> QED BY <3>1, InsertedIs
  <2>2. a \in Checked'
    BY <1>1, <1>2, <1>3, <1>4 DEF Checked
  <2> QED BY <1>2, <2>1, <2>2 DEF Checked
<1>10. older' \subseteq Attempts \X Attempts
  BY <1>1, <1>2 DEF RowsOK, Checked
<1>11. ASSUME NEW b \in Checked', NEW c \in Checked', b # c
       PROVE  <<b, c>> \in older' <=> <<c, b>> \notin older'
  <2>1. CASE b # a /\ c # a
    <3>1. /\ <<b, c>> \in older' <=> <<b, c>> \in older
          /\ <<c, b>> \in older' <=> <<c, b>> \in older
      BY <1>1, <2>1
    <3> QED BY <1>9, <1>11, <2>1, <3>1 DEF RowsOK
  <2>2. CASE b = a
    BY <1>1, <1>9, <1>11, <2>2
  <2>3. CASE c = a
    BY <1>1, <1>9, <1>11, <2>3
  <2> QED BY <2>1, <2>2, <2>3
<1> QED BY <1>6, <1>7, <1>8, <1>10, <1>11 DEF RowsOK

(* One row is written, and neither comes nor goes. *)
LEMMA OneRow ==
    ASSUME RowsOK, NEW a \in Attempts, NEW row, RowFits(row), row.status # "absent",
           work[a].status # "absent", work' = [work EXCEPT ![a] = row], UNCHANGED <<fresh, older>>
    PROVE  RowsOK'
<1>1. work'[a] = row /\ \A b \in Attempts : b # a => work'[b] = work[b]
  BY DEF RowsOK
<1>2. work' \in [Attempts -> Rows]
  BY DEF RowsOK, RowFits
<1>3. \A b \in Attempts : RowFits(work'[b]) /\ (work'[b].status = "absent" <=> work[b].status = "absent")
  BY <1>1 DEF RowsOK
<1>4. Checked' = Checked
  BY <1>3 DEF Checked
<1> QED BY <1>2, <1>3, <1>4 DEF RowsOK

LEMMA ReturnedIs ==
    ASSUME RowsOK, NEW a \in Attempts, NEW status \in {"queued", "prepared"},
           work[a].status # "absent", work' = Returned(a, status), UNCHANGED <<fresh, older>>
    PROVE  /\ RowsOK'
           /\ work'[a].status = status /\ \A b \in Attempts : b # a => work'[b] = work[b]
<1> DEFINE row == [work[a] EXCEPT !.status = status, !.holder = None, !.live = FALSE]
<1>1. /\ row \in Rows /\ row.status = status /\ row.holder = None /\ row.live = FALSE
      /\ row.obs = work[a].obs
  <2>1. work[a] \in Rows
    BY DEF RowsOK
  <2>2. work[a] = [status |-> work[a].status, obs |-> work[a].obs, holder |-> work[a].holder,
                   live |-> work[a].live]
    BY <2>1 DEF Rows
  <2> QED BY <2>1, <2>2 DEF Rows
<1>2. work' = [work EXCEPT ![a] = row]
  BY DEF Returned
<1>3. None \notin Workers
  BY FundedAssumption DEF Workers
<1> HIDE DEF row
<1>4. RowFits(row)
  BY <1>1, <1>3 DEF RowFits, RowsOK
<1>5. RowsOK'
  BY <1>1, <1>2, <1>4, OneRow
<1>6. work'[a] = row /\ \A b \in Attempts : b # a => work'[b] = work[b]
  BY <1>2 DEF RowsOK
<1> QED BY <1>1, <1>5, <1>6

LEMMA LapseIs ==
    ASSUME RowsOK, NEW a \in Attempts, Lapse(a)
    PROVE  /\ RowsOK'
           /\ work'[a] = [work[a] EXCEPT !.live = FALSE] /\ \A b \in Attempts : b # a => work'[b] = work[b]
<1> DEFINE row == [work[a] EXCEPT !.live = FALSE]
<1>1. /\ row \in Rows /\ row.status = work[a].status /\ row.holder = work[a].holder /\ row.live = FALSE
      /\ row.obs = work[a].obs
  BY DEF RowsOK, Rows
<1>2. work' = [work EXCEPT ![a] = row] /\ UNCHANGED <<fresh, older>> /\ work[a].live
  BY DEF Lapse
<1>3. work[a].status = "leased" /\ RowFits(work[a])
  BY <1>2 DEF RowsOK, RowFits
<1>4. work'[a] = row /\ \A b \in Attempts : b # a => work'[b] = work[b]
  BY <1>2 DEF RowsOK
<1> HIDE DEF row
<1>5. RowFits(row)
  BY <1>1, <1>3 DEF RowFits
<1>6. RowsOK'
  BY <1>1, <1>2, <1>3, <1>5, OneRow
<1> QED BY <1>4, <1>6 DEF row

LEMMA RowsStep ==
    ASSUME WorkersAt, RowsOK, RestOK, Next
    PROVE  RowsOK'
<1>1. CASE UNCHANGED rows
  BY <1>1 DEF rows, RowsOK, Checked
<1>2. ASSUME NEW w \in Workers, GiveBack(w) PROVE RowsOK'
  <2>1. Job(w) \in Attempts /\ work[Job(w)].status # "absent"
    BY <1>2 DEF GiveBack, RowsOK, RowFits
  <2> QED BY <1>2, <2>1, ReturnedIs DEF GiveBack
<1> QED BY <1>1, <1>2, RowsChange, SelectRows, LapseIs

----------------------------------------------------------------------------
(* The other variables *)

other == <<obs, expired, cost, signed, revisions, payload, place, current, faults>>

LEMMA FaultsStep == ASSUME RestOK, Fault PROVE faults' \in 0..MaxFaults
  BY FundedAssumption DEF RestOK, Fault

(* What a step of a worker writes, apart from its row and its locals. *)
LEMMA WorkerRest ==
    ASSUME WorkersAt, RestOK, NEW w \in Workers, WorkerStep(w) \/ Throw(w) \/ Crash(w)
    PROVE  RestOK'
<1>0. pc[w] # "idle" => Job(w) \in Attempts /\ my[w] \in Locals
  BY DEF WorkersAt, At, Job
<1>1. ASSUME Select(w) \/ Begin(w) \/ Read(w) \/ Finish(w) \/ Refuse(w) PROVE UNCHANGED other
  BY <1>1 DEF Select, Begin, Read, Finish, Refuse, Catch, deposits, rows, other
<1>2. ASSUME Charge(w) PROVE RestOK'
  <2>1. UNCHANGED <<obs, expired, signed, revisions, payload, place, current, faults>>
    BY <1>2 DEF Charge, deposits
  <2>2. pc[w] # "idle" /\ (cost' = cost \/ \E c \in {"own", "publication"} : cost' = [cost EXCEPT ![Job(w)] = c])
    BY <1>2 DEF Charge
  <2>3. cost' \in [Attempts -> {"none", "own", "publication"}]
    BY <1>0, <2>2 DEF RestOK
  <2> QED BY <2>1, <2>3 DEF RestOK
<1>3. ASSUME Sign(w) PROVE RestOK'
  <2>1. UNCHANGED <<obs, expired, cost, revisions, payload, place, current, faults>>
    BY <1>3 DEF Sign, deposits
  <2>2. pc[w] = "sign" /\ (signed' = signed \/ signed' = signed \cup {my[w].subject})
    BY <1>3 DEF Sign
  <2>3. my[w].subject \in Subjects
    BY <2>2 DEF WorkersAt, At
  <2> QED BY <2>1, <2>2, <2>3 DEF RestOK
<1>4. ASSUME Act(w) PROVE RestOK'
  <2>1. UNCHANGED <<obs, expired, cost, signed, revisions, payload, current, faults>>
    BY <1>4 DEF Act, deposits
  <2>2. place' = place \/ place' = [place EXCEPT ![my[w].subject] = "pool"]
    BY <1>4 DEF Act
  <2>3. place' \in [Txs -> {"none", "pool", "shallow", "deep"}]
    BY <2>2 DEF RestOK
  <2> QED BY <2>1, <2>3 DEF RestOK
<1>5. ASSUME Produce(w) PROVE RestOK'
  <2>1. UNCHANGED <<obs, expired, cost, signed, payload, place, current, faults>> /\ pc[w] # "idle"
    BY <1>5 DEF Produce, deposits
  <2>2. PICK r \in Seeds(Job(w)) : revisions' = [revisions EXCEPT ![Job(w)] = Max({@, r})]
    BY <1>5 DEF Produce
  <2>3. Max({revisions[Job(w)], r}) \in 0..MaxRevisions
    BY <1>0, <2>1, SeedsAre
  <2>4. revisions' \in [Attempts -> 0..MaxRevisions]
    BY <2>2, <2>3 DEF RestOK
  <2> QED BY <2>1, <2>4 DEF RestOK
<1>6. ASSUME Insert(w) PROVE RestOK'
  <2>1. UNCHANGED <<obs, expired, cost, signed, revisions, place, current, faults>> /\ pc[w] # "idle"
    BY <1>6 DEF Insert, deposits
  <2>2. my[w].seed \in 1..MaxRevisions \cup {None}
    BY <1>0, <2>1 DEF Locals
  <2>3. payload' = payload \/ payload' = [payload EXCEPT ![Job(w)] = my[w].seed]
    <3>1. payload' = [payload EXCEPT ![Job(w)] = IF payload[Job(w)] = None THEN my[w].seed ELSE payload[Job(w)]]
      BY <1>6 DEF Insert
    <3>2. payload \in [Attempts -> 1..MaxRevisions \cup {None}]
      BY DEF RestOK
    <3> QED BY <1>0, <2>1, <3>1, <3>2
  <2>4. payload' \in [Attempts -> 1..MaxRevisions \cup {None}]
    BY <1>0, <2>1, <2>2, <2>3 DEF RestOK
  <2> QED BY <2>1, <2>4 DEF RestOK
<1>7. ASSUME Throw(w) PROVE RestOK'
  <2>1. UNCHANGED <<obs, expired, cost, signed, revisions, payload, current>> /\ Fault
    BY <1>7 DEF Throw, Catch, deposits
  <2>2. place' = place \/ place' = [place EXCEPT ![my[w].subject] = "pool"]
    BY <1>7 DEF Throw
  <2>3. place' \in [Txs -> {"none", "pool", "shallow", "deep"}]
    BY <2>2 DEF RestOK
  <2> QED BY <2>1, <2>3, FaultsStep DEF RestOK
<1>8. ASSUME Crash(w) PROVE RestOK'
  <2>1. UNCHANGED <<obs, expired, cost, signed, revisions, payload, place, current>> /\ Fault
    BY <1>8 DEF Crash, deposits
  <2> QED BY <2>1, FaultsStep DEF RestOK
<1>9. UNCHANGED other => RestOK'
  BY DEF other, RestOK
<1> QED BY <1>1, <1>2, <1>3, <1>4, <1>5, <1>6, <1>7, <1>8, <1>9 DEF WorkerStep

LEMMA RestStep ==
    ASSUME WorkersAt, RestOK, Next
    PROVE  RestOK'
<1>1. ASSUME Deploy PROVE RestOK'
  <2>1. UNCHANGED <<obs, expired, cost, signed, revisions, payload, place, faults>>
    BY <1>1 DEF Deploy, deposits
  <2>2. current' \in Workers
    BY <1>1, FundedAssumption DEF Deploy, RestOK, Workers
  <2> QED BY <2>1, <2>2 DEF RestOK
<1>2. ASSUME NEW t \in Transfers, Classify(t) \/ Reevaluate(t) PROVE RestOK'
  <2>1. UNCHANGED <<expired, cost, signed, revisions, payload, place, current>>
        /\ (UNCHANGED faults \/ Fault)
    BY <1>2 DEF Classify, Reevaluate
  <2>2. PICK class \in {"pending", "eligible", "review"} : obs' = [obs EXCEPT ![t] = class]
    BY <1>2 DEF Classify, Reevaluate, Classes
  <2>3. obs' \in [Transfers -> {"unseen", "pending", "eligible", "review"}]
    BY <2>2 DEF RestOK
  <2> QED BY <2>1, <2>3, FaultsStep DEF RestOK
<1>3. ASSUME NEW a \in Attempts, Expire(a) PROVE RestOK'
  <2>1. UNCHANGED <<obs, cost, signed, revisions, payload, place, current>> /\ Fault
    BY <1>3 DEF Expire
  <2>2. expired' = expired \cup {a}
    BY <1>3 DEF Expire
  <2> QED BY <2>1, <2>2, FaultsStep DEF RestOK
<1>4. ASSUME NEW a \in Attempts, Lapse(a) PROVE RestOK'
  <2>1. UNCHANGED <<obs, expired, cost, signed, revisions, payload, place, current>>
        /\ (UNCHANGED faults \/ Fault)
    BY <1>4 DEF Lapse, deposits
  <2> QED BY <2>1, FaultsStep DEF RestOK
<1>5. ASSUME NEW x, NEW where \in {"none", "pool", "shallow", "deep"}, MoveTx(x, where),
             UNCHANGED faults \/ Fault
      PROVE  RestOK'
  <2>1. UNCHANGED <<obs, expired, cost, signed, revisions, payload, current>>
    BY <1>5 DEF MoveTx, deposits
  <2>2. place' \in [Txs -> {"none", "pool", "shallow", "deep"}]
    BY <1>5 DEF MoveTx, RestOK
  <2> QED BY <1>5, <2>1, <2>2, FaultsStep DEF RestOK
<1>6. ASSUME NEW p \in Publications, RegisterElsewhere(p) PROVE RestOK'
  BY <1>5, <1>6 DEF RegisterElsewhere
<1>7. ASSUME NEW x \in Txs, Mine(x) \/ Deepen(x) \/ Drop(x) \/ Reorganise(x) PROVE RestOK'
  BY <1>5, <1>7 DEF Mine, Deepen, Drop, Reorganise
<1>8. Subjects \subseteq Txs
  BY DEF Txs
<1> QED BY <1>1, <1>2, <1>3, <1>4, <1>6, <1>7, <1>8, WorkerRest DEF Next

----------------------------------------------------------------------------
(* The costs and the payloads *)

LEMMA CostChange ==
    ASSUME WorkersAt, RestOK, Next
    PROVE  \/ UNCHANGED cost
           \/ \E a \in Attempts, c \in {"own", "publication"} :
                 /\ cost[a] = "none" /\ (c = "publication" => Owners(a) = {})
                 /\ cost' = [cost EXCEPT ![a] = c]
<1>1. ASSUME NEW w \in Workers, Charge(w), cost' # cost
      PROVE  \E a \in Attempts, c \in {"own", "publication"} :
                 /\ cost[a] = "none" /\ (c = "publication" => Owners(a) = {})
                 /\ cost' = [cost EXCEPT ![a] = c]
  <2>1. Job(w) \in Attempts
    BY <1>1 DEF Charge, WorkersAt, At, Job
  <2> QED BY <1>1, <2>1 DEF Charge
<1>2. ASSUME NEW w \in Workers, WorkerStep(w) \/ Throw(w) \/ Crash(w), ~Charge(w) PROVE UNCHANGED cost
  BY <1>2 DEF WorkerStep, Select, Begin, Sign, Read, Act, Produce, Insert, Finish, Refuse, Throw, Crash, Catch
<1>3. Deploy => UNCHANGED cost
  BY DEF Deploy
<1>4. ASSUME NEW t \in Transfers, Classify(t) \/ Reevaluate(t) PROVE UNCHANGED cost
  BY <1>4 DEF Classify, Reevaluate
<1>5. ASSUME NEW a \in Attempts, Expire(a) \/ Lapse(a) PROVE UNCHANGED cost
  BY <1>5 DEF Expire, Lapse
<1>6. ASSUME NEW p \in Publications, RegisterElsewhere(p) PROVE UNCHANGED cost
  BY <1>6 DEF RegisterElsewhere, MoveTx
<1>7. ASSUME NEW x \in Txs, Mine(x) \/ Deepen(x) \/ Drop(x) \/ Reorganise(x) PROVE UNCHANGED cost
  BY <1>7 DEF Mine, Deepen, Drop, Reorganise, MoveTx
<1>8. Subjects \subseteq Txs
  BY DEF Txs
<1> QED BY <1>1, <1>2, <1>3, <1>4, <1>5, <1>6, <1>7, <1>8 DEF Next

(* A new signature for a publication is of the attempt that was charged. *)
LEMMA SignedChange ==
    ASSUME WorkersAt, Next, NEW p \in Publications, <<"publication", p>> \in signed' \ signed
    PROVE  Payers(p) # {}
<1>1. ASSUME NEW w \in Workers, Sign(w) PROVE Payers(p) # {}
  <2>1. At("sign", my[w]) /\ Admits(w)
    BY <1>1 DEF Sign, WorkersAt
  <2>2. my[w].subject = <<"publication", p>> /\ ~Satisfied(my[w].subject)
    BY <1>1 DEF Sign
  <2>3. my[w].subject = <<"publication", PubOf[my[w].job]>> /\ my[w].job \in Attempts
    BY <2>1, <2>2 DEF At
  <2>4. PubOf[my[w].job] = p
    BY <2>2, <2>3
  <2>5. my[w].subject[1] = "publication"
    BY <2>2
  <2>6. cost[my[w].job] = "publication"
    BY <2>1, <2>2, <2>5 DEF Admits, Rewarded, Job
  <2> QED BY <2>3, <2>4, <2>6 DEF Payers
<1>2. ASSUME NEW w \in Workers, WorkerStep(w) \/ Throw(w) \/ Crash(w), ~Sign(w) PROVE UNCHANGED signed
  BY <1>2 DEF WorkerStep, Select, Begin, Charge, Read, Act, Produce, Insert, Finish, Refuse, Throw, Crash, Catch
<1>3. Deploy => UNCHANGED signed
  BY DEF Deploy
<1>4. ASSUME NEW t \in Transfers, Classify(t) \/ Reevaluate(t) PROVE UNCHANGED signed
  BY <1>4 DEF Classify, Reevaluate
<1>5. ASSUME NEW a \in Attempts, Expire(a) \/ Lapse(a) PROVE UNCHANGED signed
  BY <1>5 DEF Expire, Lapse
<1>6. ASSUME NEW q \in Publications, RegisterElsewhere(q) PROVE UNCHANGED signed
  BY <1>6 DEF RegisterElsewhere, MoveTx
<1>7. ASSUME NEW x \in Txs, Mine(x) \/ Deepen(x) \/ Drop(x) \/ Reorganise(x) PROVE UNCHANGED signed
  BY <1>7 DEF Mine, Deepen, Drop, Reorganise, MoveTx
<1>8. Subjects \subseteq Txs
  BY DEF Txs
<1> QED BY <1>1, <1>2, <1>3, <1>4, <1>5, <1>6, <1>7, <1>8 DEF Next

LEMMA PaidStep ==
    ASSUME WorkersAt, RestOK, PaidOnce, Next
    PROVE  PaidOnce'
<1> SUFFICES ASSUME NEW p \in Publications
             PROVE  /\ \A a, b \in Payers(p)' : a = b
                    /\ <<"publication", p>> \in signed' => Payers(p)' # {}
  BY DEF PaidOnce
<1>1. Payers(p) \subseteq Payers(p)'
  BY CostChange DEF Payers, RestOK
<1>2. ASSUME NEW a \in Payers(p)', NEW b \in Payers(p)' PROVE a = b
  <2>1. CASE UNCHANGED cost
    BY <1>2, <2>1 DEF PaidOnce, Payers
  <2>2. ASSUME NEW x \in Attempts, NEW c \in {"own", "publication"}, cost[x] = "none",
               c = "publication" => Owners(x) = {}, cost' = [cost EXCEPT ![x] = c]
        PROVE  a = b
    <3>1. cost'[x] = c /\ \A y \in Attempts : y # x => cost'[y] = cost[y]
      BY <2>2 DEF RestOK
    <3>2. CASE c = "own"
      <4>1. a \in Payers(p) /\ b \in Payers(p)
        BY <1>2, <3>1, <3>2 DEF Payers
      <4> QED BY <4>1 DEF PaidOnce
    <3>3. CASE c = "publication"
      <4>1. \A y \in Attempts : y # x /\ PubOf[y] = PubOf[x] => cost[y] # "publication"
        BY <2>2, <3>3 DEF Owners
      <4>2. CASE PubOf[x] = p
        BY <1>2, <3>1, <4>1, <4>2 DEF Payers
      <4>3. CASE PubOf[x] # p
        <5>1. a \in Payers(p) /\ b \in Payers(p)
          BY <1>2, <3>1, <4>3 DEF Payers
        <5> QED BY <5>1 DEF PaidOnce
      <4> QED BY <4>2, <4>3
    <3> QED BY <3>2, <3>3
  <2> QED BY <2>1, <2>2, CostChange
<1>3. ASSUME <<"publication", p>> \in signed' PROVE Payers(p)' # {}
  BY <1>1, <1>3, SignedChange DEF PaidOnce
<1> QED BY <1>2, <1>3

LEMMA PayloadChange ==
    ASSUME WorkersAt, RestOK, Next, NEW a \in Attempts, payload[a] # None
    PROVE  payload'[a] = payload[a]
<1>1. ASSUME NEW w \in Workers, Insert(w) PROVE payload'[a] = payload[a]
  BY <1>1 DEF Insert, RestOK
<1>2. ASSUME NEW w \in Workers, WorkerStep(w) \/ Throw(w) \/ Crash(w), ~Insert(w) PROVE UNCHANGED payload
  BY <1>2 DEF WorkerStep, Select, Begin, Charge, Sign, Read, Act, Produce, Finish, Refuse, Throw, Crash, Catch
<1>3. Deploy => UNCHANGED payload
  BY DEF Deploy
<1>4. ASSUME NEW t \in Transfers, Classify(t) \/ Reevaluate(t) PROVE UNCHANGED payload
  BY <1>4 DEF Classify, Reevaluate
<1>5. ASSUME NEW b \in Attempts, Expire(b) \/ Lapse(b) PROVE UNCHANGED payload
  BY <1>5 DEF Expire, Lapse
<1>6. ASSUME NEW p \in Publications, RegisterElsewhere(p) PROVE UNCHANGED payload
  BY <1>6 DEF RegisterElsewhere, MoveTx
<1>7. ASSUME NEW x \in Txs, Mine(x) \/ Deepen(x) \/ Drop(x) \/ Reorganise(x) PROVE UNCHANGED payload
  BY <1>7 DEF Mine, Deepen, Drop, Reorganise, MoveTx
<1>8. Subjects \subseteq Txs
  BY DEF Txs
<1> QED BY <1>1, <1>2, <1>3, <1>4, <1>5, <1>6, <1>7, <1>8 DEF Next

(* The turn is of one row, which neither is prepared nor has a live lease. *)
LEMMA SelectIs ==
    ASSUME RowsOK, RestOK, NEW w \in Workers, Select(w)
    PROVE  \E a \in Attempts :
              /\ work[a].status # "prepared" /\ ~work[a].live
              /\ work'[a].status = "leased"
              /\ \A b \in Attempts \ {a} :
                    \/ work'[b] = work[b]
                    \/ /\ work[b].status = "absent" /\ ~work[b].live
                       /\ work'[b].status = "queued"
<1>1. PICK a \in Turn :
         work' = [Inserted EXCEPT ![a] = [@ EXCEPT !.status = "leased", !.holder = w, !.live = TRUE]]
  BY DEF Select
<1>2. a \in Attempts /\ Inserted[a].status \in {"queued", "leased"} /\ ~Inserted[a].live
      /\ Inserted[a] \in Rows
  BY TurnIs, InsertedIs DEF RowFits
<1>3. \A b \in Attempts : work[b].status = "absent" => ~work[b].live
  BY DEF RowsOK, RowFits
<1>4. work[a].status # "prepared" /\ ~work[a].live
  BY <1>2, <1>3, InsertedIs
<1>5. work'[a].status = "leased" /\ \A b \in Attempts \ {a} : work'[b] = Inserted[b]
  <2>1. Inserted = [b \in Attempts |-> Inserted[b]] /\ DOMAIN Inserted = Attempts
    BY DEF Inserted
  <2>2. work'[a] = [Inserted[a] EXCEPT !.status = "leased", !.holder = w, !.live = TRUE]
    BY <1>1, <1>2, <2>1
  <2>3. \A b \in Attempts \ {a} : work'[b] = Inserted[b]
    BY <1>1, <1>2, <2>1
  <2>4. work'[a].status = "leased"
    BY <1>2, <2>2 DEF Rows
  <2> QED BY <2>3, <2>4
<1>6. \A b \in Attempts \ {a} : \/ work'[b] = work[b]
                                \/ work[b].status = "absent" /\ work'[b].status = "queued"
  BY <1>5, InsertedIs
<1> QED BY <1>2, <1>3, <1>4, <1>5, <1>6

(* A row that is prepared is left alone by everybody, and a new one is of a  *)
(* payload that is there.                                                    *)
LEMMA PreparedChange ==
    ASSUME WorkersAt, RowsOK, RestOK, PreparedIsQueued, Next, NEW a \in Attempts
    PROVE  /\ work[a].status = "prepared" => work'[a] = work[a]
           /\ work'[a].status = "prepared" => payload[a] # None
<1>0. work[a].status = "prepared" => payload[a] # None
  BY DEF PreparedIsQueued
<1>1. CASE UNCHANGED rows
  BY <1>0, <1>1 DEF rows
<1>2. ASSUME NEW w \in Workers, Select(w)
      PROVE  /\ work[a].status = "prepared" => work'[a] = work[a]
             /\ work'[a].status = "prepared" => work[a].status = "prepared"
  BY <1>2, SelectIs
<1>3. ASSUME NEW w \in Workers, GiveBack(w)
      PROVE  /\ work[a].status = "prepared" => work'[a] = work[a]
             /\ work'[a].status = "prepared" => payload[a] # None
  <2>1. PICK status \in {"queued", "prepared"} :
            work' = Returned(Job(w), status) /\ (status = "prepared" => payload[Job(w)] # None)
    BY <1>3 DEF GiveBack
  <2>2. /\ Job(w) \in Attempts /\ work[Job(w)].status = "leased"
        /\ UNCHANGED <<fresh, older>>
    BY <1>3 DEF GiveBack, RowsOK, RowFits
  <2>3. work'[Job(w)].status = status /\ \A b \in Attempts : b # Job(w) => work'[b] = work[b]
    BY <2>1, <2>2, ReturnedIs
  <2> QED BY <1>0, <2>1, <2>2, <2>3
<1>4. ASSUME NEW b \in Attempts, Lapse(b)
      PROVE  /\ work[a].status = "prepared" => work'[a] = work[a]
             /\ work'[a].status = "prepared" => work[a].status = "prepared"
  <2>1. work[b].status = "leased" /\ work[b] \in Rows
    BY <1>4 DEF Lapse, RowsOK, RowFits
  <2>2. work'[b] = [work[b] EXCEPT !.live = FALSE] /\ \A c \in Attempts : c # b => work'[c] = work[c]
    BY <1>4, LapseIs
  <2>3. work'[b].status = "leased"
    BY <2>1, <2>2 DEF Rows
  <2> QED BY <2>1, <2>2, <2>3
<1> QED BY <1>0, <1>1, <1>2, <1>3, <1>4, RowsChange

LEMMA PreparedStep ==
    ASSUME WorkersAt, RowsOK, RestOK, PreparedIsQueued, Next
    PROVE  PreparedIsQueued'
<1> SUFFICES ASSUME NEW a \in Attempts, work'[a].status = "prepared" PROVE payload'[a] # None
  BY DEF PreparedIsQueued
<1>1. payload[a] # None
  BY PreparedChange
<1> QED BY <1>1, PayloadChange

----------------------------------------------------------------------------
(* The invariant *)

LEMMA InvInit == Init => IInv
<1> SUFFICES ASSUME Init PROVE IInv
  OBVIOUS
<1>1. WorkersAt
  BY NothingIs DEF Init, WorkersAt, Places
<1>2. NoRow \in Rows /\ RowFits(NoRow)
  BY FundedAssumption DEF NoRow, Rows, RowFits, Workers
<1>3. RowsOK
  BY <1>2 DEF Init, RowsOK, Checked, NoRow
<1>4. RestOK
  BY FundedAssumption DEF Init, RestOK, Workers
<1>5. PaidOnce
  BY DEF Init, PaidOnce, Payers
<1>6. PreparedIsQueued
  BY DEF Init, PreparedIsQueued, NoRow
<1> QED BY <1>1, <1>3, <1>4, <1>5, <1>6 DEF IInv

LEMMA InvStep == IInv /\ [Next]_vars => IInv'
<1>1. ASSUME IInv, Next PROVE IInv'
  BY <1>1, WorkersStep, RowsStep, RestStep, PaidStep, PreparedStep DEF IInv
<1>2. ASSUME IInv, UNCHANGED vars PROVE IInv'
  BY <1>2 DEF vars, rows, deposits, IInv, WorkersAt, RowsOK, Checked, RestOK, PaidOnce, Payers, PreparedIsQueued
<1> QED BY <1>1, <1>2

LEMMA InvAlways == Spec => []IInv
  BY InvInit, InvStep, PTL DEF Spec

(* The variables of FundedWork keep their types: a row names its payment and  *)
(* its holder exactly when it has one, and the rows that were checked are in   *)
(* one order (the columns of receiving_funded_work_v4).                       *)
THEOREM TypeCorrect == Spec => []TypeOK
<1>1. IInv => TypeOK
  BY DEF IInv, WorkersAt, RowsOK, RowFits, RestOK, TypeOK, Places, Locals, Rows, At
<1> QED BY <1>1, InvAlways, PTL

(* For any number of attempts that share a publication, workers that overlap,  *)
(* lapses and crashes: at most one of them is charged for the publication, and *)
(* nothing is signed for it before one was (costs and request of              *)
(* receiving-runtime-v4.ts).                                                  *)
THEOREM PaidByOne == Spec => []PublicationPaidOnce
<1>1. ASSUME PaidOnce PROVE PublicationPaidOnce
  <2> SUFFICES ASSUME NEW p \in Publications
               PROVE  /\ Cardinality(Payers(p)) <= 1
                      /\ <<"publication", p>> \in signed => Payers(p) # {}
    BY DEF PublicationPaidOnce, Payers
  <2>1. CASE Payers(p) = {}
    BY <1>1, <2>1, FS_EmptySet DEF PaidOnce
  <2>2. ASSUME NEW a \in Payers(p) PROVE Cardinality(Payers(p)) <= 1
    <3>1. \A b \in Payers(p) : b = a
      BY <1>1 DEF PaidOnce
    <3>2. Payers(p) = {a}
      BY <3>1, Zenon
    <3> QED BY <3>2, FS_Singleton
  <2> QED BY <1>1, <2>1, <2>2 DEF PaidOnce
<1> QED BY <1>1, InvAlways, PTL DEF IInv

(* No step of a worker ends the live lease of another: a stale worker finds   *)
(* that the row no longer has its token (every UPDATE of runOnce).            *)
THEOREM LeasesAreFenced == Spec => LeaseEndsByHolder
<1> DEFINE Ended(a) ==
      work[a].live /\ work'[a] # work[a] =>
         \/ work'[a] = [work[a] EXCEPT !.live = FALSE]
         \/ my[work[a].holder].job = a /\ pc'[work[a].holder] = "idle"
<1>1. ASSUME IInv, Next, NEW a \in Attempts PROVE Ended(a)
  <2> USE <1>1 DEF IInv
  <2>1. CASE UNCHANGED rows
    BY <2>1 DEF rows
  <2>2. ASSUME NEW w \in Workers, Select(w), work[a].live PROVE work'[a] = work[a]
    BY <2>2, SelectIs
  <2>3. ASSUME NEW w \in Workers, GiveBack(w) PROVE Ended(a)
    <3>1. work[Job(w)].holder = w /\ Goto(w, "idle", Nothing) /\ my[w].job = Job(w)
      BY <2>3 DEF GiveBack, Job
    <3>2. pc'[w] = "idle"
      BY <3>1 DEF Goto, WorkersAt
    <3>3. \A b \in Attempts : b # Job(w) => work'[b] = work[b]
      <4>1. Job(w) \in Attempts /\ work[Job(w)].status # "absent"
        BY <2>3 DEF GiveBack, RowsOK, RowFits
      <4> QED BY <2>3, <4>1, ReturnedIs DEF GiveBack
    <3> QED BY <3>1, <3>2, <3>3
  <2>4. ASSUME NEW b \in Attempts, Lapse(b) PROVE Ended(a)
    BY <2>4, LapseIs
  <2> QED BY <2>1, <2>2, <2>3, <2>4, RowsChange
<1>2. IInv /\ [Next]_vars => [\A a \in Attempts : Ended(a)]_vars
  BY <1>1
<1> QED BY <1>2, InvAlways, PTL DEF Spec, LeaseEndsByHolder

(* A queued payload is final, whatever the workers that lost their leases      *)
(* still insert (ON CONFLICT DO NOTHING), and so is a row that is prepared,    *)
(* which is always of an attempt with a payload.                              *)
THEOREM PayloadIsFinal == Spec => PayloadNeverChanges
<1> DEFINE Final(a) ==
      /\ payload[a] # None => payload'[a] = payload[a]
      /\ work[a].status = "prepared" => payload[a] # None /\ work'[a] = work[a]
<1>1. ASSUME IInv, Next, NEW a \in Attempts PROVE Final(a)
  BY <1>1, PayloadChange, PreparedChange DEF IInv, PreparedIsQueued
<1>2. IInv /\ [Next]_vars => [\A a \in Attempts : Final(a)]_vars
  BY <1>1
<1> QED BY <1>2, InvAlways, PTL DEF Spec, PayloadNeverChanges

----------------------------------------------------------------------------
(* Deposits *)

(* In a transaction, whose transfers have different log indices, no transfer  *)
(* is booked twice whichever pairs a caller selects, and the pair the worker  *)
(* selects is the only one its forward is observed in: nobody can turn one    *)
(* payment into two by the order or the company of its transfers.             *)
THEOREM PairsAreDisjoint ==
    ASSUME NEW T, NEW master,
           \A t \in T : t.log \in Nat,
           \A t, u \in T : t.log = u.log => t = u
    PROVE  DistinctIn(T, master)
<1> DEFINE pairs == {p \in T \X T : Observable(T, master, p[1], p[2])}
<1>1. ASSUME NEW p \in pairs
      PROVE  /\ p[1] \in T /\ p[2] \in T /\ p = <<p[1], p[2]>>
             /\ Observable(T, master, p[1], p[2])
  OBVIOUS
<1> HIDE DEF pairs
<1>2. ASSUME NEW p \in pairs
      PROVE  /\ p[1].token = p[2].token /\ p[1].amount = p[2].amount
             /\ p[2].from = p[1].to /\ p[2].to = master /\ p[1].log < p[2].log
             /\ p[1].from # master
             /\ \A t \in T : ~Touches(t, p[1], p[2])
  BY <1>1, <1>2 DEF Observable, Unambiguous
<1>3. ASSUME NEW p \in pairs, NEW q \in pairs, p[1] = q[1] PROVE p[2] = q[2]
  <2>1. ~Touches(p[2], q[1], q[2]) /\ ~Touches(q[2], p[1], p[2])
    BY <1>1, <1>2
  <2>2. p[2].log = q[2].log
    BY <1>1, <1>2, <1>3, <2>1 DEF Touches
  <2> QED BY <1>1, <2>2
<1>4. ASSUME NEW p \in pairs, NEW q \in pairs, p[2] = q[2] PROVE p[1] = q[1]
  <2>1. ~Touches(p[1], q[1], q[2]) /\ ~Touches(q[1], p[1], p[2])
    BY <1>1, <1>2
  <2>2. p[1].log = q[1].log
    BY <1>1, <1>2, <1>4, <2>1 DEF Touches
  <2> QED BY <1>1, <2>2
<1>5. ASSUME NEW p \in pairs, NEW q \in Selected(T, master), p[2] = q[2] PROVE p = q
  <2>1. q = <<q[1], q[2]>> /\ Ingress(T, master, q[2]) = {q[1]}
    BY DEF Selected
  <2>2. ASSUME NEW e \in T, e.to = master, e.token = p[2].token, e.from = p[2].from, e.log < p[2].log
        PROVE  e.log < p[1].log
    <3>1. ~Touches(e, p[1], p[2])
      BY <1>2
    <3>2. ~(e.log > p[1].log)
      BY <1>2, <2>2, <3>1 DEF Touches
    <3>3. e # p[1]
      BY <1>2, <2>2
    <3>4. e.log # p[1].log
      BY <1>1, <3>3
    <3> QED BY <1>1, <3>2, <3>4
  <2>3. p[1] \in Ingress(T, master, p[2])
    BY <1>1, <1>2, <2>2 DEF Ingress
  <2> QED BY <1>1, <1>5, <2>1, <2>3
<1>6. \A p, q \in pairs : p = q \/ (p[1] # q[1] /\ p[2] # q[2])
  BY <1>1, <1>3, <1>4
<1> QED BY <1>2, <1>5, <1>6 DEF DistinctIn, pairs

(* What is booked only hardens, however the observations come: the payment    *)
(* that was recognised first is never replaced, and a review is never         *)
(* cleared (applyVirtualDepositObservation).                                 *)
THEOREM BookingOnlyHardens ==
    ASSUME NEW state, NEW o, state.review \in BOOLEAN,
           o.class \in {"wrong_token", "dust", "low", "exact", "high"}
    PROVE  LET next == ApplyVirtualDepositObservation(state, o)
           IN /\ state.canonical # NoPayment =>
                    next.canonical = state.canonical /\ next.status = state.status /\ next.review
              /\ state.review => next.review
<1>1. state.canonical # NoPayment => Match(state, o) = "duplicate_payment"
  BY DEF Match
<1> QED BY <1>1 DEF ApplyVirtualDepositObservation

----------------------------------------------------------------------------
(* Booking, observation by observation *)

LEMMA MaxOf ==
    ASSUME NEW S \in SUBSET Nat, NEW m \in S, \A x \in S : x <= m
    PROVE  Max(S) = m
<1> DEFINE highest == CHOOSE x \in S : \A y \in S : x >= y
<1>1. \E x \in S : \A y \in S : x >= y
  OBVIOUS
<1>2. highest \in S /\ \A y \in S : highest >= y
  BY <1>1
<1>3. highest = m
  <2>1. highest >= m /\ highest <= m /\ highest \in Nat /\ m \in Nat
    <3> HIDE DEF highest
    <3> QED BY <1>2
  <2> HIDE DEF highest
  <2> QED BY <2>1
<1> QED BY <1>3 DEF Max

(* FoldLeft is what one gets step by step, for a sequence of any length: the *)
(* function its definition chooses exists, by induction on the length.       *)
LEMMA BookedByStep ==
    ASSUME NEW n \in Nat, NEW seq, DOMAIN seq = 1..n
    PROVE  \E state : /\ state[0] = Awaiting /\ state[n] = Booked(seq)
                      /\ \A k \in 1..n : state[k] = ApplyVirtualDepositObservation(state[k - 1], seq[k])
<1> DEFINE Apply(state, k) == ApplyVirtualDepositObservation(state, seq[k])
           Iterates(m, g) == g = [s \in SUBSET (1..m) |->
                 IF s = {} THEN Awaiting ELSE Apply(g[s \ {Max(s)}], Max(s))]
           Without == {m \in Nat : ~ \E g : Iterates(m, g)}
           chosen == CHOOSE g : Iterates(n, g)
<1>1. Booked(seq) = chosen[1..n]
  BY DEF Booked, FoldLeft, MapThenFoldSet
<1> HIDE DEF Apply
<1>2. Without = {}
  <2> SUFFICES ASSUME Without # {} PROVE FALSE
    OBVIOUS
  <2>1. PICK m \in Without : \A y \in Without : <<y, m>> \notin OpToRel(<, Nat)
    <3>1. Without \in SUBSET Nat
      OBVIOUS
    <3> QED BY <3>1, WFMin, NatLessThanWellFounded
  <2>2. m \in Nat /\ \A y \in Nat : y < m => \E g : Iterates(y, g)
    BY <2>1 DEF OpToRel
  <2>3. CASE m = 0
    <3> DEFINE g == [s \in {{}} |-> Awaiting]
    <3>1. SUBSET (1..m) = {{}}
      BY <2>3
    <3>2. g = [s \in SUBSET (1..m) |-> IF s = {} THEN Awaiting ELSE Apply(g[s \ {Max(s)}], Max(s))]
      BY <3>1
    <3> QED BY <2>1, <3>2
  <2>4. CASE m # 0
    <3>1. m - 1 \in Nat /\ m - 1 < m /\ 1..m = (1..(m - 1)) \cup {m} /\ m \notin 1..(m - 1)
      BY <2>2, <2>4
    <3>2. PICK g : Iterates(m - 1, g)
      BY <2>2, <3>1
    <3>3. \A s \in SUBSET (1..(m - 1)) :
             g[s] = IF s = {} THEN Awaiting ELSE Apply(g[s \ {Max(s)}], Max(s))
      BY <3>2
    <3> DEFINE h == [s \in SUBSET (1..m) |-> IF m \in s THEN Apply(g[s \ {m}], m) ELSE g[s]]
    <3>4. \A s \in SUBSET (1..m) :
             h[s] = IF s = {} THEN Awaiting ELSE Apply(h[s \ {Max(s)}], Max(s))
      <4> SUFFICES ASSUME NEW s \in SUBSET (1..m)
                   PROVE  h[s] = IF s = {} THEN Awaiting ELSE Apply(h[s \ {Max(s)}], Max(s))
        OBVIOUS
      <4>1. CASE m \in s
        <5>1. Max(s) = m
          <6>1. s \in SUBSET Nat /\ \A x \in s : x <= m
            BY <2>2
          <6> QED BY <4>1, <6>1, MaxOf
        <5>2. s \ {m} \in SUBSET (1..m) /\ m \notin s \ {m}
          OBVIOUS
        <5>3. h[s \ {m}] = g[s \ {m}] /\ h[s] = Apply(g[s \ {m}], m)
          BY <4>1, <5>2
        <5> QED BY <4>1, <5>1, <5>3
      <4>2. CASE m \notin s
        <5>1. s \in SUBSET (1..(m - 1))
          BY <3>1, <4>2
        <5>2. s \ {Max(s)} \in SUBSET (1..m) /\ m \notin s \ {Max(s)}
          BY <4>2
        <5>3. h[s] = g[s] /\ h[s \ {Max(s)}] = g[s \ {Max(s)}]
          BY <4>2, <5>2
        <5> QED BY <3>3, <5>1, <5>3
      <4> QED BY <4>1, <4>2
    <3>5. Iterates(m, h)
      <4> DEFINE f == [s \in SUBSET (1..m) |->
                         IF s = {} THEN Awaiting ELSE Apply(h[s \ {Max(s)}], Max(s))]
      <4>1. h = f
        <5>1. DOMAIN h = DOMAIN f
          OBVIOUS
        <5>2. \A s \in SUBSET (1..m) : h[s] = f[s]
          BY <3>4
        <5> QED BY <5>1, <5>2, Zenon
      <4> QED BY <4>1
    <3> QED BY <2>1, <3>5
  <2> QED BY <2>3, <2>4
<1>3. Iterates(n, chosen)
  <2>1. \E g : Iterates(n, g)
    BY <1>2
  <2> HIDE DEF Iterates
  <2> QED BY <2>1, Zenon
<1> HIDE DEF chosen
<1>4. \A s \in SUBSET (1..n) :
         chosen[s] = IF s = {} THEN Awaiting ELSE Apply(chosen[s \ {Max(s)}], Max(s))
  BY <1>3
<1> DEFINE state == [k \in 0..n |-> chosen[1..k]]
<1>5. state[0] = Awaiting /\ state[n] = Booked(seq)
  <2>1. 1..0 = {} /\ 0 \in 0..n /\ n \in 0..n
    OBVIOUS
  <2>2. chosen[{}] = Awaiting
    BY <1>4
  <2> QED BY <1>1, <2>1, <2>2
<1>6. ASSUME NEW k \in 1..n PROVE state[k] = ApplyVirtualDepositObservation(state[k - 1], seq[k])
  <2>1. /\ 1..k \in SUBSET (1..n) /\ 1..k # {} /\ (1..k) \ {k} = 1..(k - 1)
        /\ k \in 0..n /\ k - 1 \in 0..n
    <3>1. k \in Nat /\ k >= 1 /\ k <= n /\ k - 1 \in Nat
      OBVIOUS
    <3>2. 1..k \in SUBSET (1..n) /\ k \in 1..k
      BY <3>1
    <3>3. (1..k) \ {k} = 1..(k - 1)
      BY <3>1
    <3>4. k \in 0..n /\ k - 1 \in 0..n
      BY <3>1
    <3> QED BY <3>2, <3>3, <3>4
  <2>2. Max(1..k) = k
    <3>1. 1..k \in SUBSET Nat /\ k \in 1..k /\ \A x \in 1..k : x <= k
      OBVIOUS
    <3> QED BY <3>1, MaxOf
  <2>3. chosen[1..k] = Apply(chosen[1..(k - 1)], k)
    BY <1>4, <2>1, <2>2
  <2> QED BY <2>1, <2>3 DEF Apply
<1> HIDE DEF state
<1> QED BY <1>5, <1>6

(* What one more observation makes of an attempt. *)
LEMMA OneMoreObservation ==
    ASSUME NEW state, NEW o \in Observation, state.review \in BOOLEAN,
           NEW next, next = ApplyVirtualDepositObservation(state, o)
    PROVE  /\ state.canonical # NoPayment \/ state.review => next.review = TRUE
           /\ state.canonical = NoPayment /\ ~state.review =>
                    \/ /\ o.class = "dust"
                       /\ next.status = state.status /\ next.canonical = NoPayment
                       /\ next.review = FALSE
                    \/ /\ o.class = "exact" /\ ~o.late
                       /\ next.status = "payment_detected" /\ next.canonical # NoPayment
                       /\ next.review = FALSE
                    \/ /\ o.class # "dust" /\ ~(o.class = "exact" /\ ~o.late)
                       /\ next.review = TRUE
<1> DEFINE match == Match(state, o)
<1>1. o.class \in ObservationClasses /\ o.late \in BOOLEAN /\ o.id # NoPayment
  BY DEF Observation
<1>2. /\ next.status = CASE match = "exact" -> "payment_detected"
                         [] match \in {"duplicate_payment", "ignored_dust"} -> state.status
                         [] OTHER -> "manual_review"
      /\ next.canonical = IF match = "exact" THEN o.id ELSE state.canonical
      /\ next.review = (state.review \/ match \notin {"exact", "ignored_dust"})
  BY DEF ApplyVirtualDepositObservation
<1>3. state.canonical # NoPayment => match = "duplicate_payment"
  BY DEF Match
<1>4. state.canonical = NoPayment => /\ match = "ignored_dust" <=> o.class = "dust"
                                     /\ match = "exact" <=> o.class = "exact" /\ ~o.late
  BY <1>1 DEF Match, ObservationClasses
<1> HIDE DEF match
<1>5. state.canonical # NoPayment \/ state.review => next.review = TRUE
  BY <1>2, <1>3
<1>6. CASE state.canonical = NoPayment /\ ~state.review
  <2>1. CASE o.class = "dust"
    BY <1>2, <1>4, <1>6, <2>1
  <2>2. CASE o.class = "exact" /\ ~o.late
    BY <1>1, <1>2, <1>4, <1>6, <2>2
  <2>3. CASE o.class # "dust" /\ ~(o.class = "exact" /\ ~o.late)
    BY <1>2, <1>4, <1>6, <2>3
  <2> QED BY <1>5, <1>6, <2>1, <2>2, <2>3
<1> QED BY <1>5, <1>6

(* A payment stands without a review exactly if the observations were one exact *)
(* payment in time, nothing but dust before it and nothing after it: for every *)
(* sequence of observations of any length (applyVirtualDepositObservation).    *)
THEOREM OnePaymentIsClean ==
    ASSUME NEW observations \in Seq(Observation)
    PROVE  CleanIn(observations)
<1> DEFINE n == Len(observations)
<1>0. n \in Nat /\ DOMAIN observations = 1..n /\ \A k \in 1..n : observations[k] \in Observation
  OBVIOUS
<1> HIDE DEF n
<1>1. PICK state : /\ state[0] = Awaiting /\ state[n] = Booked(observations)
                   /\ \A k \in 1..n : state[k] = ApplyVirtualDepositObservation(state[k - 1], observations[k])
  BY <1>0, BookedByStep
<1> DEFINE Dusty(k) == \A j \in 1..k : observations[j].class = "dust"
           Clean(k) == /\ k > 0 /\ observations[k].class = "exact" /\ ~observations[k].late
                       /\ Dusty(k - 1)
           Stands(k) == \/ /\ Dusty(k) /\ ~Clean(k)
                           /\ state[k].status = "awaiting_payment"
                           /\ state[k].canonical = NoPayment /\ state[k].review = FALSE
                        \/ /\ ~Dusty(k) /\ Clean(k)
                           /\ state[k].status = "payment_detected"
                           /\ state[k].canonical # NoPayment /\ state[k].review = FALSE
                        \/ /\ ~Dusty(k) /\ ~Clean(k)
                           /\ state[k].review = TRUE
           Wrong == {k \in 0..n : ~Stands(k)}
<1>2. Wrong = {}
  <2> SUFFICES ASSUME Wrong # {} PROVE FALSE
    OBVIOUS
  <2>1. PICK m \in Wrong : \A y \in Wrong : <<y, m>> \notin OpToRel(<, Nat)
    <3>1. Wrong \in SUBSET Nat
      BY <1>0
    <3> HIDE DEF Wrong
    <3> QED BY <3>1, WFMin, NatLessThanWellFounded
  <2>2. m \in 0..n /\ ~Stands(m) /\ \A y \in 0..n : y < m => Stands(y)
    <3> HIDE DEF Stands
    <3>1. m \in 0..n /\ m \in Nat /\ ~Stands(m)
      BY <1>0
    <3>2. ASSUME NEW y \in 0..n, y < m PROVE Stands(y)
      <4>1. y \in Nat
        BY <1>0
      <4>2. <<y, m>> \in OpToRel(<, Nat)
        BY <3>1, <3>2, <4>1 DEF OpToRel
      <4> QED BY <2>1, <4>2
    <3> QED BY <3>1, <3>2
  <2>3. CASE m = 0
    <3>1. Dusty(0) /\ ~Clean(0)
      OBVIOUS
    <3>2. state[0].status = "awaiting_payment" /\ state[0].canonical = NoPayment /\ state[0].review = FALSE
      BY <1>1 DEF Awaiting
    <3> HIDE DEF Dusty, Clean
    <3> QED BY <2>2, <2>3, <3>1, <3>2
  <2>4. CASE m # 0
    <3> DEFINE o == observations[m]
    <3>1. m \in 1..n /\ m - 1 \in 0..n /\ m - 1 < m /\ m > 0
      BY <1>0, <2>2, <2>4
    <3>2. /\ o \in Observation
          /\ state[m] = ApplyVirtualDepositObservation(state[m - 1], o)
          /\ Stands(m - 1)
      <4> HIDE DEF Stands
      <4> QED BY <1>0, <1>1, <2>2, <3>1
    <3>3. /\ Dusty(m) <=> Dusty(m - 1) /\ o.class = "dust"
          /\ Clean(m) <=> o.class = "exact" /\ ~o.late /\ Dusty(m - 1)
          /\ Clean(m - 1) => ~Dusty(m - 1)
      <4>1. \A j : j \in 1..m <=> j \in 1..(m - 1) \/ j = m
        BY <1>0, <3>1
      <4>2. Dusty(m) <=> Dusty(m - 1) /\ o.class = "dust"
        BY <4>1
      <4>3. Clean(m) <=> o.class = "exact" /\ ~o.late /\ Dusty(m - 1)
        BY <3>1
      <4>4. Clean(m - 1) => ~Dusty(m - 1)
        <5>1. m - 1 > 0 => m - 1 \in 1..(m - 1)
          BY <3>1
        <5> QED BY <5>1
      <4> QED BY <4>2, <4>3, <4>4
    <3> HIDE DEF Dusty, Clean, o
    <3>4. state[m - 1].review \in BOOLEAN
      BY <3>2
    <3> QED BY <3>4, <2>2, <3>2, <3>3, OneMoreObservation
  <2> QED BY <2>3, <2>4
<1>3. Stands(n)
  <2> HIDE DEF Stands
  <2> QED BY <1>0, <1>2
<1>4. (state[n].status = "payment_detected" /\ ~state[n].review) <=> Clean(n)
  <2> HIDE DEF Dusty, Clean
  <2> QED BY <1>3
<1> QED BY <1>1, <1>4 DEF CleanIn, n

(* On every transaction the chain may hold, of any size.                      *)
THEOREM DepositsDistinct == Spec => []DepositsAreDistinct
<1>1. DepositsAreDistinct
  <2>1. ASSUME NEW T \in Transactions PROVE DistinctIn(T, Master)
    BY TransactionsAssumption, PairsAreDisjoint
  <2> QED BY <2>1 DEF DepositsAreDistinct, AllDistinct
<1> QED BY <1>1, PTL

(* Whatever is observed of an attempt, however often and in whatever order.   *)
THEOREM CleanPaymentSingle == Spec => []CleanPaymentIsSingle
<1>1. CleanPaymentIsSingle
  <2>1. ASSUME NEW observations \in Bookings PROVE CleanIn(observations)
    BY BookingsAssumption, OnePaymentIsClean
  <2> QED BY <2>1 DEF CleanPaymentIsSingle, AllClean
<1> QED BY <1>1, PTL
=============================================================================
