-------------------------- MODULE LegacyRelayProofs --------------------------
(***************************************************************************)
(* Theorems about the legacy and PoolV3 relay with its reconciler, for any  *)
(* bundles, payloads, workers and bounds: what the two sets in memory say   *)
(* is so, what the archive says is so, and no submitted legacy transaction  *)
(* is forgotten.  And about the schedules of FeeSchedules, under which the  *)
(* relayed proofs are made and judged, for every price and policy.          *)
(***************************************************************************)
EXTENDS RelaySchedules, TLAPS

(* The nullifiers of a bundle. *)
LEMMA NotesAre ==
    ASSUME NEW b \in Bundles
    PROVE  /\ NotesOf[b] \in Seq(Nullifiers) /\ NotesOf[b] # <<>>
           /\ Note(b) \in Notes(b) /\ Notes(b) \subseteq Nullifiers
           /\ b \in Legacy => Notes(b) = {Note(b)}
<1>1. NotesOf[b] \in Seq(Nullifiers) /\ NotesOf[b] # <<>>
  <2>1. NotesOf[b] \in Seq(Nullifiers)
    BY BundlesAssumption
  <2>2. Len(NotesOf[b]) = 1 \/ NotesOf[b] # <<>>
    BY BundlesAssumption DEF Bundles
  <2>3. Len(NotesOf[b]) = 1 => NotesOf[b] # <<>>
    OBVIOUS
  <2> QED BY <2>1, <2>2, <2>3
<1>2. DOMAIN NotesOf[b] = 1..Len(NotesOf[b]) /\ Len(NotesOf[b]) \in Nat \ {0}
  BY <1>1
<1>3. Note(b) \in Notes(b) /\ Notes(b) \subseteq Nullifiers
  BY <1>1, <1>2 DEF Note, Notes, Range
<1>4. ASSUME b \in Legacy PROVE Notes(b) = {Note(b)}
  <2>0. Len(NotesOf[b]) = 1
    BY <1>4, BundlesAssumption
  <2>1. DOMAIN NotesOf[b] = {1}
    BY <1>2, <2>0
  <2> QED BY <2>1 DEF Note, Notes, Range
<1> QED BY <1>1, <1>3, <1>4

LEMMA NoTxIsNone == NoTx \notin Txs
  BY DEF NoTx, Txs

----------------------------------------------------------------------------
(* The inductive invariant *)

(* A transaction carries its bundle for good, and one that was sent again at *)
(* another price was mined as that.                                          *)
TxInv ==
    \A h \in Txs :
        /\ tx[h].state # "unused" => tx[h].bundle \in Bundles
        /\ tx[h].state = "repriced" =>
              /\ tx[h].by \in Txs
              /\ tx[tx[h].by].state \in {"success", "failed"}
              /\ tx[tx[h].by].bundle = tx[h].bundle

(* The locals m of a worker at place p, when t are the transactions: the     *)
(* bundle is set from the mark to the finally clause, the hash from the      *)
(* submission on, and it is that of a transaction for this bundle.           *)
Places == {"idle", "take", "check", "send", "wait", "persist"}
Locals == [rest : Seq(Bundles), bundle : Bundles \cup {NoBundle},
           attempt : 0..RetryLimit, hash : Txs \cup {NoTx}, timer : BOOLEAN]

At(p, m, t) ==
    /\ p \in Places /\ m \in Locals
    /\ p \notin {"idle", "take"} => m.bundle \in Bundles
    /\ p = "wait" => m.hash \in Txs
    /\ p = "persist" => m.bundle \in Legacy
    /\ p \in {"idle", "take"} => m.bundle = NoBundle
    /\ p \in {"idle", "take", "check", "send"} => m.hash = NoTx
    /\ m.hash # NoTx => t[m.hash].state # "unused" /\ t[m.hash].bundle = m.bundle

WorkersAt ==
    /\ pc \in [Workers -> Places] /\ job \in [Workers -> Locals]
    /\ \A w \in Workers : At(pc[w], job[w], tx)

(* A stored execution with a hash is that of a legacy transaction. *)
IsFor(key) == key[1] = "submitted" => tx[key[2]].state # "unused" /\ tx[key[2]].bundle \in Legacy

(* What a resolution claims. *)
Truly(key, verdict) ==
    /\ verdict \in {"confirmed_success", "external_success_without_receipt"} => NoteOf(key) \in Spent
    /\ verdict = "confirmed_failure" => Receipt(key) = "failed"
    /\ verdict = "pre_submit_terminal_failure" => key[1] = "nullifier"

StoreInv ==
    /\ \A key \in pending : IsFor(key)
    /\ \A key \in Keys : archive[key] # "none" => IsFor(key) /\ Truly(key, archive[key])

(* The reconciler is alone: what it has read and not yet resolved is still   *)
(* there, and what it has decided is so.                                     *)
RecInv ==
    /\ rec.todo \subseteq pending
    /\ rec.place = "archive" => rec.key \notin rec.todo /\ Truly(rec.key, rec.verdict)

IInv == TypeOK /\ WorkersAt /\ TxInv /\ StoreInv /\ RecInv /\ MarksAreTrue /\ NoSubmissionForgotten

----------------------------------------------------------------------------
(* The chain *)

(* What any step leaves of the transactions. *)
Carries(t, t2) ==
    \A h \in Txs :
        /\ t[h].state # "unused" => t2[h].state # "unused" /\ t2[h].bundle = t[h].bundle
        /\ t[h].state \in {"success", "failed"} => t2[h].state = t[h].state
        /\ t2[h].state = "mempool" => t[h].state \in {"unused", "mempool"}

TxRecords == [state : {"unused", "mempool", "success", "failed", "replaced", "repriced"},
              bundle : Bundles \cup {NoBundle}, by : Txs \cup {NoTx}]

LEMMA SendIs ==
    ASSUME TypeOK, NEW w \in Workers, Send(w)
    PROVE  \/ tx' = tx
           \/ \E h \in Txs : /\ tx[h].state = "unused"
                             /\ tx' = [tx EXCEPT ![h] = [state |-> "mempool", bundle |-> job[w].bundle, by |-> NoTx]]
  BY DEF Send

LEMMA TxOnly ==
    ASSUME Next
    PROVE  \/ UNCHANGED tx
           \/ \E w \in Workers : Send(w)
           \/ \E h \in Txs : Mine(h) \/ Replace(h)
<1>1. ASSUME NEW w \in Workers, WorkerStep(w), ~Send(w) PROVE UNCHANGED tx
  BY <1>1 DEF WorkerStep, Take, Check, Refuse, Throw, Await, Persist, chain
<1>2. ASSUME NEW w \in Workers, NEW p \in Payloads, Deliver(w, p) PROVE UNCHANGED tx
  BY <1>2 DEF Deliver, chain
<1>3. ASSUME NEW w \in Workers, NEW b \in Legacy, NEW n \in 1..RetryLimit, Fire(w, b, n) PROVE UNCHANGED tx
  BY <1>3 DEF Fire, chain
<1>4. ReconcilerStep \/ AbortPass \/ Crash => UNCHANGED tx
  BY DEF ReconcilerStep, StartPass, EndPass, Archive, Inspect, AbortPass, Crash, chain
<1>5. ASSUME NEW n \in Nullifiers, SpendElsewhere(n) PROVE UNCHANGED tx
  BY <1>5 DEF SpendElsewhere
<1> QED BY <1>1, <1>2, <1>3, <1>4, <1>5 DEF Next

LEMMA ForeignGrows == Next => foreign \subseteq foreign'
<1>1. ASSUME NEW w \in Workers, WorkerStep(w) PROVE UNCHANGED foreign
  BY <1>1 DEF WorkerStep, Take, Check, Refuse, Throw, Send, Await, Persist, chain
<1>2. ASSUME NEW w \in Workers, NEW p \in Payloads, Deliver(w, p) PROVE UNCHANGED foreign
  BY <1>2 DEF Deliver, chain
<1>3. ASSUME NEW w \in Workers, NEW b \in Legacy, NEW n \in 1..RetryLimit, Fire(w, b, n) PROVE UNCHANGED foreign
  BY <1>3 DEF Fire, chain
<1>4. ReconcilerStep \/ AbortPass \/ Crash => UNCHANGED foreign
  BY DEF ReconcilerStep, StartPass, EndPass, Archive, Inspect, AbortPass, Crash, chain
<1>5. ASSUME NEW n \in Nullifiers, SpendElsewhere(n) PROVE foreign \subseteq foreign'
  BY <1>5 DEF SpendElsewhere
<1>6. ASSUME NEW h \in Txs, Mine(h) \/ Replace(h) PROVE UNCHANGED foreign
  BY <1>6 DEF Mine, Replace
<1> QED BY <1>1, <1>2, <1>3, <1>4, <1>5, <1>6 DEF Next

(* A transaction that was not used is used, and any other goes its way. *)
LEMMA TxStep ==
    ASSUME TypeOK, TxInv, WorkersAt, Next
    PROVE  tx' \in [Txs -> TxRecords] /\ TxInv' /\ Carries(tx, tx')
<1>0. tx \in [Txs -> TxRecords]
  BY DEF TypeOK, TxRecords
<1>1. CASE UNCHANGED tx
  BY <1>0, <1>1 DEF TxInv, Carries
<1>2. ASSUME NEW w \in Workers, Send(w), tx' # tx
      PROVE  tx' \in [Txs -> TxRecords] /\ TxInv' /\ Carries(tx, tx')
  <2>1. PICK h \in Txs :
            /\ tx[h].state = "unused"
            /\ tx' = [tx EXCEPT ![h] = [state |-> "mempool", bundle |-> job[w].bundle, by |-> NoTx]]
    BY <1>2, SendIs
  <2>2. job[w].bundle \in Bundles
    BY <1>2 DEF Send, WorkersAt, At
  <2>3. /\ tx'[h] = [state |-> "mempool", bundle |-> job[w].bundle, by |-> NoTx]
        /\ \A i \in Txs : i # h => tx'[i] = tx[i]
    BY <1>0, <2>1
  <2>4. tx' \in [Txs -> TxRecords]
    BY <1>0, <2>1, <2>2 DEF TxRecords
  <2>5. Carries(tx, tx')
    BY <2>1, <2>3 DEF Carries
  <2>6. TxInv'
    BY <2>1, <2>2, <2>3 DEF TxInv
  <2> QED BY <2>4, <2>5, <2>6
<1>3. ASSUME NEW h \in Txs, Mine(h)
      PROVE  tx' \in [Txs -> TxRecords] /\ TxInv' /\ Carries(tx, tx')
  <2>1. PICK outcome \in {"success", "failed"} : tx' = [tx EXCEPT ![h].state = outcome]
    BY <1>3 DEF Mine, Outcomes
  <2>2. tx[h].state = "mempool"
    BY <1>3 DEF Mine
  <2>3. /\ tx'[h].state = outcome /\ tx'[h].bundle = tx[h].bundle /\ tx'[h].by = tx[h].by
        /\ \A i \in Txs : i # h => tx'[i] = tx[i]
    BY <1>0, <2>1 DEF TxRecords
  <2>4. tx' \in [Txs -> TxRecords]
    BY <1>0, <2>1 DEF TxRecords
  <2>5. Carries(tx, tx')
    BY <2>2, <2>3 DEF Carries
  <2>6. TxInv'
    BY <2>2, <2>3 DEF TxInv
  <2> QED BY <2>4, <2>5, <2>6
<1>4. ASSUME NEW h \in Txs, Replace(h)
      PROVE  tx' \in [Txs -> TxRecords] /\ TxInv' /\ Carries(tx, tx')
  <2>1. tx[h].state = "mempool" /\ tx[h].bundle \in Bundles
    BY <1>4 DEF Replace, TxInv
  <2>2. CASE tx' = [tx EXCEPT ![h].state = "replaced"]
    <3>1. /\ tx'[h].state = "replaced" /\ tx'[h].bundle = tx[h].bundle
          /\ \A i \in Txs : i # h => tx'[i] = tx[i]
      BY <1>0, <2>2 DEF TxRecords
    <3>2. tx' \in [Txs -> TxRecords]
      BY <1>0, <2>2 DEF TxRecords
    <3>3. Carries(tx, tx')
      BY <2>1, <3>1 DEF Carries
    <3>4. TxInv'
      BY <2>1, <3>1 DEF TxInv
    <3> QED BY <3>2, <3>3, <3>4
  <2>3. ASSUME NEW g \in Txs, NEW outcome \in {"success", "failed"}, tx[g].state = "unused",
               tx' = [tx EXCEPT ![h].state = "repriced", ![h].by = g,
                          ![g] = [state |-> outcome, bundle |-> tx[h].bundle, by |-> NoTx]]
        PROVE  tx' \in [Txs -> TxRecords] /\ TxInv' /\ Carries(tx, tx')
    <3>0. g # h
      BY <2>1, <2>3
    <3> DEFINE th == [[tx[h] EXCEPT !.state = "repriced"] EXCEPT !.by = g]
               tg == [state |-> outcome, bundle |-> tx[h].bundle, by |-> NoTx]
    <3>1. tx'[h] = th /\ tx'[g] = tg /\ DOMAIN tx' = Txs
          /\ \A i \in Txs : i # h /\ i # g => tx'[i] = tx[i]
      BY <1>0, <2>3, <3>0
    <3>2. th \in TxRecords /\ th.state = "repriced" /\ th.by = g /\ th.bundle = tx[h].bundle
      BY <1>0 DEF TxRecords
    <3>3. tg \in TxRecords /\ tg.state = outcome /\ tg.bundle = tx[h].bundle
      BY <2>1 DEF TxRecords
    <3> HIDE DEF th, tg
    <3>4. tx' \in [Txs -> TxRecords]
      <4>1. \A i \in Txs : tx'[i] \in TxRecords
        BY <1>0, <3>1, <3>2, <3>3
      <4>2. tx' = [i \in Txs |-> tx'[i]]
        BY <1>0, <2>3
      <4> QED BY <4>1, <4>2
    <3>5. Carries(tx, tx')
      BY <2>1, <2>3, <3>0, <3>1, <3>2, <3>3 DEF Carries
    <3>6. TxInv'
      <4> SUFFICES ASSUME NEW i \in Txs
                   PROVE  /\ tx'[i].state # "unused" => tx'[i].bundle \in Bundles
                          /\ tx'[i].state = "repriced" =>
                               /\ tx'[i].by \in Txs
                               /\ tx'[tx'[i].by].state \in {"success", "failed"}
                               /\ tx'[tx'[i].by].bundle = tx'[i].bundle
        BY DEF TxInv
      <4>1. CASE i = h
        BY <2>1, <3>1, <3>2, <3>3, <4>1
      <4>2. CASE i = g
        BY <2>1, <3>1, <3>3, <4>2
      <4>3. CASE i # h /\ i # g
        BY <2>1, <2>3, <3>1, <4>3 DEF TxInv
      <4> QED BY <4>1, <4>2, <4>3
    <3> QED BY <3>4, <3>5, <3>6
  <2>4. Outcomes(tx[h].bundle) \subseteq {"success", "failed"}
    BY DEF Outcomes
  <2> QED BY <1>4, <2>2, <2>3, <2>4 DEF Replace
<1> QED BY <1>1, <1>2, <1>3, <1>4, TxOnly

LEMMA SpentGrows ==
    ASSUME TypeOK, TxInv, WorkersAt, Next
    PROVE  Spent \subseteq Spent'
<1>1. foreign \subseteq foreign'
  BY ForeignGrows
<1>2. \A h \in Txs : tx[h].state = "success" => tx'[h].state = "success" /\ tx'[h].bundle = tx[h].bundle
  BY TxStep DEF Carries
<1> QED BY <1>1, <1>2 DEF Spent

----------------------------------------------------------------------------
(* The workers *)

Sent(h) == tx[h].state = "mempool" /\ tx[h].bundle \in Legacy

(* What a step of w keeps: its locals fit its place, a mark it drops is its  *)
(* own, and a legacy transaction it stops awaiting is stored or lost.        *)
Orderly(w, p, m) ==
    /\ At(p, m, tx')
    /\ inFlight' \subseteq inFlight \cup (IF m.bundle = NoBundle THEN {} ELSE {Key(m.bundle)})
    /\ job[w].bundle \in {NoBundle, m.bundle} \/ Key(job[w].bundle) \notin inFlight'
    /\ (pc[w] \in {"wait", "persist"} /\ job[w].hash \in Txs \ lost' /\ Sent(job[w].hash)) =>
          \/ p \in {"wait", "persist"} /\ m.hash = job[w].hash
          \/ <<"submitted", job[w].hash>> \in pending'

Moves(w) == \E p, m : Goto(w, p, m) /\ Orderly(w, p, m)

LEMMA MovesIs ==
    ASSUME NEW w, NEW p, NEW m, Goto(w, p, m), Orderly(w, p, m)
    PROVE  Moves(w)
  BY DEF Moves

LEMMA AtGrows ==
    ASSUME NEW p, NEW m, NEW t, NEW t2, At(p, m, t), Carries(t, t2)
    PROVE  At(p, m, t2)
<1>1. m.hash # NoTx => m.hash \in Txs
  BY DEF At, Locals
<1> QED BY <1>1 DEF At, Carries

LEMMA GotoIs ==
    ASSUME WorkersAt, NEW w \in Workers, NEW p, NEW m, Goto(w, p, m)
    PROVE  /\ pc'[w] = p /\ job'[w] = m
           /\ \A v \in Workers : v # w => pc'[v] = pc[v] /\ job'[v] = job[v]
           /\ pc' = [pc EXCEPT ![w] = p] /\ job' = [job EXCEPT ![w] = m]
  BY DEF WorkersAt, Goto

LEMMA MoveKeepsAt ==
    ASSUME WorkersAt, NEW w \in Workers, Moves(w), Carries(tx, tx')
    PROVE  WorkersAt'
<1>1. PICK p, m : Goto(w, p, m) /\ Orderly(w, p, m)
  BY DEF Moves
<1>2. At(p, m, tx')
  BY <1>1 DEF Orderly
<1>3. /\ pc'[w] = p /\ job'[w] = m
      /\ \A v \in Workers : v # w => pc'[v] = pc[v] /\ job'[v] = job[v]
      /\ pc' = [pc EXCEPT ![w] = p] /\ job' = [job EXCEPT ![w] = m]
  BY <1>1, GotoIs
<1>4. p \in Places /\ m \in Locals
  BY <1>2 DEF At
<1>5. pc' \in [Workers -> Places] /\ job' \in [Workers -> Locals]
  BY <1>3, <1>4 DEF WorkersAt
<1>6. ASSUME NEW v \in Workers PROVE At(pc'[v], job'[v], tx')
  <2>1. CASE v = w
    BY <1>2, <1>3, <2>1
  <2>2. CASE v # w
    <3>1. At(pc[v], job[v], tx)
      BY DEF WorkersAt
    <3>2. At(pc[v], job[v], tx')
      BY <3>1, AtGrows
    <3> QED BY <1>3, <2>2, <3>2
  <2> QED BY <2>1, <2>2
<1> QED BY <1>5, <1>6 DEF WorkersAt

(* The mark of an activation that runs. *)
Marked(k) == \E w \in Workers : job[w].bundle # NoBundle /\ Key(job[w].bundle) = k

LEMMA MoveKeepsMarks ==
    ASSUME WorkersAt, NEW w \in Workers, Moves(w), \A k \in inFlight : Marked(k), NEW k \in inFlight'
    PROVE  Marked(k)'
<1>1. PICK p, m : Goto(w, p, m) /\ Orderly(w, p, m)
  BY DEF Moves
<1>2. /\ job'[w] = m
      /\ \A v \in Workers : v # w => job'[v] = job[v]
  BY <1>1, GotoIs
<1>3. CASE k \notin inFlight
  BY <1>1, <1>2, <1>3 DEF Orderly, Marked
<1>4. CASE k \in inFlight
  <2>1. PICK v \in Workers : job[v].bundle # NoBundle /\ Key(job[v].bundle) = k
    BY <1>4 DEF Marked
  <2>2. CASE v # w
    BY <1>2, <2>1, <2>2 DEF Marked
  <2>3. CASE v = w
    <3>1. m.bundle = job[w].bundle
      BY <1>1, <2>1, <2>3 DEF Orderly
    <3> QED BY <1>2, <2>1, <2>3, <3>1 DEF Marked
  <2> QED BY <2>2, <2>3
<1> QED BY <1>3, <1>4

(* The locals of an activation between two bundles. *)
LEMMA FreshIs ==
    ASSUME NEW rest \in Seq(Bundles), NEW timer \in BOOLEAN
    PROVE  LET m == [NoJob EXCEPT !.rest = rest, !.timer = timer]
               n == [NoJob EXCEPT !.rest = rest]
           IN  /\ m \in Locals /\ m.bundle = NoBundle /\ m.hash = NoTx
               /\ n \in Locals /\ n.bundle = NoBundle /\ n.hash = NoTx
<1>1. 0 \in 0..RetryLimit
  BY BoundsAssumption
<1>2. NoJob \in Locals
  <2>1. <<>> \in Seq(Bundles) /\ NoTx \in Txs \cup {NoTx} /\ NoBundle \in Bundles \cup {NoBundle}
    OBVIOUS
  <2> QED BY <1>1, <2>1 DEF Locals, NoJob
<1>3. NoJob.bundle = NoBundle /\ NoJob.hash = NoTx
  BY DEF NoJob
<1> QED BY <1>2, <1>3 DEF Locals

(* The end of a bundle: the finally clause. *)
LEMMA DoneMoves ==
    ASSUME WorkersAt, NEW w \in Workers, Done(w), pc[w] \notin {"idle", "take"},
           (pc[w] \in {"wait", "persist"} /\ job[w].hash \in Txs \ lost' /\ Sent(job[w].hash))
              => <<"submitted", job[w].hash>> \in pending'
    PROVE  Moves(w)
<1> DEFINE m == [NoJob EXCEPT !.rest = job[w].rest, !.timer = job[w].timer]
<1>1. At(pc[w], job[w], tx)
  BY DEF WorkersAt
<1>2. m \in Locals /\ m.bundle = NoBundle /\ m.hash = NoTx
  <2>1. job[w].rest \in Seq(Bundles) /\ job[w].timer \in BOOLEAN
    BY <1>1 DEF At, Locals
  <2> QED BY <2>1, FreshIs
<1>3. Goto(w, "take", m) /\ inFlight' = inFlight \ {Key(job[w].bundle)}
  BY DEF Done
<1> HIDE DEF m
<1>4. At("take", m, tx')
  BY <1>2 DEF At, Places
<1>5. Orderly(w, "take", m)
  BY <1>2, <1>3, <1>4 DEF Orderly
<1> QED BY <1>3, <1>5, MovesIs

(* The worker goes on with the same bundle. *)
LEMMA GoesOn ==
    ASSUME WorkersAt, NEW w \in Workers, NEW p \in Places, NEW m, Goto(w, p, m), UNCHANGED inFlight,
           At(p, m, tx'), job[w].bundle \in {NoBundle, m.bundle},
           pc[w] \in {"wait", "persist"} => p \in {"wait", "persist"} /\ m.hash = job[w].hash
    PROVE  Moves(w)
<1>1. Orderly(w, p, m)
  BY DEF Orderly
<1> QED BY <1>1, MovesIs

LEMMA DeliverMoves ==
    ASSUME TypeOK, WorkersAt, NEW w \in Workers, NEW payload \in Payloads, Deliver(w, payload)
    PROVE  Moves(w)
<1> DEFINE m == [NoJob EXCEPT !.rest = payload]
<1>1. pc[w] = "idle" /\ job[w].bundle = NoBundle
  BY DEF WorkersAt, At, Deliver
<1>2. m \in Locals /\ m.bundle = NoBundle /\ m.hash = NoTx
  <2>1. payload \in Seq(Bundles)
    BY BoundsAssumption
  <2> QED BY <2>1, FreshIs
<1>3. Goto(w, "take", m) /\ UNCHANGED inFlight
  BY DEF Deliver
<1> HIDE DEF m
<1>4. At("take", m, tx') /\ "take" \in Places
  BY <1>2 DEF At, Places
<1> QED BY <1>1, <1>3, <1>4, GoesOn

LEMMA FireMoves ==
    ASSUME TypeOK, WorkersAt, NEW w \in Workers, NEW b \in Legacy, NEW n \in 1..RetryLimit, Fire(w, b, n)
    PROVE  Moves(w)
<1> DEFINE m == [NoJob EXCEPT !.rest = <<b>>, !.attempt = n, !.timer = TRUE]
<1>1. pc[w] = "idle" /\ job[w].bundle = NoBundle
  BY DEF WorkersAt, At, Fire
<1>2. <<b>> \in Seq(Bundles) /\ n \in 0..RetryLimit
  BY BoundsAssumption DEF Bundles
<1>3. m \in Locals /\ m.bundle = NoBundle /\ m.hash = NoTx
  BY <1>2 DEF Locals, NoJob
<1>4. Goto(w, "take", m) /\ UNCHANGED inFlight
  BY DEF Fire
<1> HIDE DEF m
<1>5. At("take", m, tx') /\ "take" \in Places
  BY <1>3 DEF At, Places
<1> QED BY <1>1, <1>4, <1>5, GoesOn

LEMMA TakeMoves ==
    ASSUME TypeOK, WorkersAt, NEW w \in Workers, Take(w)
    PROVE  Moves(w)
<1> DEFINE b == Head(job[w].rest)
           next == [job[w] EXCEPT !.rest = Tail(@)]
           m == [next EXCEPT !.bundle = b]
<1>1. At("take", job[w], tx) /\ pc[w] = "take" /\ job[w].bundle = NoBundle
  BY DEF WorkersAt, At, Take
<1>2. CASE job[w].rest = <<>>
  <2>1. Goto(w, "idle", NoJob) /\ UNCHANGED inFlight
    BY <1>2 DEF Take
  <2>2. At("idle", NoJob, tx')
    BY BoundsAssumption DEF At, Places, NoJob, Locals
  <2> QED BY <1>1, <2>1, <2>2, GoesOn DEF Places
<1>3. CASE job[w].rest # <<>>
  <2>1. job[w].rest \in Seq(Bundles) /\ job[w] \in Locals /\ job[w].hash = NoTx
    BY <1>1 DEF At, Locals
  <2>2. b \in Bundles /\ Tail(job[w].rest) \in Seq(Bundles)
    BY <1>3, <2>1
  <2>3. next \in Locals /\ next.bundle = NoBundle /\ next.hash = NoTx
    BY <1>1, <2>1, <2>2 DEF Locals
  <2>4. m \in Locals /\ m.bundle = b /\ m.hash = NoTx
    BY <2>1, <2>2 DEF Locals
  <2>5. \/ Goto(w, "take", next) /\ inFlight' \subseteq inFlight
        \/ Goto(w, "check", m) /\ inFlight' = inFlight \cup {Key(b)}
    BY <1>3 DEF Take
  <2> HIDE DEF next, m, b
  <2>6. At("take", next, tx') /\ At("check", m, tx')
    BY <2>2, <2>3, <2>4, BundlesAssumption DEF At, Places
  <2>7. CASE Goto(w, "take", next) /\ inFlight' \subseteq inFlight
    <3>1. Orderly(w, "take", next)
      BY <1>1, <2>3, <2>6, <2>7 DEF Orderly
    <3> QED BY <2>7, <3>1, MovesIs
  <2>8. CASE Goto(w, "check", m) /\ inFlight' = inFlight \cup {Key(b)}
    <3>1. m.bundle # NoBundle
      BY <2>2, <2>4, BundlesAssumption
    <3>2. Orderly(w, "check", m)
      BY <1>1, <2>4, <2>6, <2>8, <3>1 DEF Orderly
    <3> QED BY <2>8, <3>2, MovesIs
  <2> QED BY <2>5, <2>7, <2>8
<1> QED BY <1>2, <1>3

LEMMA CheckMoves ==
    ASSUME TypeOK, WorkersAt, NEW w \in Workers, Check(w) \/ Refuse(w)
    PROVE  Moves(w)
<1>1. pc[w] = "check" /\ At("check", job[w], tx) /\ UNCHANGED tx
  BY DEF WorkersAt, Check, Refuse, chain
<1>2. CASE Done(w)
  BY <1>1, <1>2, DoneMoves
<1>3. CASE Goto(w, "send", job[w]) /\ UNCHANGED inFlight
  <2>1. At("send", job[w], tx')
    BY <1>1 DEF At, Places
  <2> QED BY <1>1, <1>3, <2>1, GoesOn DEF Places
<1> QED BY <1>2, <1>3 DEF Check, Refuse

(* The catch block before a hash is known. *)
LEMMA CatchMoves ==
    ASSUME TypeOK, WorkersAt, NEW w \in Workers, pc[w] \in {"check", "send"}, Catch(w)
    PROVE  Moves(w)
<1>1. At(pc[w], job[w], tx) /\ job[w].hash = NoTx
  BY DEF WorkersAt, At
<1>2. CASE Done(w)
  BY <1>2, DoneMoves
<1>3. CASE IsLegacy(w) /\ Goto(w, "persist", job[w]) /\ UNCHANGED inFlight
  <2>1. At("persist", job[w], tx')
    BY <1>1, <1>3 DEF At, Places, IsLegacy
  <2> QED BY <1>3, <2>1, GoesOn DEF Places
<1> QED BY <1>2, <1>3 DEF Catch, GiveUpOrRetry

LEMMA SendMoves ==
    ASSUME TypeOK, WorkersAt, NEW w \in Workers, Send(w)
    PROVE  Moves(w)
<1>1. pc[w] = "send" /\ At("send", job[w], tx)
  BY DEF WorkersAt, Send
<1>2. CASE Done(w)
  BY <1>1, <1>2, DoneMoves
<1>3. ASSUME NEW h \in Txs, tx[h].state = "unused",
             tx' = [tx EXCEPT ![h] = [state |-> "mempool", bundle |-> job[w].bundle, by |-> NoTx]],
             Goto(w, "wait", [job[w] EXCEPT !.hash = h]) /\ UNCHANGED inFlight
      PROVE  Moves(w)
  <2> DEFINE m == [job[w] EXCEPT !.hash = h]
  <2>1. m \in Locals /\ m.bundle = job[w].bundle /\ m.hash = h
    BY <1>1 DEF At, Locals
  <2>2. tx'[h].state = "mempool" /\ tx'[h].bundle = job[w].bundle
    BY <1>3 DEF TypeOK
  <2>3. Goto(w, "wait", m)
    BY <1>3
  <2> HIDE DEF m
  <2>4. At("wait", m, tx')
    BY <1>1, <2>1, <2>2 DEF At, Places
  <2> QED BY <1>1, <1>3, <2>1, <2>3, <2>4, GoesOn DEF Places
<1>4. CASE Catch(w)
  BY <1>1, <1>4, CatchMoves
<1> QED BY <1>2, <1>3, <1>4 DEF Send

LEMMA AwaitMoves ==
    ASSUME TypeOK, WorkersAt, NEW w \in Workers, Await(w)
    PROVE  Moves(w)
<1>1. pc[w] = "wait" /\ At("wait", job[w], tx) /\ UNCHANGED <<tx, lost, pending>>
  BY DEF WorkersAt, Await, chain, store
<1>2. job[w].hash \in Txs /\ tx[job[w].hash].bundle = job[w].bundle
  BY <1>1, NoTxIsNone DEF At
<1>3. ASSUME Landed(job[w].hash) \/ Reverted(job[w].hash) PROVE ~Sent(job[w].hash)
  BY <1>3 DEF Landed, Reverted, Mined, Sent
<1>4. tx[job[w].hash].state = "replaced" => ~Sent(job[w].hash)
  BY DEF Sent
<1>5. ~IsLegacy(w) => ~Sent(job[w].hash)
  BY <1>2 DEF IsLegacy, Sent
<1>6. CASE Done(w) /\ ~Sent(job[w].hash)
  BY <1>1, <1>6, DoneMoves
<1>7. CASE IsLegacy(w) /\ Goto(w, "persist", job[w]) /\ UNCHANGED inFlight
  <2>1. At("persist", job[w], tx')
    BY <1>1, <1>7 DEF At, Places, IsLegacy
  <2> QED BY <1>7, <2>1, GoesOn DEF Places
<1> QED BY <1>3, <1>4, <1>5, <1>6, <1>7 DEF Await

LEMMA PersistMoves ==
    ASSUME TypeOK, WorkersAt, NEW w \in Workers, Persist(w)
    PROVE  Moves(w) \/ Die
<1>1. pc[w] = "persist" /\ At("persist", job[w], tx) /\ UNCHANGED tx
  BY DEF WorkersAt, Persist, chain
<1>2. CASE pending' = pending \cup {PersistenceKey(w)} /\ Done(w)
  <2>1. job[w].hash \in Txs => PersistenceKey(w) = <<"submitted", job[w].hash>>
    BY NoTxIsNone DEF PersistenceKey
  <2> QED BY <1>1, <1>2, <2>1, DoneMoves
<1>3. CASE /\ Goto(w, "idle", NoJob)
           /\ inFlight' = inFlight \ {Key(job[w].bundle)}
           /\ lost' = lost \cup ({job[w].hash} \ {NoTx})
  <2>1. At("idle", NoJob, tx')
    BY BoundsAssumption DEF At, Places, NoJob, Locals
  <2>2. job[w].hash \in Txs => job[w].hash \in lost'
    BY <1>3, NoTxIsNone
  <2>3. Orderly(w, "idle", NoJob)
    BY <1>1, <1>3, <2>1, <2>2 DEF Orderly, NoJob
  <2> QED BY <1>3, <2>3, MovesIs
<1> QED BY <1>2, <1>3 DEF Persist

(* Every step of a worker is orderly, but for the end of the process. *)
LEMMA WorkerMoves ==
    ASSUME TypeOK, WorkersAt, NEW w \in Workers,
           \/ WorkerStep(w)
           \/ \E p \in Payloads : Deliver(w, p)
           \/ \E b \in Legacy, n \in 1..RetryLimit : Fire(w, b, n)
    PROVE  Moves(w) \/ Die
<1>1. ASSUME Throw(w) PROVE Moves(w)
  BY <1>1, CatchMoves DEF Throw
<1> QED BY <1>1, DeliverMoves, FireMoves, TakeMoves, CheckMoves, SendMoves, AwaitMoves, PersistMoves
        DEF WorkerStep

(* The end of the process. *)
LEMMA DieAt ==
    ASSUME Die
    PROVE  WorkersAt'
<1>1. At("idle", NoJob, tx')
  <2>1. NoJob \in Locals
    BY BoundsAssumption DEF NoJob, Locals
  <2> QED BY <2>1 DEF At, Places, NoJob
<1>2. pc' = [w \in Workers |-> "idle"] /\ job' = [w \in Workers |-> NoJob]
  BY DEF Die
<1>3. NoJob \in Locals
  BY <1>1 DEF At
<1>4. pc' \in [Workers -> Places] /\ job' \in [Workers -> Locals]
  BY <1>2, <1>3 DEF Places
<1>5. \A w \in Workers : At(pc'[w], job'[w], tx')
  BY <1>1, <1>2
<1> QED BY <1>4, <1>5 DEF WorkersAt

LEMMA RestKeepsAt ==
    ASSUME WorkersAt, UNCHANGED <<pc, job>>, Carries(tx, tx')
    PROVE  WorkersAt'
<1>1. ASSUME NEW w \in Workers PROVE At(pc[w], job[w], tx')
  <2>1. At(pc[w], job[w], tx)
    BY DEF WorkersAt
  <2> QED BY <2>1, AtGrows
<1>2. pc' = pc /\ job' = job
  OBVIOUS
<1>3. pc' \in [Workers -> Places] /\ job' \in [Workers -> Locals]
  BY <1>2 DEF WorkersAt
<1>4. \A w \in Workers : At(pc'[w], job'[w], tx')
  BY <1>1, <1>2
<1> QED BY <1>3, <1>4 DEF WorkersAt

(* What a step does to the workers. *)
LEMMA ThreeKinds ==
    ASSUME TypeOK, WorkersAt, Next
    PROVE  \/ \E w \in Workers : Moves(w)
           \/ Die
           \/ UNCHANGED memory
<1>1. ReconcilerStep \/ AbortPass => UNCHANGED memory
  BY DEF ReconcilerStep, StartPass, EndPass, Archive, Inspect, AbortPass
<1>2. ASSUME NEW h \in Txs, Mine(h) \/ Replace(h) PROVE UNCHANGED memory
  BY <1>2 DEF Mine, Replace
<1>3. ASSUME NEW n \in Nullifiers, SpendElsewhere(n) PROVE UNCHANGED memory
  BY <1>3 DEF SpendElsewhere
<1>4. Crash => Die
  BY DEF Crash
<1> QED BY <1>1, <1>2, <1>3, <1>4, WorkerMoves DEF Next

LEMMA WorkersStep ==
    ASSUME TypeOK, WorkersAt, TxInv, Next
    PROVE  WorkersAt'
<1>1. Carries(tx, tx')
  BY TxStep
<1>2. UNCHANGED memory => UNCHANGED <<pc, job>>
  BY DEF memory
<1> QED BY <1>1, <1>2, ThreeKinds, MoveKeepsAt, DieAt, RestKeepsAt

----------------------------------------------------------------------------
(* What is kept in memory *)

LEMMA MarksStep ==
    ASSUME TypeOK, WorkersAt, Next, \A k \in inFlight : Marked(k)
    PROVE  (\A k \in inFlight : Marked(k))'
<1> SUFFICES ASSUME NEW k \in inFlight' PROVE Marked(k)'
  OBVIOUS
<1>1. ASSUME NEW w \in Workers, Moves(w) PROVE Marked(k)'
  BY <1>1, MoveKeepsMarks
<1>2. CASE Die
  BY <1>2 DEF Die
<1>3. CASE UNCHANGED memory
  BY <1>3 DEF memory, Marked
<1> QED BY <1>1, <1>2, <1>3, ThreeKinds

LEMMA MarksFit ==
    ASSUME TypeOK, WorkersAt, Next
    PROVE  inFlight' \subseteq {Key(b) : b \in Bundles}
<1>1. ASSUME NEW w \in Workers, Moves(w) PROVE inFlight' \subseteq {Key(b) : b \in Bundles}
  <2>1. PICK p, m : Goto(w, p, m) /\ Orderly(w, p, m)
    BY <1>1 DEF Moves
  <2>2. m.bundle \in Bundles \cup {NoBundle}
    BY <2>1 DEF Orderly, At, Locals
  <2>3. inFlight' \subseteq inFlight \cup (IF m.bundle = NoBundle THEN {} ELSE {Key(m.bundle)})
    BY <2>1 DEF Orderly
  <2> QED BY <2>2, <2>3 DEF TypeOK
<1>2. CASE Die
  BY <1>2 DEF Die
<1>3. CASE UNCHANGED memory
  BY <1>3 DEF memory, TypeOK
<1> QED BY <1>1, <1>2, <1>3, ThreeKinds

(* A nullifier is added to seen when the pool says that it is spent, or when *)
(* the receipt of the withdrawal has succeeded, or, for a PoolV3 bundle,     *)
(* when whatever took its nonce has.                                         *)
SeenFrom(w) ==
    /\ seen' = seen \cup Notes(job[w].bundle)
    /\ \/ pc[w] = "check" /\ job[w].bundle \in Legacy /\ Notes(job[w].bundle) \cap Spent # {}
       \/ pc[w] = "wait" /\ Landed(job[w].hash) /\ ~(IsLegacy(w) /\ tx[job[w].hash].state = "replaced")

LEMMA SeenChanges ==
    ASSUME Next
    PROVE  \/ seen' \subseteq seen
           \/ \E w \in Workers : SeenFrom(w)
<1>1. ASSUME NEW w \in Workers, Check(w) \/ Await(w)
      PROVE  UNCHANGED seen \/ SeenFrom(w)
  BY <1>1 DEF Check, Await, SeenFrom
<1>2. ASSUME NEW w \in Workers, Take(w) \/ Refuse(w) \/ Throw(w) \/ Send(w)
      PROVE  UNCHANGED seen
  BY <1>2 DEF Take, Refuse, Throw, Send
<1>3. ASSUME NEW w \in Workers, Persist(w) PROVE seen' \subseteq seen
  BY <1>3 DEF Persist, Die
<1>4. ASSUME NEW w \in Workers, NEW p \in Payloads, Deliver(w, p) PROVE UNCHANGED seen
  BY <1>4 DEF Deliver
<1>5. ASSUME NEW w \in Workers, NEW b \in Legacy, NEW n \in 1..RetryLimit, Fire(w, b, n) PROVE UNCHANGED seen
  BY <1>5 DEF Fire
<1>6. ReconcilerStep \/ AbortPass => UNCHANGED seen
  BY DEF ReconcilerStep, StartPass, EndPass, Archive, Inspect, AbortPass, memory
<1>7. Crash => seen' \subseteq seen
  BY DEF Crash, Die
<1>8. ASSUME NEW h \in Txs, Mine(h) \/ Replace(h) PROVE UNCHANGED seen
  BY <1>8 DEF Mine, Replace, memory
<1>9. ASSUME NEW n \in Nullifiers, SpendElsewhere(n) PROVE UNCHANGED seen
  BY <1>9 DEF SpendElsewhere, memory
<1> QED BY <1>1, <1>2, <1>3, <1>4, <1>5, <1>6, <1>7, <1>8, <1>9 DEF Next, WorkerStep

(* A withdrawal that landed for a legacy worker spent its nullifier. *)
LEMMA LandedIsSpent ==
    ASSUME WorkersAt, TxInv, NEW w \in Workers, pc[w] = "wait", Landed(job[w].hash),
           job[w].bundle \in Legacy, tx[job[w].hash].state # "replaced"
    PROVE  Notes(job[w].bundle) \subseteq Spent
<1> DEFINE h == job[w].hash
           g == Mined(h)
<1>1. At("wait", job[w], tx)
  BY DEF WorkersAt
<1>2. h \in Txs /\ tx[h].bundle = job[w].bundle /\ tx[h].state # "unused"
  BY <1>1, NoTxIsNone DEF At
<1>3. g \in Txs /\ tx[g].bundle = job[w].bundle /\ tx[g].state = "success"
  BY <1>2 DEF Mined, Landed, TxInv
<1> QED BY <1>3 DEF Spent

LEMMA SeenStep ==
    ASSUME TypeOK, WorkersAt, TxInv, Next, seen \cap LegacyNotes \subseteq Spent
    PROVE  seen' \subseteq Nullifiers /\ seen' \cap LegacyNotes \subseteq Spent'
<1>1. Spent \subseteq Spent'
  BY SpentGrows
<1>2. ASSUME NEW w \in Workers, SeenFrom(w)
      PROVE  seen' \subseteq Nullifiers /\ seen' \cap LegacyNotes \subseteq Spent
  <2>1. job[w].bundle \in Bundles /\ seen' = seen \cup Notes(job[w].bundle)
    BY <1>2 DEF WorkersAt, At, SeenFrom
  <2>2. Notes(job[w].bundle) \subseteq Nullifiers
    BY <2>1, NotesAre
  <2>3. CASE job[w].bundle \in Legacy
    <3>1. Notes(job[w].bundle) = {Note(job[w].bundle)}
      BY <2>1, <2>3, NotesAre
    <3>2. Notes(job[w].bundle) \subseteq Spent
      BY <1>2, <2>3, <3>1, LandedIsSpent DEF SeenFrom, IsLegacy
    <3> QED BY <2>1, <2>2, <3>2 DEF TypeOK
  <2>4. CASE job[w].bundle \in V3
    <3>1. ASSUME NEW n \in LegacyNotes PROVE n \notin Notes(job[w].bundle)
      <4>1. PICK b \in Legacy : n = Note(b)
        BY DEF LegacyNotes
      <4>2. n \in Notes(b)
        BY <4>1, NotesAre DEF Bundles
      <4> QED BY <2>4, <4>2, PoolsAssumption
    <3> QED BY <2>1, <2>2, <3>1 DEF TypeOK
  <2> QED BY <2>1, <2>3, <2>4 DEF Bundles
<1> QED BY <1>1, <1>2, SeenChanges DEF TypeOK

----------------------------------------------------------------------------
(* What is stored and archived *)

LEMMA KeysAre ==
    ASSUME NEW key \in Keys
    PROVE  \/ key[1] = "nullifier" /\ key[2] \in LegacyNotes
           \/ key[1] = "submitted" /\ key[2] \in Txs
  BY DEF Keys

(* What is so of a stored execution stays so. *)
LEMMA StaysFor ==
    ASSUME NEW key \in Keys, IsFor(key), Carries(tx, tx')
    PROVE  IsFor(key)' /\ NoteOf(key)' = NoteOf(key)
<1>1. CASE key[1] = "nullifier"
  BY <1>1 DEF IsFor, NoteOf
<1>2. CASE key[1] = "submitted" /\ key[2] \in Txs
  <2>1. tx'[key[2]].state # "unused" /\ tx'[key[2]].bundle = tx[key[2]].bundle
    BY <1>2 DEF IsFor, Carries
  <2> QED BY <1>2, <2>1 DEF IsFor, NoteOf
<1> QED BY <1>1, <1>2, KeysAre

LEMMA StaysTrue ==
    ASSUME NEW key \in Keys, NEW verdict, IsFor(key), Truly(key, verdict),
           Carries(tx, tx'), Spent \subseteq Spent'
    PROVE  Truly(key, verdict)'
<1>1. NoteOf(key)' = NoteOf(key)
  BY StaysFor
<1>2. Receipt(key) = "failed" => Receipt(key)' = "failed"
  BY KeysAre DEF Receipt, Carries
<1> QED BY <1>1, <1>2 DEF Truly

(* The verdicts of resolveRecord are what the chain says. *)
LEMMA DecideIs ==
    ASSUME TypeOK, NEW key \in Keys, NEW verdict \in Resolutions, Decide(key, verdict)
    PROVE  /\ rec'.place = "archive" /\ rec'.key = key /\ rec'.verdict = verdict
           /\ rec'.todo = rec.todo \ {key}
  BY DEF Decide, TypeOK

LEMMA KeepIs ==
    ASSUME TypeOK, NEW key \in Keys, Keep(key)
    PROVE  /\ rec'.place = rec.place /\ rec'.key = rec.key /\ rec'.verdict = rec.verdict
           /\ rec'.todo = rec.todo \ {key}
  BY DEF Keep, TypeOK

LEMMA InspectIs ==
    ASSUME TypeOK, TxInv, NEW key \in Keys, IsFor(key), Inspect(key)
    PROVE  \/ \E verdict \in Resolutions : Decide(key, verdict) /\ Truly(key, verdict)
           \/ Keep(key)
<1>1. CASE Receipt(key) = "success" /\ Decide(key, "confirmed_success")
  <2>1. key[1] = "submitted" /\ key[2] \in Txs /\ tx[key[2]].state = "success"
    BY <1>1, KeysAre DEF Receipt
  <2>2. tx[key[2]].bundle \in Bundles
    BY <2>1 DEF TxInv
  <2>3. Note(tx[key[2]].bundle) \in Notes(tx[key[2]].bundle)
    BY <2>2, NotesAre
  <2>4. NoteOf(key) \in Spent
    BY <2>1, <2>3 DEF NoteOf, Spent
  <2>5. Truly(key, "confirmed_success")
    BY <2>4 DEF Truly
  <2> QED BY <1>1, <2>5 DEF Resolutions
<1>2. CASE Receipt(key) = "failed" /\ Decide(key, "confirmed_failure")
  BY <1>2 DEF Truly, Resolutions
<1>3. CASE WithoutReceipt(key)
  BY <1>3 DEF WithoutReceipt, Truly, Resolutions
<1> QED BY <1>1, <1>2, <1>3 DEF Inspect

(* Only the workers add to the table, and only the reconciler takes from it. *)
LEMMA PersistIs ==
    ASSUME WorkersAt, NEW w \in Workers, Persist(w)
    PROVE  /\ pending \subseteq pending' /\ pending' \subseteq pending \cup {PersistenceKey(w)}
           /\ PersistenceKey(w) \in Keys /\ IsFor(PersistenceKey(w))
           /\ UNCHANGED <<archive, rec>>
<1>1. At("persist", job[w], tx)
  BY DEF WorkersAt, Persist
<1>2. /\ pending \subseteq pending' /\ pending' \subseteq pending \cup {PersistenceKey(w)}
      /\ UNCHANGED <<archive, rec>>
  BY DEF Persist
<1>3. CASE job[w].hash = NoTx
  <2>1. PersistenceKey(w) = <<"nullifier", Note(job[w].bundle)>> /\ Note(job[w].bundle) \in LegacyNotes
    BY <1>1, <1>3 DEF PersistenceKey, At, LegacyNotes
  <2>2. PersistenceKey(w)[1] # "submitted"
    BY <2>1
  <2> QED BY <1>2, <2>1, <2>2 DEF Keys, IsFor
<1>4. CASE job[w].hash # NoTx
  <2>1. PersistenceKey(w) = <<"submitted", job[w].hash>> /\ job[w].hash \in Txs
    BY <1>1, <1>4 DEF PersistenceKey, At, Locals
  <2>2. IsFor(PersistenceKey(w))
    BY <1>1, <1>4, <2>1 DEF IsFor, At
  <2> QED BY <1>2, <2>1, <2>2 DEF Keys
<1> QED BY <1>3, <1>4

LEMMA StoreChanges ==
    ASSUME Next
    PROVE  \/ UNCHANGED <<store, rec>>
           \/ \E w \in Workers : Persist(w)
           \/ ReconcilerStep \/ AbortPass
<1>1. ASSUME NEW w \in Workers, WorkerStep(w), ~Persist(w) PROVE UNCHANGED <<store, rec>>
  BY <1>1 DEF WorkerStep, Take, Check, Refuse, Throw, Send, Await
<1>2. ASSUME NEW w \in Workers, NEW p \in Payloads, Deliver(w, p) PROVE UNCHANGED <<store, rec>>
  BY <1>2 DEF Deliver
<1>3. ASSUME NEW w \in Workers, NEW b \in Legacy, NEW n \in 1..RetryLimit, Fire(w, b, n)
      PROVE  UNCHANGED <<store, rec>>
  BY <1>3 DEF Fire
<1>4. Crash => UNCHANGED <<store, rec>>
  BY DEF Crash
<1>5. ASSUME NEW h \in Txs, Mine(h) \/ Replace(h) PROVE UNCHANGED <<store, rec>>
  BY <1>5 DEF Mine, Replace
<1>6. ASSUME NEW n \in Nullifiers, SpendElsewhere(n) PROVE UNCHANGED <<store, rec>>
  BY <1>6 DEF SpendElsewhere
<1> QED BY <1>1, <1>2, <1>3, <1>4, <1>5, <1>6 DEF Next

(* The types of the table, the archive and the reconciler. *)
Passes == [place : {"off", "pass", "archive"}, todo : SUBSET Keys,
           key : Keys \cup {<<>>}, verdict : Resolutions \cup {"none"}]

StoreOK ==
    /\ pending \subseteq Keys /\ archive \in [Keys -> Resolutions \cup {"none"}]
    /\ rec \in Passes
    /\ rec.place = "archive" => rec.key \in pending /\ rec.verdict # "none"

(* What the reconciler's step r may be, when p are the pending executions. *)
RecFits(r, p) ==
    /\ r \in Passes /\ r.todo \subseteq p
    /\ r.place = "archive" => /\ r.key \in p /\ r.verdict # "none" /\ r.key \notin r.todo
                              /\ Truly(r.key, r.verdict)

LEMMA RestingFits == RecFits(Resting, pending)
  BY DEF RecFits, Passes, Resting

LEMMA InspectFits ==
    ASSUME TypeOK, TxInv, StoreInv, RecInv, NEW key \in Keys, Inspect(key)
    PROVE  RecFits(rec', pending) /\ UNCHANGED <<store, chain>>
<1>1. rec.place = "pass" /\ key \in rec.todo /\ UNCHANGED <<store, chain>>
  BY DEF Inspect
<1>2. IsFor(key) /\ key \in pending
  BY <1>1 DEF RecInv, StoreInv
<1>3. rec \in Passes
  BY DEF TypeOK, Passes
<1>4. ASSUME NEW verdict \in Resolutions, Decide(key, verdict), Truly(key, verdict)
      PROVE  RecFits(rec', pending)
  <2>1. /\ rec'.place = "archive" /\ rec'.key = key /\ rec'.verdict = verdict
        /\ rec'.todo = rec.todo \ {key}
    BY <1>4, DecideIs
  <2>2. rec' \in Passes
    BY <1>3, <1>4 DEF Decide, Passes
  <2>3. verdict # "none"
    BY DEF Resolutions
  <2> QED BY <1>2, <1>4, <2>1, <2>2, <2>3 DEF RecFits, RecInv
<1>5. CASE Keep(key)
  <2>1. rec'.place = "pass" /\ rec'.todo = rec.todo \ {key}
    BY <1>1, <1>5, KeepIs
  <2>2. rec' \in Passes
    BY <1>3, <1>5 DEF Keep, Passes
  <2> QED BY <1>1, <2>1, <2>2 DEF RecFits, RecInv
<1> QED BY <1>1, <1>2, <1>4, <1>5, InspectIs

(* What the step leaves is so now, and so it is afterwards. *)
LEMMA SoAfterwards ==
    ASSUME TypeOK, WorkersAt, TxInv, Next,
           pending' \subseteq Keys, archive' \in [Keys -> Resolutions \cup {"none"}],
           \A key \in pending' : IsFor(key),
           \A key \in Keys : archive'[key] # "none" => IsFor(key) /\ Truly(key, archive'[key]),
           RecFits(rec', pending')
    PROVE  StoreOK' /\ StoreInv' /\ RecInv'
<1>1. Carries(tx, tx') /\ Spent \subseteq Spent'
  BY TxStep, SpentGrows
<1>2. StoreOK'
  BY DEF StoreOK, RecFits
<1>3. \A key \in pending' : IsFor(key)'
  BY <1>1, StaysFor
<1>4. ASSUME NEW key \in Keys, archive'[key] # "none"
      PROVE  IsFor(key)' /\ Truly(key, archive[key])'
  <2>1. PICK v : v = archive'[key]
    OBVIOUS
  <2>2. IsFor(key) /\ Truly(key, v)
    BY <1>4, <2>1
  <2>3. IsFor(key)' /\ Truly(key, v)'
    BY <1>1, <2>2, StaysFor, StaysTrue
  <2> QED BY <2>1, <2>3 DEF Truly
<1>5. RecInv'
  <2>1. rec'.todo \subseteq pending'
    BY DEF RecFits
  <2>2. ASSUME rec'.place = "archive"
        PROVE  rec'.key \notin rec'.todo /\ Truly(rec.key, rec.verdict)'
    <3>1. PICK key, v : key = rec'.key /\ v = rec'.verdict
      OBVIOUS
    <3>2. key \in Keys /\ IsFor(key) /\ Truly(key, v) /\ rec'.key \notin rec'.todo
      BY <2>2, <3>1 DEF RecFits
    <3>3. Truly(key, v)'
      BY <1>1, <3>2, StaysTrue
    <3> QED BY <3>1, <3>2, <3>3 DEF Truly, NoteOf, Receipt
  <2> QED BY <2>1, <2>2 DEF RecInv
<1> QED BY <1>2, <1>3, <1>4, <1>5 DEF StoreInv

LEMMA StoreStep ==
    ASSUME TypeOK, WorkersAt, TxInv, StoreInv, RecInv, Next
    PROVE  StoreOK' /\ StoreInv' /\ RecInv'
<1>0. /\ pending \subseteq Keys /\ archive \in [Keys -> Resolutions \cup {"none"}] /\ rec \in Passes
      /\ RecFits(rec, pending)
  BY DEF TypeOK, Passes, RecFits, RecInv
<1>1. CASE UNCHANGED <<store, rec>>
  <2>1. UNCHANGED <<pending, archive, rec>>
    BY <1>1 DEF store
  <2> QED BY <1>0, <2>1, SoAfterwards DEF StoreInv
<1>2. ASSUME NEW w \in Workers, Persist(w) PROVE StoreOK' /\ StoreInv' /\ RecInv'
  <2>1. /\ pending \subseteq pending' /\ pending' \subseteq pending \cup {PersistenceKey(w)}
        /\ PersistenceKey(w) \in Keys /\ IsFor(PersistenceKey(w)) /\ archive' = archive /\ rec' = rec
    BY <1>2, PersistIs
  <2>2. pending' \subseteq Keys /\ \A key \in pending' : IsFor(key)
    BY <1>0, <2>1 DEF StoreInv
  <2>3. RecFits(rec', pending')
    BY <1>0, <2>1 DEF RecFits
  <2> QED BY <1>0, <2>1, <2>2, <2>3, SoAfterwards DEF StoreInv
<1>3. ASSUME RecFits(rec', pending), UNCHANGED store PROVE StoreOK' /\ StoreInv' /\ RecInv'
  <2>1. UNCHANGED <<pending, archive>>
    BY <1>3 DEF store
  <2> QED BY <1>0, <1>3, <2>1, SoAfterwards DEF StoreInv
<1>4. CASE StartPass
  <2> DEFINE r == [Resting EXCEPT !.place = "pass", !.todo = pending]
  <2>1. r \in Passes /\ r.place = "pass" /\ r.todo = pending
    BY <1>0 DEF Resting, Passes
  <2>2. rec' = r /\ UNCHANGED store
    BY <1>4 DEF StartPass
  <2> HIDE DEF r
  <2>3. RecFits(rec', pending)
    BY <2>1, <2>2 DEF RecFits
  <2> QED BY <1>3, <2>2, <2>3
<1>5. CASE EndPass \/ AbortPass
  <2>1. rec' = Resting /\ UNCHANGED store
    BY <1>5 DEF EndPass, AbortPass
  <2> QED BY <1>3, <2>1, RestingFits
<1>6. ASSUME NEW key \in Keys, Inspect(key) PROVE StoreOK' /\ StoreInv' /\ RecInv'
  BY <1>3, <1>6, InspectFits
<1>7. CASE Archive
  <2> DEFINE key == rec.key
             r == [Resting EXCEPT !.place = "pass", !.todo = rec.todo]
  <2>1. key \in pending /\ key \in Keys /\ rec.verdict \in Resolutions /\ key \notin rec.todo
        /\ rec.todo \subseteq pending /\ Truly(key, rec.verdict) /\ IsFor(key)
    BY <1>0, <1>7 DEF Archive, RecFits, Passes, StoreInv
  <2>2. /\ archive' = IF archive[key] = "none" THEN [archive EXCEPT ![key] = rec.verdict] ELSE archive
        /\ pending' = pending \ {key} /\ rec' = r
    BY <1>7 DEF Archive
  <2>3. r \in Passes /\ r.place = "pass" /\ r.todo = rec.todo
    BY <1>0 DEF Resting, Passes
  <2> HIDE DEF key, r
  <2>4. RecFits(rec', pending')
    BY <2>1, <2>2, <2>3 DEF RecFits
  <2>5. archive' \in [Keys -> Resolutions \cup {"none"}]
    BY <1>0, <2>1, <2>2
  <2>6. ASSUME NEW k \in Keys, archive'[k] # "none" PROVE IsFor(k) /\ Truly(k, archive'[k])
    BY <1>0, <2>1, <2>2, <2>6 DEF StoreInv
  <2>7. pending' \subseteq Keys /\ \A k \in pending' : IsFor(k)
    BY <1>0, <2>2 DEF StoreInv
  <2> QED BY <2>4, <2>5, <2>6, <2>7, SoAfterwards
<1> QED BY <1>1, <1>2, <1>4, <1>5, <1>6, <1>7, StoreChanges DEF ReconcilerStep

----------------------------------------------------------------------------
(* No submission is forgotten *)

(* A submission that is kept: awaited, stored, or in vain. *)
Held(h) ==
    \/ \E w \in Workers : pc[w] \in {"wait", "persist"} /\ job[w].hash = h
    \/ <<"submitted", h>> \in pending
    \/ Note(tx[h].bundle) \in Spent

LEMMA LostGrows == Next => lost \subseteq lost'
<1>1. ASSUME NEW w \in Workers, WorkerStep(w) PROVE lost \subseteq lost'
  BY <1>1 DEF WorkerStep, Take, Check, Refuse, Throw, Send, Await, Persist, Die
<1>2. ASSUME NEW w \in Workers, NEW p \in Payloads, Deliver(w, p) PROVE UNCHANGED lost
  BY <1>2 DEF Deliver
<1>3. ASSUME NEW w \in Workers, NEW b \in Legacy, NEW n \in 1..RetryLimit, Fire(w, b, n) PROVE UNCHANGED lost
  BY <1>3 DEF Fire
<1>4. ReconcilerStep \/ AbortPass => UNCHANGED lost
  BY DEF ReconcilerStep, StartPass, EndPass, Archive, Inspect, AbortPass
<1>5. Crash => lost \subseteq lost'
  BY DEF Crash, Die
<1>6. ASSUME NEW h \in Txs, Mine(h) \/ Replace(h) PROVE UNCHANGED lost
  BY <1>6 DEF Mine, Replace
<1>7. ASSUME NEW n \in Nullifiers, SpendElsewhere(n) PROVE UNCHANGED lost
  BY <1>7 DEF SpendElsewhere
<1> QED BY <1>1, <1>2, <1>3, <1>4, <1>5, <1>6, <1>7 DEF Next

(* A transaction comes into the world with a worker that awaits it, or its   *)
(* hash is lost with the answer.                                             *)
LEMMA NewIsHeld ==
    ASSUME TypeOK, WorkersAt, TxInv, Next, NEW h \in Txs,
           tx[h].state = "unused", tx'[h].state = "mempool"
    PROVE  h \in lost' \/ \E w \in Workers : pc'[w] = "wait" /\ job'[w].hash = h
<1>1. ASSUME NEW w \in Workers, Send(w)
      PROVE  h \in lost' \/ \E v \in Workers : pc'[v] = "wait" /\ job'[v].hash = h
  <2>1. tx' # tx
    OBVIOUS
  <2>2. PICK g \in Txs :
            /\ tx' = [tx EXCEPT ![g] = [state |-> "mempool", bundle |-> job[w].bundle, by |-> NoTx]]
            /\ \/ Goto(w, "wait", [job[w] EXCEPT !.hash = g])
               \/ lost' = lost \cup {g}
    BY <1>1, <2>1 DEF Send
  <2>3. g = h
    BY <2>2 DEF TypeOK
  <2>4. job[w] \in Locals
    BY DEF WorkersAt
  <2>5. [job[w] EXCEPT !.hash = g].hash = g
    BY <2>4 DEF Locals
  <2>6. ASSUME Goto(w, "wait", [job[w] EXCEPT !.hash = g])
        PROVE  pc'[w] = "wait" /\ job'[w].hash = h
    <3>1. pc'[w] = "wait" /\ job'[w] = [job[w] EXCEPT !.hash = g]
      BY <2>6, GotoIs
    <3> QED BY <2>3, <2>5, <3>1
  <2> QED BY <2>2, <2>3, <2>6
<1>2. ASSUME NEW g \in Txs, Mine(g) PROVE tx'[h].state # "mempool"
  BY <1>2 DEF Mine, Outcomes, TypeOK
<1>3. ASSUME NEW g \in Txs, Replace(g) PROVE tx'[h].state # "mempool"
  <2>1. g # h
    BY <1>3 DEF Replace
  <2>2. CASE tx' = [tx EXCEPT ![g].state = "replaced"]
    BY <2>1, <2>2 DEF TypeOK
  <2>3. ASSUME NEW i \in Txs, NEW outcome \in {"success", "failed"}, tx[i].state = "unused",
               tx' = [tx EXCEPT ![g].state = "repriced", ![g].by = i,
                          ![i] = [state |-> outcome, bundle |-> tx[g].bundle, by |-> NoTx]]
        PROVE  tx'[h].state # "mempool"
    <3>1. CASE i = h
      <4>1. tx'[h] = [state |-> outcome, bundle |-> tx[g].bundle, by |-> NoTx]
        BY <2>3, <3>1 DEF TypeOK
      <4> QED BY <4>1
    <3>2. CASE i # h
      <4>1. tx'[h] = tx[h]
        BY <2>1, <2>3, <3>2 DEF TypeOK
      <4> QED BY <4>1
    <3> QED BY <3>1, <3>2
  <2>4. Outcomes(tx[g].bundle) \subseteq {"success", "failed"}
    BY DEF Outcomes
  <2> QED BY <1>3, <2>2, <2>3, <2>4 DEF Replace
<1>4. CASE UNCHANGED tx
  BY <1>4
<1> QED BY <1>1, <1>2, <1>3, <1>4, TxOnly

(* The table gives up a legacy transaction that may still be mined only when *)
(* its nullifier is spent.                                                   *)
LEMMA StoredIsKept ==
    ASSUME TypeOK, WorkersAt, RecInv, Next, NEW h \in Txs, tx[h].state = "mempool",
           <<"submitted", h>> \in pending
    PROVE  <<"submitted", h>> \in pending' \/ Note(tx[h].bundle) \in Spent
<1>1. ASSUME NEW w \in Workers, Persist(w) PROVE pending \subseteq pending'
  BY <1>1, PersistIs
<1>2. CASE Archive
  <2>1. pending' = pending \ {rec.key} /\ rec.verdict \in Resolutions /\ Truly(rec.key, rec.verdict)
    BY <1>2 DEF Archive, RecInv, TypeOK
  <2>2. CASE rec.key = <<"submitted", h>>
    <3>1. /\ rec.key[1] = "submitted" /\ rec.key[2] = h
      BY <2>2
    <3>2. Receipt(rec.key) = "mempool" /\ NoteOf(rec.key) = Note(tx[h].bundle)
      BY <3>1 DEF Receipt, NoteOf
    <3> QED BY <2>1, <3>1, <3>2 DEF Truly, Resolutions
  <2> QED BY <2>1, <2>2
<1>3. ASSUME NEW key \in Keys, Inspect(key) PROVE UNCHANGED pending
  BY <1>3 DEF Inspect, store
<1>4. StartPass \/ EndPass \/ AbortPass => UNCHANGED pending
  BY DEF StartPass, EndPass, AbortPass, store
<1>5. UNCHANGED <<store, rec>> => UNCHANGED pending
  BY DEF store
<1> QED BY <1>1, <1>2, <1>3, <1>4, <1>5, StoreChanges DEF ReconcilerStep

LEMMA HeldStays ==
    ASSUME TypeOK, WorkersAt, TxInv, RecInv, Next, NEW h \in Txs \ lost', Sent(h), Held(h)
    PROVE  Held(h)'
<1>1. Spent \subseteq Spent' /\ tx'[h].bundle = tx[h].bundle
  BY TxStep, SpentGrows DEF Sent, Carries
<1>2. CASE Note(tx[h].bundle) \in Spent
  BY <1>1, <1>2 DEF Held
<1>3. CASE <<"submitted", h>> \in pending
  BY <1>2, <1>3, StoredIsKept DEF Sent, Held
<1>4. ASSUME NEW v \in Workers, pc[v] \in {"wait", "persist"}, job[v].hash = h
      PROVE  Held(h)'
  <2>1. ASSUME NEW w \in Workers, Moves(w) PROVE Held(h)'
    <3>1. PICK p, m : Goto(w, p, m) /\ Orderly(w, p, m)
      BY <2>1 DEF Moves
    <3>2. /\ pc'[w] = p /\ job'[w] = m
          /\ \A u \in Workers : u # w => pc'[u] = pc[u] /\ job'[u] = job[u]
      BY <3>1, GotoIs
    <3>3. CASE v # w
      BY <1>4, <3>2, <3>3 DEF Held
    <3>4. CASE v = w
      BY <1>4, <3>1, <3>2, <3>4 DEF Orderly, Held
    <3> QED BY <3>3, <3>4
  <2>2. CASE Die
    <3>1. job[v].hash \in lost'
      BY <1>4, <2>2, NoTxIsNone DEF Die
    <3> QED BY <1>4, <3>1
  <2>3. CASE UNCHANGED memory
    BY <1>4, <2>3 DEF memory, Held
  <2> QED BY <2>1, <2>2, <2>3, ThreeKinds
<1> QED BY <1>2, <1>3, <1>4 DEF Held

LEMMA SubmissionStep ==
    ASSUME TypeOK, WorkersAt, TxInv, RecInv, NoSubmissionForgotten, Next
    PROVE  NoSubmissionForgotten'
<1> SUFFICES ASSUME NEW h \in Txs \ lost', Sent(h)' PROVE Held(h)'
  BY DEF NoSubmissionForgotten, Sent, Held
<1>1. CASE tx[h].state = "unused"
  BY <1>1, NewIsHeld DEF Sent, Held
<1>2. CASE tx[h].state # "unused"
  <2>1. Sent(h)
    BY <1>2, TxStep DEF Sent, Carries
  <2>2. Held(h)
    BY <2>1, LostGrows DEF NoSubmissionForgotten, Sent, Held
  <2> QED BY <2>1, <2>2, HeldStays
<1> QED BY <1>1, <1>2

----------------------------------------------------------------------------
(* The counters, and the theorems *)

LEMMA CatchTimers ==
    ASSUME TypeOK, WorkersAt, NEW w \in Workers, pc[w] \notin {"idle", "take"}, Catch(w)
    PROVE  timers' \in [Legacy \X (1..RetryLimit) -> Nat]
<1>1. job[w].attempt \in 0..RetryLimit /\ RetryLimit \in Nat
  BY BoundsAssumption DEF WorkersAt, At, Locals
<1>2. ASSUME IsLegacy(w), job[w].attempt < RetryLimit,
             timers' = [timers EXCEPT ![<<job[w].bundle, job[w].attempt + 1>>] = @ + 1]
      PROVE  timers' \in [Legacy \X (1..RetryLimit) -> Nat]
  <2>1. <<job[w].bundle, job[w].attempt + 1>> \in Legacy \X (1..RetryLimit)
    BY <1>1, <1>2 DEF IsLegacy
  <2> QED BY <1>2, <2>1 DEF TypeOK
<1>3. CASE UNCHANGED timers
  BY <1>3 DEF TypeOK
<1> QED BY <1>2, <1>3 DEF Catch, GiveUpOrRetry

LEMMA TimersStep ==
    ASSUME TypeOK, WorkersAt, Next
    PROVE  timers' \in [Legacy \X (1..RetryLimit) -> Nat]
<1>0. timers \in [Legacy \X (1..RetryLimit) -> Nat]
  BY DEF TypeOK
<1>1. CASE Die
  BY <1>1 DEF Die
<1>2. ASSUME NEW w \in Workers, Throw(w) \/ Send(w) PROVE timers' \in [Legacy \X (1..RetryLimit) -> Nat]
  BY <1>0, <1>2, CatchTimers DEF Throw, Send
<1>3. ASSUME NEW w \in Workers, Take(w) \/ Check(w) \/ Refuse(w) \/ Await(w) PROVE UNCHANGED timers
  BY <1>3 DEF Take, Check, Refuse, Await
<1>4. ASSUME NEW w \in Workers, Persist(w), ~Die PROVE UNCHANGED timers
  BY <1>4 DEF Persist
<1>5. ASSUME NEW w \in Workers, NEW p \in Payloads, Deliver(w, p) PROVE UNCHANGED timers
  BY <1>5 DEF Deliver
<1>6. ASSUME NEW w \in Workers, NEW b \in Legacy, NEW n \in 1..RetryLimit, Fire(w, b, n)
      PROVE  timers' \in [Legacy \X (1..RetryLimit) -> Nat]
  <2>1. <<b, n>> \in Legacy \X (1..RetryLimit) /\ timers[<<b, n>>] > 0
    BY <1>6 DEF Fire
  <2>2. timers[<<b, n>>] - 1 \in Nat
    BY <1>0, <2>1
  <2> QED BY <1>0, <1>6, <2>2 DEF Fire
<1>7. ReconcilerStep \/ AbortPass => UNCHANGED timers
  BY DEF ReconcilerStep, StartPass, EndPass, Archive, Inspect, AbortPass, memory
<1>8. ASSUME NEW h \in Txs, Mine(h) \/ Replace(h) PROVE UNCHANGED timers
  BY <1>8 DEF Mine, Replace, memory
<1>9. ASSUME NEW n \in Nullifiers, SpendElsewhere(n) PROVE UNCHANGED timers
  BY <1>9 DEF SpendElsewhere, memory
<1> QED BY <1>0, <1>1, <1>2, <1>3, <1>4, <1>5, <1>6, <1>7, <1>8, <1>9 DEF Next, WorkerStep, Crash

LEMMA LostStep ==
    ASSUME TypeOK, WorkersAt, Next
    PROVE  lost' \subseteq Txs
<1>0. lost \subseteq Txs /\ \A w \in Workers : job[w].hash \in Txs \cup {NoTx}
  BY DEF TypeOK, WorkersAt, Locals
<1>1. CASE Die
  BY <1>0, <1>1 DEF Die
<1>2. ASSUME NEW w \in Workers, WorkerStep(w), ~Die PROVE lost' \subseteq Txs
  <2>1. Take(w) \/ Check(w) \/ Refuse(w) \/ Throw(w) \/ Await(w) => UNCHANGED lost
    BY DEF Take, Check, Refuse, Throw, Await
  <2>2. Send(w) => UNCHANGED lost \/ \E h \in Txs : lost' = lost \cup {h}
    BY DEF Send
  <2>3. Persist(w) => UNCHANGED lost \/ lost' = lost \cup ({job[w].hash} \ {NoTx})
    BY <1>2 DEF Persist
  <2> QED BY <1>0, <1>2, <2>1, <2>2, <2>3 DEF WorkerStep
<1>3. ASSUME NEW w \in Workers, NEW p \in Payloads, Deliver(w, p) PROVE UNCHANGED lost
  BY <1>3 DEF Deliver
<1>4. ASSUME NEW w \in Workers, NEW b \in Legacy, NEW n \in 1..RetryLimit, Fire(w, b, n) PROVE UNCHANGED lost
  BY <1>4 DEF Fire
<1>5. ReconcilerStep \/ AbortPass => UNCHANGED lost
  BY DEF ReconcilerStep, StartPass, EndPass, Archive, Inspect, AbortPass
<1>6. ASSUME NEW h \in Txs, Mine(h) \/ Replace(h) PROVE UNCHANGED lost
  BY <1>6 DEF Mine, Replace
<1>7. ASSUME NEW n \in Nullifiers, SpendElsewhere(n) PROVE UNCHANGED lost
  BY <1>7 DEF SpendElsewhere
<1> QED BY <1>0, <1>1, <1>2, <1>3, <1>4, <1>5, <1>6, <1>7 DEF Next, Crash

LEMMA CountersStep ==
    ASSUME TypeOK, Next
    PROVE  deliveries' \in 0..MaxDeliveries /\ faults' \in 0..MaxFaults /\ foreign' \subseteq Nullifiers
<1>0. /\ deliveries \in 0..MaxDeliveries /\ faults \in 0..MaxFaults /\ foreign \subseteq Nullifiers
      /\ MaxDeliveries \in Nat /\ MaxFaults \in Nat
  BY BoundsAssumption DEF TypeOK
<1>1. Fault => faults' \in 0..MaxFaults
  BY <1>0 DEF Fault
<1>2. ASSUME NEW w \in Workers, WorkerStep(w)
      PROVE  UNCHANGED <<deliveries, foreign>> /\ (UNCHANGED faults \/ Fault)
  BY <1>2 DEF WorkerStep, Take, Check, Refuse, Throw, Send, Await, Persist, chain
<1>3. ASSUME NEW w \in Workers, NEW p \in Payloads, Deliver(w, p)
      PROVE  deliveries' \in 0..MaxDeliveries /\ UNCHANGED <<faults, foreign>>
  BY <1>0, <1>3 DEF Deliver, chain
<1>4. ASSUME NEW w \in Workers, NEW b \in Legacy, NEW n \in 1..RetryLimit, Fire(w, b, n)
      PROVE  UNCHANGED <<deliveries, faults, foreign>>
  BY <1>4 DEF Fire, chain
<1>5. ReconcilerStep \/ AbortPass \/ Crash
        => UNCHANGED <<deliveries, foreign>> /\ (UNCHANGED faults \/ Fault)
  BY DEF ReconcilerStep, StartPass, EndPass, Archive, Inspect, AbortPass, Crash, chain
<1>6. ASSUME NEW h \in Txs, Mine(h) \/ Replace(h)
      PROVE  UNCHANGED <<deliveries, foreign>> /\ (UNCHANGED faults \/ Fault)
  BY <1>6 DEF Mine, Replace
<1>7. ASSUME NEW n \in Nullifiers, SpendElsewhere(n)
      PROVE  UNCHANGED deliveries /\ Fault /\ foreign' \subseteq Nullifiers
  BY <1>0, <1>7 DEF SpendElsewhere
<1> QED BY <1>0, <1>1, <1>2, <1>3, <1>4, <1>5, <1>6, <1>7 DEF Next

LEMMA TypeStep ==
    ASSUME IInv, Next
    PROVE  TypeOK'
<1>1. tx' \in [Txs -> TxRecords] /\ WorkersAt' /\ StoreOK'
  BY TxStep, WorkersStep, StoreStep DEF IInv
<1>2. \A w \in Workers : At(pc'[w], job'[w], tx')
  BY <1>1 DEF WorkersAt
<1>3. /\ seen' \subseteq Nullifiers /\ inFlight' \subseteq {Key(b) : b \in Bundles}
      /\ timers' \in [Legacy \X (1..RetryLimit) -> Nat] /\ lost' \subseteq Txs
      /\ deliveries' \in 0..MaxDeliveries /\ faults' \in 0..MaxFaults /\ foreign' \subseteq Nullifiers
  BY SeenStep, MarksFit, TimersStep, LostStep, CountersStep DEF IInv, MarksAreTrue
<1>4. pc' \in [Workers -> Places] /\ job' \in [Workers -> Locals]
  BY <1>1 DEF WorkersAt
<1>5. ASSUME NEW w \in Workers
      PROVE  /\ pc'[w] \notin {"idle", "take"} => job'[w].bundle \in Bundles
             /\ pc'[w] = "wait" => job'[w].hash \in Txs
             /\ pc'[w] = "persist" => job'[w].bundle \in Legacy
  BY <1>2 DEF At
<1> QED BY <1>1, <1>3, <1>4, <1>5 DEF TypeOK, TxRecords, StoreOK, Passes, Places, Locals

LEMMA InvStep ==
    ASSUME IInv, [Next]_vars
    PROVE  IInv'
<1>1. CASE Next
  <2>1. TypeOK'
    BY <1>1, TypeStep
  <2>2. WorkersAt' /\ TxInv' /\ StoreInv' /\ RecInv'
    BY <1>1, TxStep, WorkersStep, StoreStep DEF IInv
  <2>3. MarksAreTrue'
    BY <1>1, SeenStep, MarksStep DEF IInv, MarksAreTrue, Marked
  <2>4. NoSubmissionForgotten'
    BY <1>1, SubmissionStep DEF IInv
  <2> QED BY <2>1, <2>2, <2>3, <2>4 DEF IInv
<1>2. CASE UNCHANGED vars
  <2>1. UNCHANGED <<pc, job, timers, seen, inFlight, pending, archive, rec, tx, foreign,
                    lost, deliveries, faults>>
    BY <1>2 DEF vars, memory, store, chain
  <2>2. UNCHANGED Spent
    BY <2>1 DEF Spent
  <2>3. TypeOK'
    BY <2>1 DEF IInv, TypeOK
  <2>4. WorkersAt' /\ TxInv'
    BY <2>1 DEF IInv, WorkersAt, TxInv
  <2>5. StoreInv' /\ RecInv'
    BY <2>1, <2>2 DEF IInv, StoreInv, RecInv, IsFor, Truly, NoteOf, Receipt
  <2>6. MarksAreTrue' /\ NoSubmissionForgotten'
    BY <2>1, <2>2 DEF IInv, MarksAreTrue, NoSubmissionForgotten
  <2> QED BY <2>3, <2>4, <2>5, <2>6 DEF IInv
<1> QED BY <1>1, <1>2

LEMMA InvInit ==
    ASSUME Init
    PROVE  IInv
<1>1. NoJob \in Locals
  BY BoundsAssumption DEF NoJob, Locals
<1>2. At("idle", NoJob, tx)
  BY <1>1 DEF At, Places, NoJob
<1>3. WorkersAt
  BY <1>1, <1>2 DEF Init, WorkersAt, Places
<1>4. tx \in [Txs -> TxRecords]
  BY DEF Init, Unused, TxRecords
<1>5. Resting \in Passes
  BY DEF Resting, Passes
<1>6. 0 \in 0..MaxDeliveries /\ 0 \in 0..MaxFaults
  BY BoundsAssumption
<1>7. \A w \in Workers : pc[w] = "idle"
  BY DEF Init
<1>8. TypeOK
  <2>1. pc \in [Workers -> Places] /\ job \in [Workers -> Locals]
    BY <1>3 DEF WorkersAt
  <2> QED BY <1>4, <1>5, <1>6, <1>7, <2>1
          DEF Init, TypeOK, TxRecords, Passes, Resting, Places, Locals
<1>9. \A h \in Txs : tx[h].state = "unused"
  BY DEF Init, Unused
<1>10. TxInv /\ NoSubmissionForgotten /\ MarksAreTrue
  BY <1>9 DEF Init, TxInv, NoSubmissionForgotten, MarksAreTrue
<1>11. StoreInv /\ RecInv
  BY DEF Init, StoreInv, RecInv, Resting
<1> QED BY <1>3, <1>8, <1>10, <1>11 DEF IInv

THEOREM InvAlways == Spec => []IInv
<1>1. Init => IInv
  BY InvInit
<1>2. IInv /\ [Next]_vars => IInv'
  BY InvStep
<1> QED BY <1>1, <1>2, PTL DEF Spec

(* The variables of the relay keep their types. *)
THEOREM TypeCorrect == Spec => []TypeOK
<1>1. IInv => TypeOK
  BY DEF IInv
<1> QED BY <1>1, InvAlways, PTL

(* The sets that processBundle keeps in memory tell the truth, whatever       *)
(* activations interleave: no unspent legacy nullifier is called seen, and   *)
(* every mark in flight is that of an activation that runs.                  *)
THEOREM MarksTrue == Spec => []MarksAreTrue
<1>1. IInv => MarksAreTrue
  BY DEF IInv
<1> QED BY <1>1, InvAlways, PTL

(* Every resolution that the reconciler archives is so on chain, and stays    *)
(* so.                                                                       *)
THEOREM ArchiveTrue == Spec => []ArchiveIsTrue
<1>1. IInv => ArchiveIsTrue
  <2>1. ASSUME IInv, NEW key \in Keys, archive[key] # "none"
        PROVE  Truly(key, archive[key])
    BY <2>1 DEF IInv, StoreInv
  <2> QED BY <2>1 DEF Truly, ArchiveIsTrue
<1> QED BY <1>1, InvAlways, PTL

(* A legacy submission is awaited, stored or in vain as long as it may be     *)
(* mined, unless its hash was lost.                                          *)
THEOREM SubmissionsKept == Spec => []NoSubmissionForgotten
<1>1. IInv => NoSubmissionForgotten
  BY DEF IInv
<1> QED BY <1>1, InvAlways, PTL

----------------------------------------------------------------------------
(* Fee schedules *)

LEMMA DivisionIsMonotone ==
    ASSUME NEW x \in Nat, NEW y \in Nat, x <= y, NEW d \in Nat \ {0}
    PROVE  x \div d \in Nat /\ x \div d <= y \div d
<1> DEFINE p == x \div d
           q == y \div d
<1>1. p \in Nat /\ q \in Nat
  OBVIOUS
<1>2. d * p <= x /\ x < d * (p + 1) /\ d * q <= y /\ y < d * (q + 1)
  OBVIOUS
<1> HIDE DEF p, q
<1>3. ASSUME q < p PROVE FALSE
  <2>1. q + 1 <= p
    BY <1>1, <1>3
  <2>2. d * (q + 1) <= d * p
    BY <1>1, <2>1
  <2> QED BY <1>1, <1>2, <2>2
<1>4. p <= q
  BY <1>1, <1>3
<1> QED BY <1>1, <1>4 DEF p, q

LEMMA ProductIsMonotone ==
    ASSUME NEW a \in Nat, NEW b \in Nat, NEW c \in Nat, NEW d \in Nat, a <= c, b <= d
    PROVE  a * b \in Nat /\ c * d \in Nat /\ a * b <= c * d
<1>1. a * b <= c * b
  OBVIOUS
<1>2. c * b <= c * d
  OBVIOUS
<1>3. a * b \in Nat /\ c * b \in Nat /\ c * d \in Nat
  OBVIOUS
<1> QED BY <1>1, <1>2, <1>3

(* More gas or a higher price never cost less (costCoveringRelayReward).      *)
LEMMA CostIsMonotone ==
    ASSUME NEW gas \in Nat, NEW budget \in Nat, gas <= budget,
           NEW low \in Nat, NEW high \in Nat, low <= high
    PROVE  /\ costCoveringRelayReward(gas, low) \in Nat
           /\ costCoveringRelayReward(gas, low) <= costCoveringRelayReward(budget, high)
<1> DEFINE x == gas * low
           y == budget * high
<1>1. x \in Nat /\ y \in Nat /\ x <= y
  BY ProductIsMonotone
<1> HIDE DEF x, y
<1>2. /\ x * 110 + RewardDivisor - 1 \in Nat /\ y * 110 + RewardDivisor - 1 \in Nat
      /\ x * 110 + RewardDivisor - 1 <= y * 110 + RewardDivisor - 1
  BY <1>1, RewardDivisorAssumption
<1>3. /\ (x * 110 + RewardDivisor - 1) \div RewardDivisor \in Nat
      /\ (x * 110 + RewardDivisor - 1) \div RewardDivisor <= (y * 110 + RewardDivisor - 1) \div RewardDivisor
  BY <1>2, RewardDivisorAssumption, DivisionIsMonotone
<1> QED BY <1>3 DEF x, y, costCoveringRelayReward

LEMMA CostIsNatural ==
    \A gas, gasPrice \in Nat : costCoveringRelayReward(gas, gasPrice) \in Nat
  BY CostIsMonotone

LEMMA PolicyFields ==
    ASSUME NEW policy, ValidPolicy(policy)
    PROVE  /\ policy.single \in Nat /\ policy.single <= SingleCeiling
           /\ policy.batch \in Nat /\ policy.batch <= BatchCeiling
           /\ policy.child \in Nat /\ policy.child <= ChildCeiling
           /\ policy.quote \in Nat /\ policy.quote <= policy.child
<1>1. \A n \in Nat : \A x \in 0..n : x \in Nat /\ x <= n
  OBVIOUS
<1>2. SingleCeiling \in Nat /\ BatchCeiling \in Nat /\ ChildCeiling \in Nat
  BY DEF SingleCeiling, BatchCeiling, ChildCeiling
<1> QED BY <1>1, <1>2, Zenon DEF ValidPolicy

LEMMA PricedFields ==
    ASSUME NEW pools, NEW t \in Template(pools), NEW budget \in Nat, NEW gasPrice \in Nat, NEW maximum,
           maximum[t.shape.mode] \in Nat, t.fee <= maximum[t.shape.mode],
           Priceable(t, budget, gasPrice, maximum)
    PROVE  /\ Priced(t, budget, gasPrice).shape = t.shape
           /\ Priced(t, budget, gasPrice).fee \in Nat \ {0}
           /\ Priced(t, budget, gasPrice).fee <= maximum[t.shape.mode]
           /\ Priced(t, budget, gasPrice).ceiling \in Nat \ {0}
           /\ budget > 0 => /\ Priced(t, budget, gasPrice).ceiling = gasPrice
                            /\ Priced(t, budget, gasPrice).fee
                                  >= costCoveringRelayReward(budget, gasPrice)
<1>1. CASE budget = 0
  BY <1>1 DEF Priced, Template
<1>2. CASE budget # 0
  <2> DEFINE cost == costCoveringRelayReward(budget, gasPrice)
             fee == Larger(t.fee, cost)
  <2>1. cost \in Nat
    BY CostIsMonotone
  <2>2. fee \in Nat \ {0} /\ fee >= cost /\ fee <= maximum[t.shape.mode]
    <3> HIDE DEF cost
    <3>1. t.fee \in Nat \ {0}
      BY DEF Template
    <3> QED BY <1>2, <2>1, <3>1 DEF Larger, Priceable, cost
  <2>3. gasPrice > 0
    BY <1>2 DEF Priceable
  <2>4. Priced(t, budget, gasPrice) = [shape |-> t.shape, fee |-> fee, ceiling |-> gasPrice]
    <3> HIDE DEF fee
    <3>1. t = [shape |-> t.shape, fee |-> t.fee, ceiling |-> t.ceiling]
      BY DEF Template
    <3>2. Priced(t, budget, gasPrice) = [t EXCEPT !.fee = fee, !.ceiling = gasPrice]
      BY <1>2 DEF Priced, fee
    <3> QED BY <3>1, <3>2
  <2> HIDE DEF fee, cost
  <2> QED BY <2>1, <2>2, <2>3, <2>4 DEF cost
<1> QED BY <1>1, <1>2

(* What is published is honoured: the proof made for a schedule is accepted    *)
(* from the first second to the last, at every gas price up to the ceiling,   *)
(* and its fee then pays for all the gas that was budgeted for.  So a user    *)
(* who proves in time and a relayer who spends its budget lose nothing        *)
(* (syncRelayerRegistryKey, validateRelayExecutionFeeScheduleV2).             *)
THEOREM PublicationIsHonoured ==
    ASSUME NEW pools, NEW t \in Template(pools), NEW maximum,
           maximum[t.shape.mode] \in Nat, t.fee <= maximum[t.shape.mode],
           NEW budget \in Nat, NEW gasPrice \in Nat, Priceable(t, budget, gasPrice, maximum),
           NEW validity \in Nat, NEW ttl \in 30..900, ttl <= validity,
           NEW start \in Nat \ {0}, NEW nonce, nonce # ZeroNonce, NEW account, NEW id
    PROVE  HonouredThroughout(t, maximum, budget, gasPrice, ttl, validity, account, id, nonce, start)
<1> DEFINE p == Priced(t, budget, gasPrice)
           s == Built(p, id, account, nonce, start, ttl)
           signed == Sign(s, account)
<1>1. /\ p.shape = t.shape /\ p.fee \in Nat \ {0} /\ p.fee <= maximum[t.shape.mode]
      /\ p.ceiling \in Nat \ {0}
      /\ budget > 0 => p.ceiling = gasPrice /\ p.fee >= costCoveringRelayReward(budget, gasPrice)
  BY PricedFields
<1> HIDE DEF p
<1>2. /\ s.shape = t.shape /\ s.fee = p.fee /\ s.ceiling = p.ceiling /\ s.chain = id
      /\ s.nonce = nonce /\ s.validAfter = start /\ s.expiry = start + ttl /\ s.relayer = account
  BY <1>1 DEF Built
<1> HIDE DEF s
<1>3. ValidSchedule(s)
  <2>1. ValidShape(t.shape)
    BY DEF Template
  <2> QED BY <1>1, <1>2, <2>1 DEF ValidSchedule
<1>4. signed = [schedule |-> s, hash |-> s, by |-> account]
  BY <1>2, <1>3 DEF Sign
<1>5. signed.schedule = s /\ signed.hash = s /\ signed.by = account
  BY <1>4
<1> HIDE DEF signed
<1>6. ProofTuple(s) = [shape |-> t.shape, fee |-> p.fee, chain |-> id, relayer |-> account]
  BY <1>2 DEF ProofTuple
<1>7. ASSUME NEW now \in start..(start + ttl), NEW later \in 1..s.ceiling
      PROVE  /\ Honoured(signed, ProofTuple(s), maximum[t.shape.mode], validity, later, now)
             /\ \A gas \in 1..budget : CostCovered(s.fee, gas, later)
  <2>1. Honoured(signed, ProofTuple(s), maximum[t.shape.mode], validity, later, now)
    BY <1>1, <1>2, <1>3, <1>5, <1>6 DEF Honoured, Intact
  <2>2. ASSUME NEW gas \in 1..budget PROVE CostCovered(s.fee, gas, later)
    <3>1. budget > 0 /\ s.ceiling = gasPrice /\ p.fee >= costCoveringRelayReward(budget, gasPrice)
      BY <1>1, <1>2
    <3>2. later \in Nat /\ later <= gasPrice /\ later > 0
      BY <3>1
    <3>3. /\ costCoveringRelayReward(gas, later) \in Nat
          /\ costCoveringRelayReward(gas, later) <= costCoveringRelayReward(budget, gasPrice)
      BY <3>2, CostIsMonotone
    <3>4. costCoveringRelayReward(budget, gasPrice) \in Nat
      BY CostIsMonotone
    <3> QED BY <1>1, <1>2, <3>1, <3>2, <3>3, <3>4 DEF CostCovered
  <2> QED BY <2>1, <2>2
<1> QED BY <1>5, <1>7 DEF HonouredThroughout, signed, s, p

(* Whatever heartbeats publish, at any prices, budgets and times, is honoured *)
(* and covers the budgeted gas, when a bundle is relayed under it.            *)
THEOREM PublishedHonoured == Spec => []PublishedIsHonoured
<1>1. AllHonoured
  <2> SUFFICES ASSUME NEW o \in Offers, Published(o), NEW k \in DOMAIN o.templates
               PROVE  HonouredThroughout(o.templates[k], Maximum, o.budget, o.gasPrice,
                          Ttl(o.configured, Validity), Validity, Account, Chain, o.nonces[k], o.start)
    BY DEF AllHonoured
  <2> DEFINE t == o.templates[k]
             ttl == Ttl(o.configured, Validity)
  <2>1. /\ o.templates \in Seq(Template(Pools)) /\ o.budget \in Nat /\ o.gasPrice \in Nat
        /\ o.start \in Nat /\ DOMAIN o.nonces = DOMAIN o.templates
        /\ Maximum \in [{0, 1} -> Nat] /\ Validity \in Nat
    BY OffersAssumption
  <2>2. t \in Template(Pools)
    BY <2>1
  <2>3. /\ ttl <= Validity /\ t.fee <= Maximum[t.shape.mode]
        /\ Priceable(t, o.budget, o.gasPrice, Maximum)
    BY DEF Published, PublishableV3, ReadableTemplates
  <2>4. Maximum[t.shape.mode] \in Nat
    <3>1. t.shape.mode \in {0, 1}
      BY <2>2 DEF Template
    <3> QED BY <2>1, <3>1
  <2>5. ttl \in 30..900 /\ o.start >= 1 /\ o.nonces[k] # ZeroNonce
    BY <2>1 DEF Published, Buildable
  <2>6. o.start \in Nat \ {0}
    BY <2>1, <2>5
  <2> HIDE DEF t, ttl
  <2>7. HonouredThroughout(t, Maximum, o.budget, o.gasPrice, ttl, Validity, Account, Chain,
                           o.nonces[k], o.start)
    BY <2>1, <2>2, <2>3, <2>4, <2>5, <2>6, PublicationIsHonoured
  <2> QED BY <2>7 DEF t, ttl
<1>2. PublishedIsHonoured
  BY <1>1 DEF PublishedIsHonoured
<1> QED BY <1>2, PTL

(* The other side of the gas budget: the ceiling is the price of the moment,  *)
(* so the first rise of the gas price refuses every schedule in circulation,  *)
(* whatever time it has left, until the next publication.                     *)
THEOREM RiseRefusesSchedules ==
    ASSUME NEW t, NEW budget \in Nat \ {0}, NEW gasPrice \in Nat, NEW later \in Nat, later > gasPrice,
           "fee" \in DOMAIN t, "ceiling" \in DOMAIN t,
           NEW signed, NEW account, NEW id, NEW nonce, NEW start, NEW ttl,
           signed.schedule = Built(Priced(t, budget, gasPrice), id, account, nonce, start, ttl),
           NEW tuple, NEW maximum, NEW validity, NEW now
    PROVE  ~Honoured(signed, tuple, maximum, validity, later, now)
<1> DEFINE fee == Larger(t.fee, costCoveringRelayReward(budget, gasPrice))
<1>1. Priced(t, budget, gasPrice) = [t EXCEPT !.fee = fee, !.ceiling = gasPrice]
  BY DEF Priced
<1> HIDE DEF fee
<1>2. Priced(t, budget, gasPrice).ceiling = gasPrice
  BY <1>1
<1>3. signed.schedule.ceiling = gasPrice
  BY <1>2 DEF Built
<1> QED BY <1>3 DEF Honoured

(* Every PoolV4 template that is offered is under the ceiling its validation  *)
(* asks for, and covers its own cost at the price of the publication: no       *)
(* schedule is published that the relayer would itself refuse.                *)
THEOREM OfferedV4IsAcceptable ==
    ASSUME NEW pools, NEW gas \in Nat \ {0}, NEW batchGas \in Nat \ {0}, NEW gasPrice \in Nat \ {0},
           NEW policy, ValidPolicy(policy),
           NEW t \in TemplatesV4(pools, costCoveringRelayReward(gas, gasPrice),
                                 costCoveringRelayReward(batchGas, gasPrice), gasPrice, policy)
    PROVE  /\ ValidShape(t.shape) /\ t.fee <= MaximumV4(t.shape)
           /\ CostCovered(t.fee, IF t.shape.outputs = 1 THEN gas ELSE batchGas, gasPrice)
<1> DEFINE reward == costCoveringRelayReward(gas, gasPrice)
           batch == costCoveringRelayReward(batchGas, gasPrice)
<1>1. reward \in Nat /\ batch \in Nat
  BY CostIsMonotone
<1>2. policy.single <= SingleCeiling /\ policy.batch <= BatchCeiling /\ policy.single \in Nat /\ policy.batch \in Nat
  BY PolicyFields
<1> HIDE DEF reward, batch
<1>3. CASE \E p \in pools : \E i \in 1..4 : \E n \in 1..10 :
              /\ (IF n = 1 THEN reward ELSE batch) <= SourceMaximum(n, policy)
              /\ t = [shape |-> [pool |-> p, mode |-> 0, inputs |-> i, outputs |-> n],
                     fee |-> IF n = 1 THEN reward ELSE batch, ceiling |-> gasPrice]
  <2>1. PICK p \in pools, i \in 1..4, n \in 1..10 :
              /\ (IF n = 1 THEN reward ELSE batch) <= SourceMaximum(n, policy)
              /\ t = [shape |-> [pool |-> p, mode |-> 0, inputs |-> i, outputs |-> n],
                     fee |-> IF n = 1 THEN reward ELSE batch, ceiling |-> gasPrice]
    BY <1>3
  <2>2. ValidShape(t.shape)
    BY <2>1 DEF ValidShape
  <2>3. t.fee <= MaximumV4(t.shape)
    BY <1>1, <1>2, <2>1 DEF MaximumV4, SourceMaximum, SingleCeiling, BatchCeiling
  <2>4. t.fee = costCoveringRelayReward(IF t.shape.outputs = 1 THEN gas ELSE batchGas, gasPrice)
    BY <2>1 DEF reward, batch
  <2>5. CostCovered(t.fee, IF t.shape.outputs = 1 THEN gas ELSE batchGas, gasPrice)
    BY <1>1, <2>1, <2>4 DEF CostCovered
  <2> QED BY <2>2, <2>3, <2>5
<1>4. CASE \E p \in pools : \E i \in 2..4 :
              /\ batch <= policy.batch
              /\ t = [shape |-> [pool |-> p, mode |-> 1, inputs |-> i, outputs |-> 0],
                     fee |-> batch, ceiling |-> gasPrice]
  <2>1. PICK p \in pools, i \in 2..4 :
              /\ batch <= policy.batch
              /\ t = [shape |-> [pool |-> p, mode |-> 1, inputs |-> i, outputs |-> 0],
                     fee |-> batch, ceiling |-> gasPrice]
    BY <1>4
  <2>2. ValidShape(t.shape)
    BY <2>1 DEF ValidShape
  <2>3. t.fee <= MaximumV4(t.shape)
    BY <1>1, <1>2, <2>1 DEF MaximumV4, SingleCeiling, BatchCeiling
  <2>4. t.fee = costCoveringRelayReward(IF t.shape.outputs = 1 THEN gas ELSE batchGas, gasPrice)
    BY <2>1 DEF batch
  <2>5. CostCovered(t.fee, IF t.shape.outputs = 1 THEN gas ELSE batchGas, gasPrice)
    BY <1>1, <2>1, <2>4 DEF CostCovered
  <2> QED BY <2>2, <2>3, <2>5
<1>5. QED BY <1>3, <1>4 DEF TemplatesV4, reward, batch

(* A child that is quoted is quoted in full: its shares add up to the policy's *)
(* quote, which is under the ceiling the child signs, and what is left for     *)
(* the delivery pays for the completion (quoteCrossChainRewardsV4).           *)
THEOREM ChildQuoteAddsUp ==
    ASSUME NEW reward \in Nat, NEW count \in Nat \ {0}, NEW k \in Nat, NEW gas,
           gas.acceptance \in Nat, gas.confirmation \in Nat, gas.submission \in Nat, gas.completion \in Nat,
           NEW gasPrice \in Nat, NEW policy, ValidPolicy(policy),
           ChildQuote(reward, count, k, gas, gasPrice, policy) # Refusal
    PROVE  LET quote == ChildQuote(reward, count, k, gas, gasPrice, policy)
           IN /\ quote.allocation + quote.reimbursement + quote.delivery = quote.total
              /\ quote.delivery >= costCoveringRelayReward(gas.completion, gasPrice)
              /\ quote.total <= quote.maximum /\ quote.maximum <= ChildCeiling
<1> DEFINE allocation == Allocation(reward, count, k)
           reimbursement == Reimbursement(gas, gasPrice)
           completion == costCoveringRelayReward(gas.completion, gasPrice)
<1>1. allocation \in Nat /\ completion \in Nat
  <2>1. completion \in Nat
    BY CostIsNatural, Zenon
  <2>2. reward \div count \in Nat
    OBVIOUS
  <2>3. allocation \in Nat
    BY <2>2 DEF Allocation
  <2> QED BY <2>1, <2>3
<1>2. reimbursement \in Nat
  <2>1. /\ costCoveringRelayReward(gas.acceptance, gasPrice) \in Nat
        /\ costCoveringRelayReward(gas.confirmation, gasPrice) \in Nat
        /\ costCoveringRelayReward(gas.submission, gasPrice) \in Nat
    BY CostIsNatural, Zenon
  <2> QED BY <2>1 DEF Reimbursement
<1>3. policy.quote \in Nat /\ policy.child \in Nat /\ policy.quote <= policy.child /\ policy.child <= ChildCeiling
  BY PolicyFields
<1>4. /\ ~(allocation + reimbursement + completion > policy.quote)
      /\ ChildQuote(reward, count, k, gas, gasPrice, policy)
            = [allocation |-> allocation, reimbursement |-> reimbursement,
               delivery |-> policy.quote - allocation - reimbursement,
               maximum |-> policy.child, total |-> policy.quote]
  BY DEF ChildQuote
<1> HIDE DEF allocation, reimbursement, completion
<1> QED BY <1>1, <1>2, <1>3, <1>4 DEF completion, ChildCeiling
=============================================================================
