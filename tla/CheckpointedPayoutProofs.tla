----------------------- MODULE CheckpointedPayoutProofs -----------------------
(***************************************************************************)
(* Theorems about the payouts of versions 4, 5 and 6.  First the worker of  *)
(* CheckpointedPayout: an inductive invariant that says where a worker may   *)
(* stand, what the journal's rows mean and what was sent when, and from it   *)
(* the safety properties of the run; with what success shows in the adapter, *)
(* also the refinement of PayoutPromise.  Then what the quorum of            *)
(* ProofQuorum, the payloads of ExecutionPayloads and the public records of  *)
(* PayoutLifecycle guarantee for every value.                                *)
(***************************************************************************)
EXTENDS CheckpointedPayout, PayoutRecords, ProofQuorum, ExecutionPayloads,
        FiniteSetTheorems, WellFoundedInduction, TLAPS

----------------------------------------------------------------------------
(* The inductive invariant of the workers *)

AllAccepted == \A i \in Payout : status[i] >= 1
AllBacked   == \A i \in Sharers : Recorded(i, "poolWithdraw")

(* Transaction h performs step s of intent i: the withdrawal is of all.      *)
Carries(h, s, i) ==
    /\ h \in Hashes /\ tx[h].state # "unused" /\ tx[h].step = s
    /\ tx[h].intents = IF s = "poolWithdraw" THEN Payout ELSE {i}

Succeeded(h, s, i) == Carries(h, s, i) /\ tx[h].state = "success"

Source == {"acceptQuote", "poolWithdraw"}
Endings == {"completePayout", "proveRelayRefund"}

(* Only the bearers of a step have rows of it, and the rows are true.        *)
JournalTrue ==
    \A i \in Intents, s \in Steps :
        /\ Recorded(i, s) => /\ i \in Payout /\ i \in Bearers(s, i)
                             /\ Succeeded(checkpoint[i][s], s, i)
        /\ \A h \in submitted[i][s] : i \in Payout /\ i \in Bearers(s, i) /\ Carries(h, s, i)

(* Nothing is sent before its time, and what was mined has its effect.       *)
ChainTrue ==
    /\ \A h \in Hashes : tx[h].state # "unused" =>
          /\ h <= sent /\ tx[h].intents \subseteq Payout
          /\ tx[h].step = "poolWithdraw" => AllAccepted
          /\ tx[h].step \notin Source => AllBacked
          /\ tx[h].state = "success" /\ tx[h].step \in Endings =>
                \A i \in tx[h].intents : status[i] >= 4
    /\ \A i \in Intents : status[i] >= 2 => AllBacked

(* One activation at a time. *)
Alone == \A u, w \in Workers : pc[w] # "idle" => busy /\ (pc[u] # "idle" => u = w)

(* V4 has ended every intent it no longer visits, or will defer.             *)
Accounted(j) == plan.version = 4 => j.more \/ \A i \in Payout \ j.left : status[i] >= 4

(* No submission of step s is open or has succeeded, the ones to come aside. *)
Failed(h) == tx[h].state = "failed"
Blank(s, i) == \A k \in Bearers(s, i) : ~Recorded(k, s) /\ \A h \in submitted[k][s] : Failed(h)
BlankSoFar(j) ==
    \A k \in Bearers(j.step, j.child) :
        /\ ~Recorded(k, j.step)
        /\ \A h \in submitted[k][j.step] : Failed(h) \/ k \in j.keys \/ (k = j.key /\ h \in j.todo)

(* A worker inside step j.step of intent j.child. *)
InStep(j) ==
    /\ j.child \in Payout /\ j.key \in Bearers(j.step, j.child)
    /\ j.keys \subseteq Bearers(j.step, j.child) /\ j.left \subseteq Payout
    /\ j.step = "poolWithdraw" => AllAccepted
    /\ j.step \notin Source => AllBacked /\ Accounted(j)

(* In a round over the bearers of the withdrawal, those before key k are done. *)
RoundDone(j, left) ==
    j.step = "poolWithdraw" /\ j.all => \A k \in Sharers \ left : Recorded(k, "poolWithdraw")

At(p, j) ==
    CASE p = "idle" -> TRUE
      [] p \in {"accept", "check"} -> j.left \subseteq Payout
      [] p = "loop"   -> j.left \subseteq Payout /\ AllBacked /\ Accounted(j)
      [] p = "replay" -> /\ InStep(j) /\ ~j.all /\ j.todo \subseteq submitted[j.key][j.step]
                         /\ IF j.hash = NoHash THEN BlankSoFar(j)
                            ELSE Succeeded(j.hash, j.step, j.child)
      [] p = "send"   -> InStep(j) /\ Blank(j.step, j.child)
      [] p \in {"sent", "receipt"} -> InStep(j) /\ Carries(j.hash, j.step, j.child)
      [] p = "local"  -> /\ InStep(j) /\ Succeeded(j.hash, j.step, j.child)
                         /\ RoundDone(j, j.keys \cup {j.key})
      [] OTHER        -> /\ InStep(j) /\ checkpoint[j.key][j.step] = j.hash /\ j.hash # NoHash
                         /\ RoundDone(j, j.keys)

(* p and j are bound, so that the next state's instance is At(p, j)'.        *)
WorkersAt == \A w \in Workers : \A p \in {pc[w]}, j \in {job[w]} : At(p, j)

IInv ==
    /\ TypeOK /\ JournalTrue /\ ChainTrue /\ Alone /\ WorkersAt
    /\ RemoteFollowsLocal /\ ClosedMeansEnded

----------------------------------------------------------------------------
(* The plan and its bearers *)

JobRec == [child : Intents \cup {NoIntent}, left : SUBSET Intents,
           step : Steps, key : Intents \cup {NoIntent},
           keys : SUBSET Intents, hash : OptHash, todo : SUBSET Hashes,
           send : BOOLEAN, all : BOOLEAN, seen : SUBSET Intents,
           down : BOOLEAN, more : BOOLEAN]

LEMMA MinIs ==
    ASSUME NEW S \in SUBSET Nat, S # {}
    PROVE  Min(S) \in S
<1>1. PICK x \in S : \A y \in S : <<y, x>> \notin OpToRel(<, Nat)
  BY WFMin, NatLessThanWellFounded
<1>2. \A y, z \in Nat : <<y, z>> \notin OpToRel(<, Nat) => z <= y
  BY DEF OpToRel
<1>3. \A y \in S : x <= y
  BY <1>1, <1>2
<1> QED BY <1>3 DEF Min

LEMMA MaxIs ==
    ASSUME NEW S \in SUBSET Nat, S # {}, NEW n \in Nat, \A x \in S : x <= n
    PROVE  Max(S) \in S
<1> DEFINE T == {n - x : x \in S}
<1>1. T \in SUBSET Nat /\ T # {}
  <2>1. \A x \in S : n - x \in Nat
    OBVIOUS
  <2>2. PICK x \in S : TRUE
    OBVIOUS
  <2>3. n - x \in T
    BY <2>2
  <2> QED BY <2>1, <2>3
<1>2. PICK t \in T : \A y \in T : <<y, t>> \notin OpToRel(<, Nat)
  BY <1>1, WFMin, NatLessThanWellFounded
<1>3. \A y, z \in Nat : <<y, z>> \notin OpToRel(<, Nat) => z <= y
  BY DEF OpToRel
<1>4. \A y \in T : t <= y
  BY <1>1, <1>2, <1>3
<1>5. PICK x \in S : t = n - x
  OBVIOUS
<1>6. \A y \in S : x >= y
  <2> SUFFICES ASSUME NEW y \in S PROVE x >= y
    OBVIOUS
  <2>1. n - x <= n - y
    BY <1>4, <1>5
  <2> QED BY <2>1
<1> QED BY <1>6 DEF Max

LEMMA PlanIs ==
    ASSUME plan \in Plans
    PROVE  /\ plan.version \in {4, 5, 6} /\ plan.size \in Nat
           /\ Payout \subseteq Intents /\ Payout \subseteq Nat /\ Sharers \subseteq Payout
           /\ 1 \in Sharers /\ 1 \in Payout /\ IsFiniteSet(Sharers)
<1>1. plan.version \in 4..6 /\ plan.size \in Nat \ {0} /\ 1..plan.size \subseteq Intents
  BY PlansAssumption
<1>2. 1 \in 1..plan.size
  BY <1>1
<1>3. IsFiniteSet(1..plan.size)
  BY <1>1, FS_Interval
<1>4. IsFiniteSet({1})
  BY FS_Singleton
<1> QED BY <1>1, <1>2, <1>3, <1>4 DEF Payout, Sharers

LEMMA BearersAre ==
    ASSUME plan \in Plans, NEW s, NEW i \in Payout
    PROVE  /\ Bearers(s, i) \subseteq Payout /\ Min(Bearers(s, i)) \in Bearers(s, i)
           /\ s # "poolWithdraw" => Bearers(s, i) = {i} /\ Cardinality(Bearers(s, i)) = 1
           /\ s = "poolWithdraw" => Bearers(s, i) = Sharers
           /\ \A k \in Bearers(s, i) : Cardinality(Bearers(s, i)) = 1 => Bearers(s, i) = {k}
<1>1. Sharers \subseteq Payout /\ 1 \in Sharers /\ IsFiniteSet(Sharers) /\ Payout \subseteq Nat
  BY PlanIs
<1>2. Bearers(s, i) \subseteq Payout /\ Bearers(s, i) # {} /\ Bearers(s, i) \in SUBSET Nat
  BY <1>1 DEF Bearers
<1>3. Min(Bearers(s, i)) \in Bearers(s, i)
  BY <1>2, MinIs
<1>4. IsFiniteSet({i}) /\ Cardinality({i}) = 1
  BY FS_Singleton
<1>5. IsFiniteSet(Bearers(s, i))
  BY <1>1, <1>4 DEF Bearers
<1>6. ASSUME NEW k \in Bearers(s, i), Cardinality(Bearers(s, i)) = 1 PROVE Bearers(s, i) = {k}
  <2>1. PICK x : Bearers(s, i) = {x}
    BY <1>5, <1>6, FS_Singleton
  <2> QED BY <1>6, <2>1
<1> QED BY <1>2, <1>3, <1>4, <1>6 DEF Bearers

(* A transaction performs a step for every bearer of it alike. *)
LEMMA CarriesForAll ==
    ASSUME plan \in Plans, NEW s, NEW i \in Payout, NEW k \in Bearers(s, i), NEW h
    PROVE  /\ k \in Payout /\ k \in Bearers(s, k)
           /\ Carries(h, s, i) <=> Carries(h, s, k)
           /\ Succeeded(h, s, i) <=> Succeeded(h, s, k)
<1>1. k \in Payout /\ (s # "poolWithdraw" => k = i)
  BY BearersAre
<1> QED BY <1>1 DEF Carries, Succeeded, Bearers

----------------------------------------------------------------------------
(* What the environment leaves as it is *)

Grows ==
    /\ UNCHANGED <<journalVars, plan>>
    /\ \A h \in Hashes : tx[h].state # "unused" =>
          /\ tx'[h].state # "unused" /\ tx'[h].step = tx[h].step /\ tx'[h].intents = tx[h].intents
          /\ tx[h].state \in {"success", "failed"} => tx'[h].state = tx[h].state
    /\ \A i \in Intents : status'[i] >= status[i]
    /\ status' \in [Intents -> 0..6]

LEMMA AtGrows ==
    ASSUME TypeOK, Grows, NEW p, NEW j \in JobRec, At(p, j)
    PROVE  At(p, j)'
<1>0. /\ plan \in Plans /\ status \in [Intents -> 0..6] /\ submitted \in [Intents -> [Steps -> SUBSET Hashes]]
  BY DEF TypeOK, JournalTypeOK
<1>1. /\ Payout' = Payout /\ Sharers' = Sharers /\ \A s, i : Bearers(s, i)' = Bearers(s, i)
      /\ Payout \subseteq Intents
  BY <1>0, PlanIs DEF Grows, Payout, Sharers, Bearers
<1>2. AllAccepted => AllAccepted'
  BY <1>0, <1>1 DEF AllAccepted, Grows
<1>3. AllBacked => AllBacked'
  BY <1>1 DEF AllBacked, Recorded, Grows, journalVars
<1>4. Accounted(j) => Accounted(j)'
  BY <1>0, <1>1 DEF Accounted, Grows
<1>5. InStep(j) => InStep(j)'
  BY <1>1, <1>2, <1>3, <1>4 DEF InStep
<1>6. \A h, s, i : /\ Carries(h, s, i) => Carries(h, s, i)'
                   /\ Succeeded(h, s, i) => Succeeded(h, s, i)'
  BY <1>1 DEF Carries, Succeeded, Grows
<1>7. \A left : RoundDone(j, left) => RoundDone(j, left)'
  BY <1>1 DEF RoundDone, Recorded, Grows, journalVars
<1>8. ASSUME NEW s \in Steps, NEW i \in Payout, NEW k \in Bearers(s, i), NEW h \in submitted[k][s], Failed(h)
      PROVE  Failed(h)'
  <2>1. h \in Hashes
    BY <1>0, <1>1, BearersAre
  <2> QED BY <1>8, <2>1 DEF Failed, Grows
<1>s. j.step \in Steps
  BY DEF JobRec
<1>9. checkpoint' = checkpoint /\ submitted' = submitted
  BY DEF Grows, journalVars
<1> QED
  <2>1. CASE p = "idle"
    BY <2>1 DEF At
  <2>2. CASE p \in {"accept", "check"}
    BY <1>1, <2>2 DEF At
  <2>3. CASE p = "loop"
    BY <1>1, <1>3, <1>4, <2>3 DEF At
  <2>4. CASE p = "replay"
    <3>1. InStep(j) /\ j.todo \subseteq submitted[j.key][j.step]
      BY <2>4 DEF At
    <3>2. CASE j.hash = NoHash
      <4>1. BlankSoFar(j)
        BY <2>4, <3>2 DEF At
      <4>2. BlankSoFar(j)'
        BY <1>1, <1>s, <1>8, <1>9, <3>1, <4>1 DEF BlankSoFar, InStep, Recorded
      <4> QED BY <1>5, <1>9, <2>4, <3>1, <3>2, <4>2 DEF At
    <3>3. CASE j.hash # NoHash
      BY <1>5, <1>6, <1>9, <2>4, <3>1, <3>3 DEF At
    <3> QED BY <3>2, <3>3
  <2>5. CASE p = "send"
    <3>1. InStep(j) /\ Blank(j.step, j.child)
      BY <2>5 DEF At
    <3>2. Blank(j.step, j.child)'
      BY <1>1, <1>s, <1>8, <1>9, <3>1 DEF Blank, InStep, Recorded
    <3> QED BY <1>5, <2>5, <3>1, <3>2 DEF At
  <2>6. CASE p \in {"sent", "receipt"}
    BY <1>5, <1>6, <2>6 DEF At
  <2>7. CASE p = "local"
    BY <1>5, <1>6, <1>7, <2>7 DEF At
  <2>8. CASE p \notin {"idle", "check", "accept", "loop", "replay", "send", "sent", "receipt", "local"}
    BY <1>5, <1>7, <1>9, <2>8 DEF At
  <2> QED BY <2>1, <2>2, <2>3, <2>4, <2>5, <2>6, <2>7, <2>8

----------------------------------------------------------------------------
(* A turn: one worker moves, to a place where it may stand *)

AllEnded == \A i \in Payout : status[i] >= 4

(* The other workers are idle; the inbox record is closed when all has ended. *)
Turn(w) ==
    /\ \A u \in Workers \ {w} : pc[u] = "idle"
    /\ \E p \in Place, j \in JobRec :
          /\ pc' = [pc EXCEPT ![w] = p] /\ job' = [job EXCEPT ![w] = j]
          /\ busy' = (p # "idle") /\ At(p, j)'
    /\ closed' = closed \/ (closed' = closed \cup {w} /\ AllEnded')

(* The part of the invariant that speaks of the workers. *)
WorkersTyped ==
    /\ pc \in [Workers -> Place] /\ job \in [Workers -> JobRec]
    /\ \A w \in Workers : pc[w] \in {"sent", "receipt", "local", "remote"} =>
          job[w].hash \in Hashes /\ job[w].key \in Intents
    /\ busy \in BOOLEAN /\ closed \subseteq Workers

LEMMA NoJobIs == NoJob \in JobRec
  BY DEF NoJob, JobRec, Steps, OptHash

LEMMA TypeParts ==
    TypeOK <=> /\ JournalTypeOK /\ plan \in Plans /\ status \in [Intents -> 0..6]
               /\ spent \in BOOLEAN /\ verdict \in [Intents -> {"open", "delivered", "refundable"}]
               /\ tx \in [Hashes -> [state : {"unused", "mempool", "success", "failed"},
                                     step : Steps, intents : SUBSET Intents]]
               /\ sent \in Nat /\ remote \in [Intents -> [Steps -> OptHash]]
               /\ WorkersTyped /\ faults \in 0..MaxFaults
  BY DEF TypeOK, WorkersTyped, JobRec

LEMMA TurnIs ==
    ASSUME TypeOK, plan' = plan, NEW w \in Workers, Turn(w)
    PROVE  WorkersTyped' /\ Alone' /\ WorkersAt'
<1>1. PICK p \in Place, j \in JobRec :
          /\ pc' = [pc EXCEPT ![w] = p] /\ job' = [job EXCEPT ![w] = j]
          /\ busy' = (p # "idle") /\ At(p, j)'
  BY DEF Turn
<1>2. /\ plan \in Plans /\ closed \subseteq Workers
      /\ pc \in [Workers -> Place] /\ job \in [Workers -> JobRec]
  BY TypeParts DEF WorkersTyped
<1>3. \A u \in Workers : (u = w /\ pc'[u] = p /\ job'[u] = j) \/ (u # w /\ pc'[u] = "idle")
  BY <1>1, <1>2 DEF Turn
<1>4. Payout' = Payout /\ Sharers' = Sharers /\ Payout \subseteq Intents /\ Sharers \subseteq Payout
  BY <1>2, PlanIs DEF Payout, Sharers
<1>5. ASSUME p \in {"sent", "receipt", "local", "remote"} PROVE j.hash \in Hashes /\ j.key \in Intents
  <2>1. InStep(j)'
    BY <1>1, <1>5 DEF At
  <2>2. j.key \in Intents
    BY <2>1, <1>4 DEF InStep, Bearers
  <2>3. j.hash \in Hashes
    <3>1. CASE p \in {"sent", "receipt"}
      BY <1>1, <3>1 DEF At, Carries
    <3>2. CASE p = "local"
      BY <1>1, <3>2 DEF At, Succeeded, Carries
    <3>3. CASE p = "remote"
      BY <1>1, <3>3 DEF At, JobRec, OptHash
    <3> QED BY <1>5, <3>1, <3>2, <3>3
  <2> QED BY <2>2, <2>3
<1>6. WorkersTyped'
  <2>1. pc' \in [Workers -> Place] /\ job' \in [Workers -> JobRec]
    BY <1>1, <1>2
  <2>2. \A u \in Workers : pc'[u] \in {"sent", "receipt", "local", "remote"} =>
            job'[u].hash \in Hashes /\ job'[u].key \in Intents
    BY <1>3, <1>5
  <2>3. busy' \in BOOLEAN /\ closed' \subseteq Workers
    BY <1>1, <1>2 DEF Turn
  <2> QED BY <2>1, <2>2, <2>3 DEF WorkersTyped
<1>7. Alone'
  BY <1>1, <1>3 DEF Alone
<1>8. WorkersAt'
  <2> SUFFICES ASSUME NEW u \in Workers, NEW q \in {pc'[u]}, NEW k \in {job'[u]} PROVE At(q, k)'
    BY DEF WorkersAt
  <2>1. CASE u = w
    <3>1. q = p /\ k = j
      BY <1>3, <2>1
    <3> QED BY <1>1, <3>1
  <2>2. CASE u # w
    BY <1>3, <2>2 DEF At
  <2> QED BY <2>1, <2>2
<1> QED BY <1>6, <1>7, <1>8

LEMMA OthersIdle ==
    ASSUME Alone, NEW w \in Workers, pc[w] # "idle"
    PROVE  busy /\ \A u \in Workers \ {w} : pc[u] = "idle"
  BY DEF Alone

LEMMA GotoTurns ==
    ASSUME Alone, TypeOK, NEW w \in Workers, pc[w] # "idle",
           NEW p \in Place \ {"idle"}, NEW j \in JobRec, Goto(w, p, j), At(p, j)'
    PROVE  Turn(w)
<1>1. busy = TRUE
  BY OthersIdle, TypeParts DEF WorkersTyped
<1> QED BY <1>1, OthersIdle DEF Turn, Goto

LEMMA LeaveTurns ==
    ASSUME Alone, NEW w \in Workers, pc[w] # "idle", Leave(w),
           closed' = closed \/ (closed' = closed \cup {w} /\ AllEnded')
    PROVE  Turn(w)
<1>1. "idle" \in Place /\ At("idle", NoJob)'
  BY DEF At, Place
<1> QED BY <1>1, NoJobIs, OthersIdle DEF Turn, Leave

LEMMA FailTurns ==
    ASSUME Alone, NEW w \in Workers, pc[w] # "idle", Fail(w)
    PROVE  Turn(w)
  BY LeaveTurns DEF Fail

LEMMA EndTurns ==
    ASSUME Alone, NEW w \in Workers, pc[w] # "idle", End(w),
           plan.version = 4 /\ ~job[w].more => AllEnded'
    PROVE  Turn(w)
<1>1. closed' = closed \/ (closed' = closed \cup {w} /\ AllEnded')
  BY DEF End
<1> QED BY <1>1, LeaveTurns DEF End

----------------------------------------------------------------------------
(* What the continuations make of a job *)

LEMMA RecordAllIs ==
    ASSUME plan \in Plans, NEW w, job[w] \in JobRec, NEW i \in Payout, NEW s \in Steps,
           NEW h \in OptHash, NEW place, RecordAll(w, i, s, h, place)
    PROVE  \E j \in JobRec :
              /\ Goto(w, place, j)
              /\ j.child = i /\ j.step = s /\ j.hash = h /\ j.key \in Bearers(s, i)
              /\ j.keys = Bearers(s, i) \ {j.key} /\ j.all
              /\ j.left = job[w].left /\ j.more = job[w].more
<1> DEFINE k == Min(Bearers(s, i))
           j == [job[w] EXCEPT !.child = i, !.step = s, !.hash = h, !.key = k,
                               !.keys = Bearers(s, i) \ {k}, !.todo = {}, !.all = TRUE]
<1>1. k \in Bearers(s, i) /\ Bearers(s, i) \subseteq Intents /\ i \in Intents
  BY BearersAre, PlanIs
<1>2. Goto(w, place, j)
  BY DEF RecordAll
<1> HIDE DEF k
<1>3. j \in JobRec
  BY <1>1 DEF JobRec
<1>4. /\ j.child = i /\ j.step = s /\ j.hash = h /\ j.key = k
      /\ j.keys = Bearers(s, i) \ {k} /\ j.all = TRUE
      /\ j.left = job[w].left /\ j.more = job[w].more
  BY DEF JobRec
<1> HIDE DEF j
<1> QED BY <1>1, <1>2, <1>3, <1>4

LEMMA ReplayingIs ==
    ASSUME plan \in Plans, JournalTypeOK, NEW w, job[w] \in JobRec, NEW i \in Payout, NEW s \in Steps,
           NEW b \in BOOLEAN, Replaying(w, i, s, b)
    PROVE  \E j \in JobRec :
              /\ Goto(w, "replay", j)
              /\ j.child = i /\ j.step = s /\ j.hash = NoHash /\ j.key \in Bearers(s, i)
              /\ j.keys = Bearers(s, i) \ {j.key} /\ ~j.all /\ j.todo = submitted[j.key][s]
              /\ j.left = job[w].left /\ j.more = job[w].more
<1> DEFINE k == Min(Bearers(s, i))
           j == [job[w] EXCEPT !.child = i, !.step = s, !.send = b, !.key = k,
                               !.keys = Bearers(s, i) \ {k}, !.hash = NoHash,
                               !.todo = submitted[k][s], !.all = FALSE]
<1>1. k \in Bearers(s, i) /\ Bearers(s, i) \subseteq Intents /\ i \in Intents
  BY BearersAre, PlanIs
<1>2. Goto(w, "replay", j)
  BY DEF Replaying
<1> HIDE DEF k
<1>5. submitted[k][s] \subseteq Hashes
  BY <1>1 DEF JournalTypeOK
<1>3. j \in JobRec
  BY <1>1, <1>5 DEF JobRec, OptHash
<1>4. /\ j.child = i /\ j.step = s /\ j.hash = NoHash /\ j.key = k
      /\ j.keys = Bearers(s, i) \ {k} /\ j.all = FALSE /\ j.todo = submitted[k][s]
      /\ j.left = job[w].left /\ j.more = job[w].more
  BY DEF JobRec
<1> HIDE DEF j
<1> QED BY <1>1, <1>2, <1>3, <1>4

(* After a step the worker stands in a loop again; V4 leaves its intent out  *)
(* of the delivery loop only when it has ended.                              *)
LEMMA DoneIs ==
    ASSUME plan \in Plans, NEW w, NEW j \in JobRec, j.left \subseteq Payout, Done(w, j)
    PROVE  \E p \in {"accept", "loop"}, m \in JobRec :
              /\ Goto(w, p, m) /\ m.left \subseteq Payout /\ m.more = j.more
              /\ p = "accept" <=> j.step = "acceptQuote"
              /\ j.step = "poolWithdraw" => m.left = Payout
              /\ (j.step \notin Source /\ plan.version = 4) =>
                    j.left \subseteq m.left \cup (IF j.step \in Endings THEN {j.child} ELSE {})
<1> DEFINE next == [NoJob EXCEPT !.down = j.down, !.more = j.more, !.seen = j.seen]
           A == [next EXCEPT !.left = j.left \ {j.child}]
           B == [next EXCEPT !.left = Payout, !.seen = {}]
           C == [next EXCEPT !.left = j.left]
<1>0. Payout \subseteq Intents /\ NoJob \in JobRec
  BY PlanIs, NoJobIs
<1>1. next \in JobRec /\ next.more = j.more
  BY <1>0 DEF JobRec
<1> HIDE DEF next
<1>2. /\ A \in JobRec /\ A.left = j.left \ {j.child} /\ A.more = j.more
      /\ B \in JobRec /\ B.left = Payout /\ B.more = j.more
      /\ C \in JobRec /\ C.left = j.left /\ C.more = j.more
  BY <1>0, <1>1 DEF JobRec
<1>3. CASE j.step = "acceptQuote"
  <2>1. Goto(w, "accept", A)
    BY <1>3 DEF Done, next
  <2> HIDE DEF A
  <2> QED BY <1>2, <1>3, <2>1 DEF Source
<1>4. CASE j.step = "poolWithdraw"
  <2>1. Goto(w, "loop", B)
    BY <1>4 DEF Done, next
  <2> HIDE DEF B
  <2> QED BY <1>2, <1>4, <2>1 DEF Source
<1>5. CASE j.step = "confirmEscrowReceipt"
  <2>1. Goto(w, "loop", C)
    BY <1>5 DEF Done, next
  <2> HIDE DEF C
  <2> QED BY <1>2, <1>5, <2>1 DEF Source
<1>6. CASE j.step = "submitPayout"
  <2>1. (Goto(w, "loop", A) /\ plan.version # 4) \/ Goto(w, "loop", C)
    BY <1>6 DEF Done, next
  <2> HIDE DEF A, C
  <2> QED BY <1>2, <1>6, <2>1 DEF Source
<1>7. CASE j.step \in Endings
  <2>1. Goto(w, "loop", A)
    BY <1>7 DEF Done, next, Endings
  <2> HIDE DEF A
  <2>2. j.left \subseteq A.left \cup {j.child}
    BY <1>2
  <2> QED BY <1>2, <1>7, <2>1, <2>2 DEF Source, Endings
<1> QED BY <1>3, <1>4, <1>5, <1>6, <1>7 DEF JobRec, Steps, Endings

----------------------------------------------------------------------------
(* Continuations end where a worker may stand *)

LEMMA StandsTurns ==
    ASSUME TypeOK, Alone, Grows, NEW w \in Workers, pc[w] # "idle",
           NEW p \in Place \ {"idle"}, NEW j \in JobRec, Goto(w, p, j), At(p, j)
    PROVE  Turn(w)
  BY AtGrows, GotoTurns

LEMMA DoneTurns ==
    ASSUME TypeOK, Alone, plan' = plan, NEW w \in Workers, pc[w] # "idle",
           NEW j \in JobRec, j.left \subseteq Payout, Done(w, j),
           j.step # "acceptQuote" => AllBacked',
           j.step \notin Source => Accounted(j)',
           (j.step \in Endings /\ plan.version = 4) => status'[j.child] >= 4
    PROVE  Turn(w)
<1>1. PICK p \in {"accept", "loop"}, m \in JobRec :
              /\ Goto(w, p, m) /\ m.left \subseteq Payout /\ m.more = j.more
              /\ p = "accept" <=> j.step = "acceptQuote"
              /\ j.step = "poolWithdraw" => m.left = Payout
              /\ (j.step \notin Source /\ plan.version = 4) =>
                    j.left \subseteq m.left \cup (IF j.step \in Endings THEN {j.child} ELSE {})
  BY DoneIs, TypeParts
<1>2. Payout' = Payout
  BY DEF Payout
<1>3. CASE p = "accept"
  BY <1>1, <1>2, <1>3, GotoTurns DEF At, Place
<1>4. CASE p = "loop"
  <2>1. Accounted(m)'
    <3> SUFFICES ASSUME plan.version = 4, ~m.more, NEW i \in Payout, i \notin m.left
                 PROVE  status'[i] >= 4
      BY <1>2 DEF Accounted
    <3>1. j.step \notin Source
      BY <1>1, <1>4 DEF Source
    <3>2. CASE i \in j.left
      BY <1>1, <3>1, <3>2
    <3>3. CASE i \notin j.left
      BY <1>1, <1>2, <3>1, <3>3 DEF Accounted
    <3> QED BY <3>2, <3>3
  <2>2. At("loop", m)'
    BY <1>1, <1>2, <1>4, <2>1 DEF At
  <2> QED BY <1>1, <1>4, <2>2, GotoTurns DEF Place
<1> QED BY <1>1, <1>3, <1>4

(* A round that begins has everything before it. *)
LEMMA FreshRound ==
    ASSUME plan \in Plans, plan' = plan, NEW m, m.child \in Payout,
           m.key \in Bearers(m.step, m.child), m.keys = Bearers(m.step, m.child) \ {m.key}
    PROVE  RoundDone(m, m.keys \cup {m.key}) /\ RoundDone(m, m.keys \cup {m.key})'
<1>1. m.keys \cup {m.key} = Bearers(m.step, m.child)
  OBVIOUS
<1>2. m.step = "poolWithdraw" => m.keys \cup {m.key} = Sharers
  BY <1>1, BearersAre
<1>3. Sharers' = Sharers
  BY DEF Sharers, Payout
<1> QED BY <1>2, <1>3 DEF RoundDone

(* A step that is in the journal of all its bearers backs what comes after.  *)
LEMMA NextKeyTurns ==
    ASSUME TypeOK, Alone, JournalTrue', ChainTrue', plan' = plan, submitted' = submitted,
           JournalTypeOK', NEW w \in Workers, pc[w] # "idle", NEW j, j = job[w],
           At("remote", j)', NextKey(w)
    PROVE  Turn(w)
<1>0. /\ plan \in Plans /\ j \in JobRec /\ Payout' = Payout /\ Sharers' = Sharers
      /\ Payout \subseteq Nat /\ Payout \subseteq Intents /\ Sharers \subseteq Payout
      /\ JournalTypeOK
      /\ \A s, i : Bearers(s, i)' = Bearers(s, i)
  BY TypeParts, PlanIs DEF WorkersTyped, Payout, Sharers, Bearers
<1>1. /\ InStep(j)' /\ checkpoint'[j.key][j.step] = j.hash /\ j.hash # NoHash
      /\ RoundDone(j, j.keys)'
  BY DEF At
<1>2. /\ j.child \in Payout /\ j.key \in Bearers(j.step, j.child) /\ j.left \subseteq Payout
      /\ j.keys \subseteq Bearers(j.step, j.child) /\ j.step \in Steps /\ j.hash \in Hashes
      /\ j.keys \in SUBSET Nat /\ Bearers(j.step, j.child) \subseteq Intents
  BY <1>0, <1>1, BearersAre DEF InStep, JobRec, OptHash
<1>3. Succeeded(j.hash, j.step, j.child)'
  <2>1. j.key \in Payout /\ (j.step # "poolWithdraw" => j.key = j.child)
    BY <1>0, <1>2, BearersAre
  <2>2. Succeeded(j.hash, j.step, j.key)'
    BY <1>0, <1>1, <1>2, <2>1 DEF JournalTrue, Recorded
  <2> QED BY <2>1, <2>2 DEF Succeeded, Carries
<1> DEFINE k == Min(j.keys)
<1>4. j.keys # {} => k \in j.keys
  BY <1>2, MinIs
<1>5. CASE j.keys # {} /\ j.all
  <2> DEFINE m == [j EXCEPT !.key = k, !.keys = @ \ {k}]
  <2>1. Goto(w, "local", m)
    BY <1>5 DEF NextKey
  <2> HIDE DEF k
  <2>2. m \in JobRec /\ m.key = k /\ m.keys = j.keys \ {k} /\ m.child = j.child /\ m.step = j.step
        /\ m.hash = j.hash /\ m.left = j.left /\ m.more = j.more /\ m.all = j.all
    BY <1>0, <1>2, <1>4, <1>5 DEF JobRec
  <2> HIDE DEF m
  <2>a. PICK n \in JobRec : n = m
    BY <2>2
  <2>3. InStep(n)'
    BY <1>0, <1>1, <1>2, <1>4, <1>5, <2>2, <2>a DEF InStep, Accounted
  <2>4. RoundDone(n, n.keys \cup {n.key})'
    <3>1. n.keys \cup {n.key} = j.keys
      BY <1>4, <1>5, <2>2, <2>a
    <3>2. n.step = j.step /\ n.all = j.all
      BY <2>2, <2>a
    <3> QED BY <1>1, <3>1, <3>2 DEF RoundDone
  <2>5. At("local", n)'
    BY <1>3, <2>2, <2>a, <2>3, <2>4 DEF At
  <2> QED BY <2>1, <2>a, <2>5, GotoTurns DEF Place
<1>6. CASE j.keys # {} /\ ~j.all
  <2> DEFINE m == [j EXCEPT !.key = k, !.keys = @ \ {k}, !.todo = submitted[k][j.step]]
  <2>1. Goto(w, "replay", m)
    BY <1>6 DEF NextKey
  <2> HIDE DEF k
  <2>0. submitted[k][j.step] \subseteq Hashes
    BY <1>0, <1>2, <1>4, <1>6 DEF JournalTypeOK
  <2>2. m \in JobRec /\ m.key = k /\ m.keys = j.keys \ {k} /\ m.child = j.child /\ m.step = j.step
        /\ m.hash = j.hash /\ m.left = j.left /\ m.more = j.more /\ m.all = j.all
        /\ m.todo = submitted[k][j.step]
    BY <1>0, <1>2, <1>4, <1>6, <2>0 DEF JobRec
  <2> HIDE DEF m
  <2>a. PICK n \in JobRec : n = m
    BY <2>2
  <2>3. InStep(n)'
    BY <1>0, <1>1, <1>2, <1>4, <1>6, <2>2, <2>a DEF InStep, Accounted
  <2>4. n.todo \subseteq submitted'[n.key][n.step]
    BY <2>2, <2>a
  <2>5. At("replay", n)'
    BY <1>1, <1>3, <1>6, <2>2, <2>a, <2>3, <2>4 DEF At
  <2> QED BY <2>1, <2>a, <2>5, GotoTurns DEF Place
<1>7. CASE j.keys = {} /\ (j.all \/ Cardinality(Bearers(j.step, j.child)) = 1)
  <2>1. Done(w, j)
    BY <1>7 DEF NextKey
  <2>2. j.step # "acceptQuote" => AllBacked'
    <3>1. CASE j.step = "poolWithdraw" /\ j.all
      BY <1>1, <1>7, <3>1 DEF RoundDone, AllBacked
    <3>2. CASE j.step = "poolWithdraw" /\ Cardinality(Bearers(j.step, j.child)) = 1
      <4>1. Sharers = {j.key}
        BY <1>0, <1>2, <3>2, BearersAre
      <4> QED BY <1>0, <1>1, <3>2, <4>1 DEF AllBacked, Recorded
    <3>3. CASE j.step \notin Source
      BY <1>1, <3>3 DEF InStep
    <3> QED BY <1>7, <3>1, <3>2, <3>3 DEF Source
  <2>3. j.step \notin Source => Accounted(j)'
    BY <1>1 DEF InStep
  <2>4. ASSUME j.step \in Endings PROVE status'[j.child] >= 4
    <3>1. Carries(j.hash, j.step, j.child)' /\ tx'[j.hash].state = "success"
      BY <1>3 DEF Succeeded
    <3>2. tx'[j.hash].step = j.step /\ tx'[j.hash].intents = {j.child} /\ j.hash \in Hashes
      BY <2>4, <3>1 DEF Carries, Endings
    <3> QED BY <2>4, <3>1, <3>2 DEF ChainTrue, Carries
  <2> QED BY <1>0, <1>2, <2>1, <2>2, <2>3, <2>4, DoneTurns
<1>8. CASE j.keys = {} /\ ~j.all /\ Cardinality(Bearers(j.step, j.child)) # 1
  <2>1. RecordAll(w, j.child, j.step, j.hash, "local")
    BY <1>8 DEF NextKey
  <2>2. PICK m \in JobRec :
              /\ Goto(w, "local", m)
              /\ m.child = j.child /\ m.step = j.step /\ m.hash = j.hash
              /\ m.key \in Bearers(j.step, j.child)
              /\ m.keys = Bearers(j.step, j.child) \ {m.key} /\ m.all
              /\ m.left = j.left /\ m.more = j.more
    BY <1>0, <1>2, <2>1, RecordAllIs DEF JobRec
  <2>3. InStep(m)'
    BY <1>0, <1>1, <1>2, <2>2 DEF InStep, Accounted
  <2>4. RoundDone(m, m.keys \cup {m.key})'
    BY <1>0, <1>2, <2>2, FreshRound
  <2>5. At("local", m)'
    BY <1>3, <2>2, <2>3, <2>4 DEF At
  <2> QED BY <2>2, <2>5, GotoTurns DEF Place
<1> QED BY <1>5, <1>6, <1>7, <1>8

(* The continuations of a step that only reads; the step may be one the      *)
(* payout does not need yet, or one that has only one bearer.                *)
LEMMA RecordAllStands ==
    ASSUME TypeOK, Alone, Grows, NEW w \in Workers, pc[w] # "idle",
           NEW i \in Payout, NEW s \in Steps, NEW h, job[w].left \subseteq Payout,
           s = "poolWithdraw" => AllAccepted,
           s \notin Source => AllBacked /\ Accounted(job[w]),
           Succeeded(h, s, i), RecordAll(w, i, s, h, "local")
    PROVE  Turn(w)
<1>0. plan \in Plans /\ job[w] \in JobRec /\ h \in OptHash /\ plan' = plan
  BY TypeParts DEF WorkersTyped, Succeeded, Carries, OptHash, Grows
<1>1. PICK m \in JobRec :
            /\ Goto(w, "local", m)
            /\ m.child = i /\ m.step = s /\ m.hash = h /\ m.key \in Bearers(s, i)
            /\ m.keys = Bearers(s, i) \ {m.key} /\ m.all
            /\ m.left = job[w].left /\ m.more = job[w].more
  BY <1>0, RecordAllIs
<1>2. InStep(m)
  BY <1>0, <1>1 DEF InStep, Accounted
<1>3. RoundDone(m, m.keys \cup {m.key})
  BY <1>0, <1>1, FreshRound
<1>4. At("local", m)
  BY <1>1, <1>2, <1>3 DEF At
<1> QED BY <1>1, <1>4, StandsTurns DEF Place

LEMMA ReplayingStands ==
    ASSUME TypeOK, Alone, Grows, NEW w \in Workers, pc[w] # "idle",
           NEW i \in Payout, NEW s \in Steps, NEW b \in BOOLEAN, job[w].left \subseteq Payout,
           s = "poolWithdraw" => AllAccepted,
           s \notin Source => AllBacked /\ Accounted(job[w]),
           \A k \in Bearers(s, i) : ~Recorded(k, s), Replaying(w, i, s, b)
    PROVE  Turn(w)
<1>0. plan \in Plans /\ job[w] \in JobRec /\ JournalTypeOK
  BY TypeParts DEF WorkersTyped
<1>1. PICK m \in JobRec :
            /\ Goto(w, "replay", m)
            /\ m.child = i /\ m.step = s /\ m.hash = NoHash /\ m.key \in Bearers(s, i)
            /\ m.keys = Bearers(s, i) \ {m.key} /\ ~m.all /\ m.todo = submitted[m.key][s]
            /\ m.left = job[w].left /\ m.more = job[w].more
  BY <1>0, ReplayingIs
<1>2. InStep(m)
  BY <1>0, <1>1 DEF InStep, Accounted
<1>3. BlankSoFar(m)
  BY <1>1 DEF BlankSoFar
<1>4. At("replay", m)
  BY <1>1, <1>2, <1>3 DEF At
<1> QED BY <1>1, <1>4, StandsTurns DEF Place

LEMMA PerformStands ==
    ASSUME TypeOK, Alone, JournalTrue, Grows, NEW w \in Workers, pc[w] # "idle",
           NEW i \in Payout, NEW s \in Steps, job[w].left \subseteq Payout,
           Bearers(s, i) = {i}, s = "poolWithdraw" => AllAccepted,
           s \notin Source => AllBacked /\ Accounted(job[w]),
           Perform(w, i, s)
    PROVE  Turn(w)
<1>0. /\ plan \in Plans /\ job[w] \in JobRec /\ JournalTypeOK /\ plan' = plan
      /\ i \in Intents /\ Payout \subseteq Intents
  BY TypeParts, PlanIs DEF WorkersTyped, Grows
<1>1. CASE Recorded(i, s) /\ plan.version = 4
  <2>0. checkpoint[i][s] \in OptHash
    BY <1>0 DEF JournalTypeOK, OptHash
  <2>1. PICK h \in OptHash : h = checkpoint[i][s]
    BY <2>0
  <2>2. RecordAll(w, i, s, h, "remote")
    BY <1>1, <2>1 DEF Perform
  <2>9. h # NoHash
    BY <1>1, <2>1 DEF Recorded
  <2>3. PICK m \in JobRec :
            /\ Goto(w, "remote", m)
            /\ m.child = i /\ m.step = s /\ m.hash = h /\ m.key \in Bearers(s, i)
            /\ m.keys = Bearers(s, i) \ {m.key} /\ m.all
            /\ m.left = job[w].left /\ m.more = job[w].more
    BY <1>0, <2>2, RecordAllIs
  <2>4. InStep(m)
    BY <1>0, <2>3 DEF InStep, Accounted
  <2>5. m.key = i /\ m.keys = {}
    BY <2>3
  <2>6. s = "poolWithdraw" => Sharers = {i}
    BY DEF Bearers
  <2>7. RoundDone(m, m.keys)
    BY <1>1, <2>3, <2>6 DEF RoundDone
  <2>8. At("remote", m)
    BY <2>1, <2>9, <2>3, <2>4, <2>5, <2>7 DEF At
  <2> QED BY <2>3, <2>8, StandsTurns DEF Place
<1>2. CASE Recorded(i, s) /\ plan.version # 4
  <2> DEFINE m == [job[w] EXCEPT !.child = i, !.step = s]
  <2>1. Done(w, m)
    BY <1>2 DEF Perform
  <2>2. m \in JobRec /\ m.left = job[w].left /\ m.more = job[w].more /\ m.step = s
    BY <1>0 DEF JobRec
  <2> HIDE DEF m
  <2>a. PICK n \in JobRec : n = m
    BY <2>2
  <2>3. s # "acceptQuote" => AllBacked
    <3>1. s = "poolWithdraw" => Sharers = {i}
      BY DEF Bearers
    <3> QED BY <1>2, <3>1 DEF AllBacked, Source
  <2>4. Accounted(n)
    BY <1>2 DEF Accounted
  <2>5. s # "acceptQuote" => At("loop", n)
    BY <2>2, <2>a, <2>3, <2>4 DEF At
  <2>6. s # "acceptQuote" => At("loop", n)'
    BY <2>5, AtGrows
  <2>7. s # "acceptQuote" => AllBacked' /\ Accounted(n)'
    BY <2>6 DEF At
  <2>8. Done(w, n)
    BY <2>1, <2>a
  <2> QED BY <1>0, <1>2, <2>2, <2>a, <2>7, <2>8, DoneTurns DEF Source
<1>3. CASE ~Recorded(i, s)
  <2>1. Replaying(w, i, s, TRUE)
    BY <1>3 DEF Perform
  <2> QED BY <1>3, <2>1, ReplayingStands
<1> QED BY <1>1, <1>2, <1>3

----------------------------------------------------------------------------
(* The steps that only read *)

Inv0 == TypeOK /\ JournalTrue /\ ChainTrue /\ Alone /\ WorkersAt

LEMMA QuietGrows ==
    ASSUME TypeOK, UNCHANGED <<journalVars, plan, tx, status>>
    PROVE  Grows
<1>1. status \in [Intents -> 0..6]
  BY TypeParts
<1> QED BY <1>1 DEF Grows

LEMMA TaughtIsBacked ==
    ASSUME TypeOK, ChainTrue, NEW i \in Payout, status[i] >= 2
    PROVE  AllBacked
  BY TypeParts, PlanIs DEF ChainTrue

LEMMA TakeUpTurns ==
    ASSUME TypeOK, Alone, Grows, NEW w \in Workers, ~busy, NEW p \in Place \ {"idle"}, NEW j \in JobRec,
           pc' = [pc EXCEPT ![w] = p], job' = [job EXCEPT ![w] = j], busy' = TRUE,
           closed' = closed, At(p, j)
    PROVE  Turn(w)
<1>1. At(p, j)'
  BY AtGrows
<1>2. \A u \in Workers : pc[u] = "idle"
  BY DEF Alone
<1> QED BY <1>1, <1>2 DEF Turn

LEMMA BeginTurns ==
    ASSUME Inv0, NEW w \in Workers, Begin(w)
    PROVE  Turn(w) /\ Grows /\ UNCHANGED <<journalVars, plan, chainVars, remote, faults>>
<1>0. TypeOK /\ Alone /\ ChainTrue /\ Payout \subseteq Intents /\ status \in [Intents -> 0..6]
      /\ 1 \in Payout
  BY TypeParts, PlanIs DEF Inv0
<1>1. PICK p \in {"accept", "check", "loop"}, left \in SUBSET Payout :
          /\ TakeUp(w, p, left)
          /\ p = "loop" => plan.version = 4 /\ Funded = Payout /\ left = Payout
  <2>1. ASSUME BeginV4(w)
        PROVE  TakeUp(w, "accept", Payout) \/ (Funded = Payout /\ TakeUp(w, "loop", Payout))
    BY <2>1 DEF BeginV4
  <2>2. ASSUME BeginV5(w) PROVE TakeUp(w, "check", Unaccepted) \/ TakeUp(w, "accept", Unaccepted)
    BY <2>2 DEF BeginV5
  <2>3. ASSUME BeginV6(w) PROVE TakeUp(w, "accept", Unaccepted)
    BY <2>3 DEF BeginV6
  <2>4. Unaccepted \in SUBSET Payout
    BY DEF Unaccepted
  <2>5. BeginV4(w) => plan.version = 4
    BY DEF BeginV4
  <2> QED BY <2>1, <2>2, <2>3, <2>4, <2>5 DEF Begin
<1>2. UNCHANGED <<journalVars, plan, chainVars, remote, closed, faults>> /\ ~busy /\ busy' = TRUE
  BY <1>1 DEF TakeUp
<1>3. Grows
  BY <1>0, <1>2, QuietGrows DEF chainVars
<1> DEFINE j == [NoJob EXCEPT !.left = left, !.seen = Unaccepted]
<1>4. j \in JobRec /\ j.left = left
  BY <1>0, NoJobIs DEF JobRec, Unaccepted
<1>5. pc' = [pc EXCEPT ![w] = p] /\ job' = [job EXCEPT ![w] = j]
  BY <1>1 DEF TakeUp
<1> HIDE DEF j
<1>6. PICK m \in JobRec : m = j
  BY <1>4
<1>7. p = "loop" => AllBacked
  BY <1>0, <1>1, TaughtIsBacked DEF Funded
<1>8. p = "loop" => Accounted(m)
  BY <1>1, <1>4, <1>6 DEF Accounted
<1>9. At(p, m)
  BY <1>1, <1>4, <1>6, <1>7, <1>8 DEF At
<1> QED BY <1>0, <1>1, <1>2, <1>3, <1>5, <1>6, <1>9, TakeUpTurns DEF Place

LEMMA BeginDownstreamTurns ==
    ASSUME Inv0, NEW w \in Workers, NEW i \in Intents, BeginDownstream(w, i)
    PROVE  Turn(w) /\ Grows /\ UNCHANGED <<journalVars, plan, chainVars, remote, faults>>
<1>0. TypeOK /\ Alone /\ ChainTrue /\ Payout \subseteq Intents
  BY TypeParts, PlanIs DEF Inv0
<1>1. /\ i \in Payout /\ status[i] = 3 /\ plan.version # 4 /\ ~busy
      /\ UNCHANGED <<journalVars, plan, chainVars, remote, closed, faults>> /\ busy' = TRUE
      /\ pc' = [pc EXCEPT ![w] = "loop"]
  BY DEF BeginDownstream
<1>2. Grows
  BY <1>0, <1>1, QuietGrows DEF chainVars
<1> DEFINE j == [NoJob EXCEPT !.left = {i}, !.down = TRUE]
<1>3. j \in JobRec /\ j.left = {i}
  BY NoJobIs DEF JobRec
<1>4. job' = [job EXCEPT ![w] = j]
  BY DEF BeginDownstream
<1> HIDE DEF j
<1>5. AllBacked
  BY <1>0, <1>1, TaughtIsBacked
<1>6. At("loop", j)
  BY <1>1, <1>3, <1>5 DEF At, Accounted
<1>7. PICK m \in JobRec : m = j
  BY <1>3
<1> QED BY <1>0, <1>1, <1>2, <1>4, <1>6, <1>7, TakeUpTurns DEF Place

(* What holds of a worker that stands at a place. *)
LEMMA StandsAt ==
    ASSUME Inv0, NEW w \in Workers
    PROVE  /\ TypeOK /\ JournalTrue /\ ChainTrue /\ Alone
           /\ job[w] \in JobRec /\ plan \in Plans /\ status \in [Intents -> 0..6]
           /\ Payout \subseteq Intents /\ Payout \subseteq Nat /\ 1 \in Payout /\ 1 \in Sharers
           /\ Sharers \subseteq Payout
           /\ At(pc[w], job[w])
  BY TypeParts, PlanIs DEF Inv0, WorkersAt, WorkersTyped

LEMMA SingleBearer ==
    ASSUME plan \in Plans, NEW i \in Payout, NEW s, s # "poolWithdraw"
    PROVE  Bearers(s, i) = {i}
  BY BearersAre

LEMMA AcceptTurns ==
    ASSUME Inv0, NEW w \in Workers, Accept(w)
    PROVE  Turn(w) /\ Grows /\ UNCHANGED <<journalVars, plan, chainVars, remote, faults>>
<1>0. UNCHANGED <<journalVars, plan, chainVars, remote, faults>> /\ pc[w] = "accept"
  BY DEF Accept
<1>1. /\ TypeOK /\ JournalTrue /\ Alone /\ plan \in Plans
      /\ Payout \subseteq Nat /\ job[w].left \subseteq Payout
  BY <1>0, StandsAt DEF At
<1>2. Grows
  BY <1>0, <1>1, QuietGrows DEF chainVars
<1>3. CASE job[w].left = {}
  <2>1. Goto(w, "check", NoJob)
    BY <1>3 DEF Accept
  <2>2. NoJob.left = {}
    BY DEF NoJob
  <2>3. At("check", NoJob)
    BY <2>2 DEF At
  <2>4. PICK m \in JobRec : m = NoJob
    BY NoJobIs
  <2> QED BY <1>0, <1>1, <1>2, <2>1, <2>3, <2>4, StandsTurns DEF Place
<1>4. CASE job[w].left # {}
  <2>1. PICK i \in Payout : i = Min(job[w].left)
    BY <1>1, <1>4, MinIs
  <2>2. Bearers("acceptQuote", i) = {i}
    BY <1>1, SingleBearer
  <2>3. \/ Perform(w, i, "acceptQuote")
        \/ Fail(w)
        \/ \E b \in BOOLEAN : ~Recorded(i, "acceptQuote") /\ Replaying(w, i, "acceptQuote", b)
    BY <1>4, <2>1 DEF Accept
  <2>4. "acceptQuote" \in Steps /\ "acceptQuote" \in Source
    BY DEF Steps, Source
  <2>5. CASE Perform(w, i, "acceptQuote")
    BY <1>0, <1>1, <1>2, <2>2, <2>4, <2>5, PerformStands
  <2>6. CASE Fail(w)
    BY <1>0, <1>1, <1>2, <2>6, FailTurns
  <2>7. ASSUME NEW b \in BOOLEAN, ~Recorded(i, "acceptQuote"), Replaying(w, i, "acceptQuote", b)
        PROVE  Turn(w)
    BY <1>0, <1>1, <1>2, <2>2, <2>4, <2>7, ReplayingStands
  <2> QED BY <1>0, <1>2, <2>3, <2>5, <2>6, <2>7
<1> QED BY <1>0, <1>2, <1>3, <1>4

LEMMA WithdrawStands ==
    ASSUME TypeOK, Alone, JournalTrue, Grows, NEW w \in Workers, pc[w] # "idle",
           job[w].left \subseteq Payout, AllAccepted, NEW b \in BOOLEAN, Withdraw(w, b)
    PROVE  Turn(w)
<1> DEFINE s == "poolWithdraw"
           known == {checkpoint[k][s] : k \in Sharers} \ {NoHash}
<1>0. /\ plan \in Plans /\ 1 \in Payout /\ 1 \in Sharers /\ Sharers \subseteq Payout
      /\ Payout \subseteq Intents /\ IsFiniteSet(Sharers) /\ s \in Steps /\ s \in Source
      /\ Bearers(s, 1) = Sharers
  BY TypeParts, PlanIs DEF Steps, Source, Bearers
<1>1. CASE known = {}
  <2>1. Replaying(w, 1, s, b)
    <3>1. ~(Cardinality(known) > 1)
      BY <1>1, FS_EmptySet
    <3> QED BY <1>1, <3>1 DEF Withdraw
  <2>2. \A k \in Bearers(s, 1) : ~Recorded(k, s)
    BY <1>0, <1>1 DEF Recorded
  <2> QED BY <1>0, <2>1, <2>2, ReplayingStands
<1>2. CASE known # {} /\ Cardinality(known) > 1
  <2>1. Fail(w)
    BY <1>2 DEF Withdraw
  <2> QED BY <2>1, FailTurns
<1>3. CASE known # {} /\ ~(Cardinality(known) > 1)
  <2>1. PICK h : h = CHOOSE g \in known : TRUE
    OBVIOUS
  <2>2. h \in known
    BY <1>3, <2>1
  <2>3. PICK k \in Sharers : checkpoint[k][s] = h /\ h # NoHash
    BY <2>2
  <2>4. \/ Cardinality(Sharers) = 1 /\ Perform(w, 1, s)
        \/ Fail(w)
        \/ RecordAll(w, 1, s, h, "local")
    BY <1>3, <2>1 DEF Withdraw
  <2>5. CASE Cardinality(Sharers) = 1 /\ Perform(w, 1, s)
    <3>1. Bearers(s, 1) = {1}
      BY <1>0, <2>5, BearersAre
    <3> QED BY <1>0, <2>5, <3>1, PerformStands
  <2>6. CASE Fail(w)
    BY <2>6, FailTurns
  <2>7. CASE RecordAll(w, 1, s, h, "local")
    <3>1. Succeeded(h, s, k)
      BY <1>0, <2>3 DEF JournalTrue, Recorded
    <3>2. Succeeded(h, s, 1)
      BY <3>1 DEF Succeeded, Carries
    <3> QED BY <1>0, <2>7, <3>2, RecordAllStands
  <2> QED BY <2>4, <2>5, <2>6, <2>7
<1> QED BY <1>1, <1>2, <1>3

LEMMA CheckTurns ==
    ASSUME Inv0, NEW w \in Workers, Check(w)
    PROVE  Turn(w) /\ Grows /\ UNCHANGED <<journalVars, plan, chainVars, remote, faults>>
<1>0. UNCHANGED <<journalVars, plan, chainVars, remote, faults>> /\ pc[w] = "check"
  BY DEF Check
<1>1. /\ TypeOK /\ JournalTrue /\ ChainTrue /\ Alone /\ plan \in Plans /\ 1 \in Payout
      /\ Payout \subseteq Intents /\ job[w].left \subseteq Payout
      /\ status \in [Intents -> 0..6]
  BY <1>0, StandsAt DEF At
<1>2. Grows
  BY <1>0, <1>1, QuietGrows DEF chainVars
<1>3. \/ Fail(w)
      \/ plan.version = 5 /\ End(w)
      \/ Funded # {} /\ Deliver(w)
      \/ Unaccepted = {} /\ \E b \in BOOLEAN : Withdraw(w, b)
  <2>1. ASSUME CheckV4(w)
        PROVE  Fail(w) \/ (Funded # {} /\ Deliver(w)) \/ (Unaccepted = {} /\ Withdraw(w, TRUE))
    BY <1>1, <2>1 DEF CheckV4
  <2>2. ASSUME CheckV5(w)
        PROVE  End(w) \/ (Funded # {} /\ Deliver(w)) \/ (Unaccepted = {} /\ Withdraw(w, TRUE))
    BY <2>2 DEF CheckV5
  <2>3. ASSUME CheckV5Batch(w)
        PROVE  Fail(w) \/ (Unaccepted = {} /\ Withdraw(w, Funded = {}))
    BY <2>3 DEF CheckV5Batch
  <2>4. ASSUME CheckV6(w)
        PROVE  Fail(w) \/ (Unaccepted = {} /\ \E b \in BOOLEAN : Withdraw(w, b))
    <3>1. spent \in BOOLEAN
      BY <1>1, TypeParts
    <3> QED BY <2>4, <3>1 DEF CheckV6
  <2>5. \/ CheckV4(w) \/ (plan.version = 5 /\ CheckV5(w))
        \/ CheckV5Batch(w) \/ CheckV6(w)
    BY <1>1, PlanIs DEF Check
  <2> QED BY <2>1, <2>2, <2>3, <2>4, <2>5
<1>4. CASE Fail(w)
  BY <1>0, <1>1, <1>2, <1>4, FailTurns
<1>5. CASE plan.version = 5 /\ End(w)
  BY <1>0, <1>1, <1>2, <1>5, EndTurns
<1>6. CASE Funded # {} /\ Deliver(w)
  <2> DEFINE j == [NoJob EXCEPT !.left = Payout]
  <2>1. j \in JobRec /\ j.left = Payout
    BY <1>1, NoJobIs DEF JobRec
  <2>2. Goto(w, "loop", j)
    BY <1>6 DEF Deliver
  <2> HIDE DEF j
  <2>3. PICK m \in JobRec : m = j
    BY <2>1
  <2>4. AllBacked
    BY <1>1, <1>6, TaughtIsBacked DEF Funded
  <2>5. At("loop", m)
    BY <2>1, <2>3, <2>4 DEF At, Accounted
  <2> QED BY <1>0, <1>1, <1>2, <2>2, <2>3, <2>5, StandsTurns DEF Place
<1>7. ASSUME Unaccepted = {}, NEW b \in BOOLEAN, Withdraw(w, b) PROVE Turn(w)
  <2>1. AllAccepted
    BY <1>1, <1>7 DEF Unaccepted, AllAccepted
  <2> QED BY <1>0, <1>1, <1>2, <1>7, <2>1, WithdrawStands
<1> QED BY <1>0, <1>2, <1>3, <1>4, <1>5, <1>6, <1>7

(* A worker in the delivery loop goes on to another intent. *)
LEMMA SkipStands ==
    ASSUME TypeOK, Alone, Grows, NEW w \in Workers, pc[w] = "loop", At("loop", job[w]),
           NEW i \in Payout, NEW b \in BOOLEAN, Skip(w, i, b),
           plan.version = 4 => b \/ status[i] >= 4
    PROVE  Turn(w)
<1>0. job[w] \in JobRec
  BY TypeParts DEF WorkersTyped
<1> DEFINE j == [job[w] EXCEPT !.left = @ \ {i}, !.more = @ \/ b]
<1>1. j \in JobRec /\ j.left = job[w].left \ {i} /\ j.more = (job[w].more \/ b)
  BY <1>0 DEF JobRec
<1>2. Goto(w, "loop", j)
  BY DEF Skip
<1> HIDE DEF j
<1>3. Accounted(j)
  BY <1>1 DEF At, Accounted
<1>4. At("loop", j)
  BY <1>1, <1>3 DEF At
<1>5. PICK m \in JobRec : m = j
  BY <1>1
<1> QED BY <1>2, <1>4, <1>5, StandsTurns DEF Place

LEMMA LoopTurns ==
    ASSUME Inv0, NEW w \in Workers, Loop(w)
    PROVE  Turn(w) /\ Grows /\ UNCHANGED <<journalVars, plan, chainVars, remote, faults>>
<1>0. UNCHANGED <<journalVars, plan, chainVars, remote, faults>> /\ pc[w] = "loop"
  BY DEF Loop
<1>1. /\ TypeOK /\ JournalTrue /\ ChainTrue /\ Alone /\ plan \in Plans
      /\ Payout \subseteq Intents /\ Payout \subseteq Nat /\ job[w].left \subseteq Payout
      /\ status \in [Intents -> 0..6] /\ AllBacked /\ Accounted(job[w]) /\ At("loop", job[w])
  BY <1>0, StandsAt DEF At
<1>2. Grows
  BY <1>0, <1>1, QuietGrows DEF chainVars
<1>3. CASE job[w].left = {}
  <2>1. End(w)
    BY <1>3 DEF Loop
  <2>2. plan.version = 4 /\ ~job[w].more => AllEnded
    BY <1>1, <1>3 DEF Accounted, AllEnded
  <2>3. AllEnded => AllEnded'
    BY <1>0 DEF AllEnded, Payout, chainVars
  <2> QED BY <1>0, <1>1, <1>2, <2>1, <2>2, <2>3, EndTurns
<1>4. CASE job[w].left # {}
  <2>1. PICK i \in Payout : i = Min(job[w].left)
    BY <1>1, <1>4, MinIs
  <2>2. Visit(w, i)
    BY <1>4, <2>1 DEF Loop
  <2>3. \/ Fail(w)
        \/ \E s \in Steps \ Source : Perform(w, i, s)
        \/ \E b \in BOOLEAN : Skip(w, i, b) /\ (plan.version = 4 => b \/ status[i] >= 4)
    <3>0. /\ "confirmEscrowReceipt" \in Steps \ Source /\ "submitPayout" \in Steps \ Source
          /\ "completePayout" \in Steps \ Source /\ "proveRelayRefund" \in Steps \ Source
      BY DEF Steps, Source
    <3>1. Certified(i) # "none" => Certified(i) \in Steps \ Source
      BY <3>0 DEF Certified
    <3>2. plan.version = 4 => VisitV4(w, i)
      BY <2>2 DEF Visit
    <3>3. plan.version # 4 => VisitDownstream(w, i) \/ VisitV5(w, i) \/ VisitSource(w, i)
      BY <2>2 DEF Visit
    <3>a. status[i] \in 0..6
      BY <1>1
    <3>4. VisitV4(w, i) => \/ Fail(w)
                           \/ \E s \in Steps \ Source : Perform(w, i, s)
                           \/ Skip(w, i, FALSE) /\ status[i] >= 4
                           \/ Skip(w, i, TRUE)
      BY <3>0, <3>a DEF VisitV4
    <3>5. VisitDownstream(w, i) => \/ \E s \in Steps \ Source : Perform(w, i, s)
                                   \/ Skip(w, i, FALSE)
      BY <3>1 DEF VisitDownstream
    <3>6. VisitSource(w, i) => \/ \E s \in Steps \ Source : Perform(w, i, s)
                               \/ Skip(w, i, FALSE)
      BY <3>0 DEF VisitSource
    <3>7. VisitV5(w, i) => \/ Fail(w)
                           \/ \E s \in Steps \ Source : Perform(w, i, s)
                           \/ Skip(w, i, FALSE)
      BY <3>0, <3>1 DEF VisitV5
    <3>8. TRUE \in BOOLEAN /\ FALSE \in BOOLEAN
      OBVIOUS
    <3> QED BY <3>2, <3>3, <3>4, <3>5, <3>6, <3>7, <3>8
  <2>4. CASE Fail(w)
    BY <1>0, <1>1, <1>2, <2>4, FailTurns
  <2>5. ASSUME NEW s \in Steps \ Source, Perform(w, i, s) PROVE Turn(w)
    <3>1. Bearers(s, i) = {i} /\ s # "poolWithdraw"
      BY <1>1, <2>5, SingleBearer DEF Source
    <3> QED BY <1>0, <1>1, <1>2, <2>5, <3>1, PerformStands
  <2>6. ASSUME NEW b \in BOOLEAN, Skip(w, i, b), plan.version = 4 => b \/ status[i] >= 4 PROVE Turn(w)
    BY <1>0, <1>1, <1>2, <2>6, SkipStands
  <2> QED BY <1>0, <1>2, <2>3, <2>4, <2>5, <2>6
<1> QED BY <1>0, <1>2, <1>3, <1>4

(* The newest of the submissions still to be looked at is one of them. *)
LEMMA NewestIs ==
    ASSUME TypeOK, JournalTrue, ChainTrue, NEW i \in Payout, NEW s \in Steps,
           NEW T \in SUBSET submitted[i][s], T # {}
    PROVE  Max(T) \in T /\ Carries(Max(T), s, i)
<1>1. i \in Intents /\ sent \in Nat /\ Hashes \subseteq Nat
  BY TypeParts, PlanIs, HashesAssumption
<1>2. \A h \in T : Carries(h, s, i)
  BY <1>1 DEF JournalTrue
<1>3. \A h \in T : h \in Nat /\ h <= sent
  BY <1>1, <1>2 DEF Carries, ChainTrue
<1>4. T \in SUBSET Nat
  BY <1>3
<1>5. Max(T) \in T
  BY <1>1, <1>3, <1>4, MaxIs
<1> QED BY <1>2, <1>5

LEMMA ReplayTurns ==
    ASSUME Inv0, NEW w \in Workers, Replay(w)
    PROVE  Turn(w) /\ Grows /\ UNCHANGED <<journalVars, plan, chainVars, remote, faults>>
<1>0. UNCHANGED <<journalVars, plan, chainVars, remote, faults>> /\ pc[w] = "replay"
  BY DEF Replay
<1> DEFINE j == job[w]
           h == Max(j.todo)
           k == Min(j.keys)
<1>1. /\ TypeOK /\ JournalTrue /\ ChainTrue /\ Alone /\ plan \in Plans /\ JournalTypeOK
      /\ Payout \subseteq Intents /\ Payout \subseteq Nat /\ j \in JobRec
      /\ InStep(j) /\ ~j.all /\ j.todo \subseteq submitted[j.key][j.step]
      /\ IF j.hash = NoHash THEN BlankSoFar(j) ELSE Succeeded(j.hash, j.step, j.child)
  BY <1>0, StandsAt, TypeParts DEF At
<1>2. Grows
  BY <1>0, <1>1, QuietGrows DEF chainVars
<1>3. /\ j.child \in Payout /\ j.key \in Bearers(j.step, j.child) /\ j.step \in Steps
      /\ j.keys \subseteq Bearers(j.step, j.child) /\ j.left \subseteq Payout
      /\ Bearers(j.step, j.child) \subseteq Payout /\ j.key \in Payout /\ j.todo \subseteq Hashes
      /\ j.keys \in SUBSET Nat
  BY <1>1, BearersAre DEF InStep, JobRec
<1>4. j.todo # {} => h \in j.todo /\ Carries(h, j.step, j.key) /\ Carries(h, j.step, j.child)
  <2>1. ASSUME j.todo # {} PROVE h \in j.todo /\ Carries(h, j.step, j.key)
    BY <1>1, <1>3, <2>1, NewestIs
  <2> QED BY <1>1, <1>3, <2>1, CarriesForAll
<1>5. tx \in [Hashes -> [state : {"unused", "mempool", "success", "failed"},
                         step : Steps, intents : SUBSET Intents]]
  BY <1>1, TypeParts
<1>6. CASE Fail(w)
  BY <1>0, <1>1, <1>2, <1>6, FailTurns
<1>7. CASE j.todo # {} /\ tx[h].state = "success" /\ ~Fail(w)
  <2> DEFINE m == [j EXCEPT !.hash = h]
  <2>1. Goto(w, "local", m)
    BY <1>7 DEF Replay
  <2>2. h \in Hashes
    BY <1>3, <1>4, <1>7
  <2> HIDE DEF h
  <2>3. m \in JobRec /\ m.hash = h /\ m.child = j.child /\ m.step = j.step /\ m.key = j.key
        /\ m.keys = j.keys /\ m.left = j.left /\ m.more = j.more /\ m.all = j.all
    BY <1>1, <2>2 DEF JobRec, OptHash
  <2> HIDE DEF m
  <2>4. InStep(m)
    BY <1>1, <2>3 DEF InStep, Accounted
  <2>5. Succeeded(h, j.step, j.child)
    BY <1>4, <1>7 DEF Succeeded
  <2>6. At("local", m)
    BY <1>1, <2>3, <2>4, <2>5 DEF At, RoundDone
  <2>7. PICK n \in JobRec : n = m
    BY <2>3
  <2> QED BY <1>0, <1>1, <1>2, <2>1, <2>6, <2>7, StandsTurns DEF Place
<1>8. CASE j.todo # {} /\ tx[h].state = "failed"
  <2> DEFINE m == [j EXCEPT !.todo = @ \ {h}]
  <2>1. Goto(w, "replay", m)
    BY <1>8 DEF Replay
  <2> HIDE DEF h
  <2>3. m \in JobRec /\ m.hash = j.hash /\ m.child = j.child /\ m.step = j.step /\ m.key = j.key
        /\ m.keys = j.keys /\ m.left = j.left /\ m.more = j.more /\ m.all = j.all
        /\ m.todo = j.todo \ {h}
    BY <1>1, <1>3 DEF JobRec
  <2> HIDE DEF m
  <2>4. InStep(m)
    BY <1>1, <2>3 DEF InStep, Accounted
  <2>5. BlankSoFar(j) => BlankSoFar(m)
    BY <1>8, <2>3 DEF BlankSoFar, Failed
  <2>6. At("replay", m)
    BY <1>1, <2>3, <2>4, <2>5 DEF At
  <2>7. PICK n \in JobRec : n = m
    BY <2>3
  <2> QED BY <1>0, <1>1, <1>2, <2>1, <2>6, <2>7, StandsTurns DEF Place
<1>9. CASE j.todo # {} /\ tx[h].state = "mempool"
  BY <1>6, <1>9 DEF Replay
<1>10. CASE j.todo = {} /\ j.keys # {}
  <2> DEFINE m == [j EXCEPT !.key = k, !.keys = @ \ {k}, !.todo = submitted[k][j.step]]
  <2>1. Goto(w, "replay", m)
    BY <1>10 DEF Replay
  <2>2. k \in j.keys /\ submitted[k][j.step] \subseteq Hashes
    BY <1>1, <1>3, <1>10, MinIs DEF JournalTypeOK
  <2> HIDE DEF k
  <2>3. m \in JobRec /\ m.hash = j.hash /\ m.child = j.child /\ m.step = j.step /\ m.key = k
        /\ m.keys = j.keys \ {k} /\ m.left = j.left /\ m.more = j.more /\ m.all = j.all
        /\ m.todo = submitted[k][j.step]
    BY <1>1, <1>3, <2>2 DEF JobRec
  <2> HIDE DEF m
  <2>4. InStep(m)
    BY <1>1, <2>2, <2>3 DEF InStep, Accounted
  <2>5. BlankSoFar(j) => BlankSoFar(m)
    BY <1>10, <2>3 DEF BlankSoFar
  <2>6. At("replay", m)
    BY <1>1, <2>3, <2>4, <2>5 DEF At
  <2>7. PICK n \in JobRec : n = m
    BY <2>3
  <2> QED BY <1>0, <1>1, <1>2, <2>1, <2>6, <2>7, StandsTurns DEF Place
<1>11. CASE j.todo = {} /\ j.keys = {} /\ j.hash # NoHash
  <2>1. RecordAll(w, j.child, j.step, j.hash, "local")
    BY <1>11 DEF Replay
  <2>2. PICK n : n = j
    OBVIOUS
  <2>3. /\ RecordAll(w, n.child, n.step, n.hash, "local") /\ n.child \in Payout /\ n.step \in Steps
        /\ Succeeded(n.hash, n.step, n.child) /\ (n.step = "poolWithdraw" => AllAccepted)
        /\ (n.step \notin Source => AllBacked /\ Accounted(job[w]))
    BY <1>1, <1>3, <1>11, <2>1, <2>2 DEF InStep
  <2> QED BY <1>0, <1>1, <1>2, <1>3, <2>3, RecordAllStands
<1>12. CASE j.todo = {} /\ j.keys = {} /\ j.hash = NoHash /\ j.send
  <2>1. Goto(w, "send", j)
    BY <1>12 DEF Replay, NothingFound
  <2>2. Blank(j.step, j.child)
    BY <1>1, <1>12 DEF BlankSoFar, Blank
  <2>3. At("send", j)
    BY <1>1, <2>2 DEF At
  <2>4. PICK n \in JobRec : n = j
    BY <1>1
  <2> QED BY <1>0, <1>1, <1>2, <2>1, <2>3, <2>4, StandsTurns DEF Place
<1>13. CASE j.todo = {} /\ j.keys = {} /\ j.hash = NoHash /\ ~j.send
  BY <1>6, <1>13 DEF Replay, NothingFound
<1>14. j.todo # {} => tx[h].state \in {"mempool", "success", "failed"}
  BY <1>4, <1>5 DEF Carries
<1> QED BY <1>6, <1>7, <1>8, <1>9, <1>10, <1>11, <1>12, <1>13, <1>14

LEMMA ReceiptTurns ==
    ASSUME Inv0, NEW w \in Workers, Receipt(w)
    PROVE  Turn(w) /\ Grows /\ UNCHANGED <<journalVars, plan, chainVars, remote, faults>>
<1>0. UNCHANGED <<journalVars, plan, chainVars, remote, faults>> /\ pc[w] = "receipt"
  BY DEF Receipt
<1>1. /\ TypeOK /\ Alone /\ job[w] \in JobRec
      /\ InStep(job[w]) /\ Carries(job[w].hash, job[w].step, job[w].child)
  BY <1>0, StandsAt DEF At
<1>2. Grows
  BY <1>0, <1>1, QuietGrows DEF chainVars
<1>3. CASE Fail(w)
  BY <1>0, <1>1, <1>2, <1>3, FailTurns
<1>4. CASE tx[job[w].hash].state = "success" /\ RecordAll(w, job[w].child, job[w].step, job[w].hash, "local")
  <2>1. PICK n : n = job[w]
    OBVIOUS
  <2>2. /\ RecordAll(w, n.child, n.step, n.hash, "local") /\ n.child \in Payout /\ n.step \in Steps
        /\ Succeeded(n.hash, n.step, n.child) /\ (n.step = "poolWithdraw" => AllAccepted)
        /\ (n.step \notin Source => AllBacked /\ Accounted(job[w])) /\ job[w].left \subseteq Payout
    BY <1>1, <1>4, <2>1 DEF InStep, Succeeded, JobRec
  <2> QED BY <1>0, <1>1, <1>2, <2>2, RecordAllStands
<1> QED BY <1>3, <1>4 DEF Receipt

LEMMA ThrowTurns ==
    ASSUME Inv0, NEW w \in Workers, Throw(w)
    PROVE  /\ Turn(w) /\ Grows /\ UNCHANGED <<journalVars, plan, chainVars, remote>>
           /\ faults' \in 0..MaxFaults
<1>1. TypeOK /\ Alone /\ pc[w] # "idle" /\ Fail(w) /\ UNCHANGED <<journalVars, plan, chainVars, remote>>
  BY DEF Throw, Lost, Inv0
<1>2. Grows
  BY <1>1, QuietGrows DEF chainVars
<1>3. faults' \in 0..MaxFaults
  BY <1>1, TypeParts, FaultsAssumption DEF Throw, Lost
<1> QED BY <1>1, <1>2, <1>3, FailTurns

----------------------------------------------------------------------------
(* What a step that writes no journal keeps *)

LEMMA PlanStays ==
    ASSUME plan' = plan
    PROVE  /\ Payout' = Payout /\ Sharers' = Sharers
           /\ \A s, i : Bearers(s, i)' = Bearers(s, i)
  BY DEF Payout, Sharers, Bearers

LEMMA JournalGrows ==
    ASSUME TypeOK, JournalTrue, Grows
    PROVE  JournalTrue'
<1>1. /\ checkpoint' = checkpoint /\ submitted' = submitted /\ plan' = plan
  BY DEF Grows, journalVars
<1>2. /\ Payout' = Payout /\ \A s, i : Bearers(s, i)' = Bearers(s, i)
  BY <1>1, PlanStays
<1>3. \A h, s, i : /\ Carries(h, s, i) => Carries(h, s, i)'
                   /\ Succeeded(h, s, i) => Succeeded(h, s, i)'
  BY <1>2 DEF Carries, Succeeded, Grows
<1> SUFFICES ASSUME NEW i \in Intents, NEW s \in Steps
             PROVE  /\ Recorded(i, s)' => /\ i \in Payout' /\ i \in Bearers(s, i)'
                                          /\ Succeeded(checkpoint[i][s], s, i)'
                    /\ \A h \in submitted'[i][s] : i \in Payout' /\ i \in Bearers(s, i)' /\ Carries(h, s, i)'
  BY DEF JournalTrue
<1>4. PICK g : g = checkpoint[i][s]
  OBVIOUS
<1>5. Recorded(i, s)' => Recorded(i, s)
  BY <1>1 DEF Recorded
<1>6. Recorded(i, s) => i \in Payout /\ i \in Bearers(s, i) /\ Succeeded(g, s, i)
  BY <1>4 DEF JournalTrue
<1>7. \A h \in submitted[i][s] : i \in Payout /\ i \in Bearers(s, i) /\ Carries(h, s, i)
  BY DEF JournalTrue
<1>8. Succeeded(g, s, i)' => Succeeded(checkpoint[i][s], s, i)'
  BY <1>1, <1>4 DEF Succeeded, Carries
<1> QED BY <1>1, <1>2, <1>3, <1>5, <1>6, <1>7, <1>8

LEMMA StandingGrows ==
    ASSUME TypeOK, Grows
    PROVE  /\ AllAccepted => AllAccepted'
           /\ AllBacked => AllBacked'
           /\ AllEnded => AllEnded'
<1>1. Payout' = Payout /\ Sharers' = Sharers /\ Payout \subseteq Intents /\ status \in [Intents -> 0..6]
  BY PlanStays, PlanIs, TypeParts DEF Grows
<1>2. AllAccepted => AllAccepted'
  BY <1>1 DEF AllAccepted, Grows
<1>3. AllBacked => AllBacked'
  BY <1>1 DEF AllBacked, Recorded, Grows, journalVars
<1>4. AllEnded => AllEnded'
  BY <1>1 DEF AllEnded, Grows
<1> QED BY <1>2, <1>3, <1>4

LEMMA ChainGrows ==
    ASSUME TypeOK, ChainTrue, Grows, sent' = sent,
           \A h \in Hashes : tx'[h].state # "unused" => tx[h].state # "unused",
           \A h \in Hashes : (/\ tx[h].state # "unused" /\ tx'[h].state = "success"
                              /\ tx[h].state # "success" /\ tx[h].step \in Endings) =>
                                 \A i \in tx[h].intents : status'[i] >= 4,
           \A i \in Intents : (status'[i] >= 2 /\ ~(status[i] >= 2)) => AllBacked
    PROVE  ChainTrue'
<1>1. /\ Payout' = Payout /\ Sharers' = Sharers /\ Payout \subseteq Intents
      /\ status \in [Intents -> 0..6] /\ status' \in [Intents -> 0..6]
      /\ tx \in [Hashes -> [state : {"unused", "mempool", "success", "failed"},
                            step : Steps, intents : SUBSET Intents]]
  BY PlanStays, PlanIs, TypeParts DEF Grows
<1>2. /\ AllAccepted => AllAccepted'
      /\ AllBacked => AllBacked'
  BY StandingGrows
<1>3. ASSUME NEW h \in Hashes, tx'[h].state # "unused"
      PROVE  /\ h <= sent' /\ tx'[h].intents \subseteq Payout'
             /\ tx'[h].step = "poolWithdraw" => AllAccepted'
             /\ tx'[h].step \notin Source => AllBacked'
             /\ tx'[h].state = "success" /\ tx'[h].step \in Endings =>
                  \A i \in tx'[h].intents : status'[i] >= 4
  <2>1. tx[h].state # "unused"
    BY <1>3
  <2>2. tx'[h].step = tx[h].step /\ tx'[h].intents = tx[h].intents
    BY <2>1 DEF Grows
  <2>3. /\ h <= sent /\ tx[h].intents \subseteq Payout
        /\ tx[h].step = "poolWithdraw" => AllAccepted
        /\ tx[h].step \notin Source => AllBacked
        /\ tx[h].state = "success" /\ tx[h].step \in Endings =>
              \A i \in tx[h].intents : status[i] >= 4
    BY <2>1 DEF ChainTrue
  <2>4. ASSUME tx'[h].state = "success", tx[h].step \in Endings, NEW i \in tx[h].intents
        PROVE  status'[i] >= 4
    <3>1. i \in Intents
      BY <1>1, <2>3, <2>4
    <3>2. CASE tx[h].state = "success"
      <4>1. status[i] >= 4 /\ status'[i] >= status[i] /\ status[i] \in 0..6 /\ status'[i] \in 0..6
        BY <1>1, <2>3, <2>4, <3>1, <3>2 DEF Grows
      <4> QED BY <4>1
    <3>3. CASE tx[h].state # "success"
      BY <2>1, <2>4, <3>3
    <3> QED BY <3>2, <3>3
  <2> QED BY <1>1, <1>2, <2>2, <2>3, <2>4
<1>4. ASSUME NEW i \in Intents, status'[i] >= 2 PROVE AllBacked'
  BY <1>2, <1>4 DEF ChainTrue
<1> QED BY <1>3, <1>4 DEF ChainTrue

LEMMA ClosedStays ==
    ASSUME TypeOK, ClosedMeansEnded, Grows,
           closed' = closed \/ AllEnded'
    PROVE  ClosedMeansEnded'
<1>1. closed # {} => AllEnded
  BY DEF ClosedMeansEnded, AllEnded
<1>2. closed' # {} => AllEnded'
  BY <1>1, StandingGrows
<1> QED BY <1>2 DEF ClosedMeansEnded, AllEnded

(* A worker's step that writes neither the journal nor the chain. *)
LEMMA QuietStep ==
    ASSUME IInv, NEW w \in Workers, Turn(w), Grows,
           UNCHANGED <<journalVars, plan, chainVars>>, faults' \in 0..MaxFaults,
           RemoteFollowsLocal', remote' \in [Intents -> [Steps -> OptHash]]
    PROVE  IInv'
<1>0. /\ TypeOK /\ JournalTrue /\ ChainTrue /\ Alone /\ WorkersAt
      /\ RemoteFollowsLocal /\ ClosedMeansEnded
  BY DEF IInv
<1>1. /\ checkpoint' = checkpoint /\ submitted' = submitted /\ plan' = plan /\ status' = status
      /\ spent' = spent /\ verdict' = verdict /\ tx' = tx /\ sent' = sent
  BY DEF journalVars, chainVars
<1>2. WorkersTyped' /\ Alone' /\ WorkersAt'
  BY <1>0, <1>1, TurnIs
<1>3. TypeOK'
  BY <1>0, <1>1, <1>2, TypeParts DEF TypeOK, JournalTypeOK, WorkersTyped, JobRec
<1>4. JournalTrue'
  BY <1>0, JournalGrows
<1>5. ChainTrue'
  BY <1>0, <1>1, ChainGrows
<1>6. ClosedMeansEnded'
  BY <1>0, ClosedStays DEF Turn
<1> QED BY <1>2, <1>3, <1>4, <1>5, <1>6 DEF IInv

LEMMA ReadingStep ==
    ASSUME IInv, NEW w \in Workers, Turn(w), Grows,
           UNCHANGED <<journalVars, plan, chainVars, remote>>, faults' \in 0..MaxFaults
    PROVE  IInv'
<1>1. RemoteFollowsLocal'
  BY DEF IInv, RemoteFollowsLocal, journalVars
<1>2. remote' \in [Intents -> [Steps -> OptHash]]
  BY TypeParts DEF IInv
<1> QED BY <1>1, <1>2, QuietStep

----------------------------------------------------------------------------
(* The steps that write *)

LEMMA LostTurns ==
    ASSUME TypeOK, Alone, NEW w \in Workers, pc[w] # "idle", Lost(w)
    PROVE  Turn(w) /\ faults' \in 0..MaxFaults
<1>1. Fail(w) /\ faults < MaxFaults /\ faults' = faults + 1
  BY DEF Lost
<1>2. faults' \in 0..MaxFaults
  BY <1>1, TypeParts, FaultsAssumption
<1> QED BY <1>1, <1>2, FailTurns

LEMMA FaultsStay ==
    ASSUME TypeOK, UNCHANGED faults
    PROVE  faults' \in 0..MaxFaults
  BY TypeParts

LEMMA RecordRemoteStep ==
    ASSUME IInv, NEW w \in Workers, RecordRemote(w)
    PROVE  IInv'
<1>0. UNCHANGED <<journalVars, plan, chainVars>> /\ pc[w] = "remote" /\ Inv0
  BY DEF RecordRemote, IInv, Inv0
<1>1. PICK j \in JobRec : j = job[w]
  BY <1>0, StandsAt
<1>2. /\ TypeOK /\ JournalTrue /\ ChainTrue /\ Alone /\ At("remote", j) /\ RemoteFollowsLocal
      /\ Payout \subseteq Intents /\ plan \in Plans
  BY <1>0, <1>1, StandsAt DEF IInv
<1>3. Grows
  BY <1>0, <1>2, QuietGrows DEF chainVars
<1>4. At("remote", j)' /\ JournalTrue' /\ ChainTrue'
  <2>1. At("remote", j)'
    BY <1>2, <1>3, AtGrows
  <2>2. JournalTrue'
    BY <1>2, <1>3, JournalGrows
  <2>3. UNCHANGED <<tx, status, sent>>
    BY <1>0 DEF chainVars
  <2>4. ChainTrue'
    BY <1>2, <1>3, <2>3, ChainGrows
  <2> QED BY <2>1, <2>2, <2>4
<1>5. Turn(w) /\ faults' \in 0..MaxFaults
  <2>1. CASE NextKey(w) /\ UNCHANGED faults
    <3>1. JournalTypeOK' /\ plan' = plan /\ submitted' = submitted
      BY <1>0, <1>2, TypeParts DEF JournalTypeOK, journalVars
    <3>2. Turn(w)
      BY <1>0, <1>1, <1>2, <1>4, <2>1, <3>1, NextKeyTurns
    <3> QED BY <1>2, <2>1, <3>2, FaultsStay
  <2>2. CASE Lost(w)
    BY <1>0, <1>2, <2>2, LostTurns
  <2> QED BY <2>1, <2>2 DEF RecordRemote
<1>6. remote' = [remote EXCEPT ![j.key][j.step] = j.hash]
  BY <1>1 DEF RecordRemote
<1>7. checkpoint[j.key][j.step] = j.hash /\ checkpoint' = checkpoint
      /\ j.key \in Intents /\ j.step \in Steps /\ j.hash \in OptHash
  BY <1>0, <1>2, BearersAre DEF At, InStep, JobRec, journalVars
<1>8. remote \in [Intents -> [Steps -> OptHash]]
  BY <1>2, TypeParts
<1>9. RemoteFollowsLocal' /\ remote' \in [Intents -> [Steps -> OptHash]]
  BY <1>2, <1>6, <1>7, <1>8 DEF RemoteFollowsLocal
<1> QED BY <1>0, <1>3, <1>5, <1>9, QuietStep

LEMMA RecordSentStep ==
    ASSUME IInv, NEW w \in Workers, RecordSent(w)
    PROVE  IInv'
<1>0. UNCHANGED <<checkpoint, plan, chainVars, remote>> /\ pc[w] = "sent" /\ Inv0
  BY DEF RecordSent, RecordSubmission, IInv, Inv0
<1>1. PICK j \in JobRec : j = job[w]
  BY <1>0, StandsAt
<1>2. /\ TypeOK /\ JournalTrue /\ ChainTrue /\ Alone /\ InStep(j) /\ Carries(j.hash, j.step, j.child)
      /\ Payout \subseteq Intents /\ Payout \subseteq Nat /\ plan \in Plans
  BY <1>0, <1>1, StandsAt DEF At
<1>3. /\ plan' = plan /\ status' = status /\ tx' = tx /\ sent' = sent /\ checkpoint' = checkpoint
      /\ spent' = spent /\ verdict' = verdict /\ remote' = remote
  BY <1>0 DEF chainVars
<1>4. /\ j.child \in Payout /\ j.key \in Bearers(j.step, j.child) /\ j.key \in Intents
      /\ j.key \in Payout /\ j.step \in Steps /\ j.hash \in Hashes
      /\ j.keys \subseteq Bearers(j.step, j.child) /\ j.keys \subseteq Intents /\ j.keys \in SUBSET Nat
      /\ Carries(j.hash, j.step, j.key) /\ j.key \in Bearers(j.step, j.key)
  <2>1. j.child \in Payout /\ j.key \in Bearers(j.step, j.child) /\ j.keys \subseteq Bearers(j.step, j.child)
    BY <1>2 DEF InStep
  <2>2. Bearers(j.step, j.child) \subseteq Payout
    BY <1>2, <2>1, BearersAre
  <2>3. j.step \in Steps /\ j.hash \in Hashes
    BY <1>2 DEF JobRec, Carries
  <2>4. Carries(j.hash, j.step, j.key) /\ j.key \in Bearers(j.step, j.key)
    BY <1>2, <2>1, CarriesForAll
  <2> QED BY <1>2, <2>1, <2>2, <2>3, <2>4
<1>5. submitted' = [submitted EXCEPT ![j.key][j.step] = @ \cup {j.hash}]
  BY <1>1 DEF RecordSent, RecordSubmission
<1>6. JournalTypeOK /\ JournalTypeOK'
  <2>1. JournalTypeOK
    BY <1>2, TypeParts
  <2> QED BY <1>3, <1>4, <1>5, <2>1 DEF JournalTypeOK
<1>7. /\ Payout' = Payout /\ Sharers' = Sharers /\ \A s, i : Bearers(s, i)' = Bearers(s, i)
  BY <1>3, PlanStays
<1>8. \A h, s, i : Carries(h, s, i)' <=> Carries(h, s, i)
  BY <1>3, <1>7 DEF Carries
<1>9. JournalTrue'
  <2> SUFFICES ASSUME NEW i \in Intents, NEW s \in Steps
               PROVE  /\ Recorded(i, s)' => /\ i \in Payout' /\ i \in Bearers(s, i)'
                                            /\ Succeeded(checkpoint[i][s], s, i)'
                      /\ \A h \in submitted'[i][s] : i \in Payout' /\ i \in Bearers(s, i)' /\ Carries(h, s, i)'
    BY DEF JournalTrue
  <2>1. Recorded(i, s)' => /\ i \in Payout' /\ i \in Bearers(s, i)' /\ Succeeded(checkpoint[i][s], s, i)'
    <3>1. Recorded(i, s) => /\ i \in Payout /\ i \in Bearers(s, i) /\ Succeeded(checkpoint[i][s], s, i)
      BY <1>2 DEF JournalTrue
    <3>2. Succeeded(checkpoint[i][s], s, i)' <=> Succeeded(checkpoint[i][s], s, i)
      BY <1>3, <1>7 DEF Succeeded, Carries
    <3>3. Recorded(i, s)' <=> Recorded(i, s)
      BY <1>3 DEF Recorded
    <3> QED BY <1>7, <3>1, <3>2, <3>3
  <2>2. ASSUME NEW h \in submitted'[i][s] PROVE i \in Payout /\ i \in Bearers(s, i) /\ Carries(h, s, i)
    <3>1. h \in submitted[i][s] \/ (i = j.key /\ s = j.step /\ h = j.hash)
      BY <1>4, <1>5, <1>6 DEF JournalTypeOK
    <3>2. CASE h \in submitted[i][s]
      BY <1>2, <3>2 DEF JournalTrue
    <3> QED BY <1>4, <3>1, <3>2
  <2> QED BY <1>7, <1>8, <2>1, <2>2
<1>10. AllBacked' = AllBacked /\ AllAccepted' = AllAccepted
  BY <1>3, <1>7 DEF AllBacked, AllAccepted, Recorded
<1>11. ChainTrue'
  BY <1>2, <1>3, <1>7, <1>10 DEF ChainTrue
<1>12. InStep(j)' /\ Carries(j.hash, j.step, j.child)'
  BY <1>2, <1>3, <1>7, <1>8, <1>10 DEF InStep, Accounted
<1>13. Turn(w) /\ faults' \in 0..MaxFaults
  <2>1. CASE Lost(w)
    BY <1>0, <1>2, <2>1, LostTurns
  <2>2. CASE j.keys = {} /\ Goto(w, "receipt", j) /\ UNCHANGED faults
    <3>1. At("receipt", j)'
      BY <1>12 DEF At
    <3> QED BY <1>0, <1>2, <2>2, <3>1, GotoTurns, FaultsStay DEF Place
  <2>3. CASE /\ j.keys # {} /\ UNCHANGED faults
             /\ Goto(w, "sent", [j EXCEPT !.key = Min(j.keys), !.keys = @ \ {Min(j.keys)}])
    <3> DEFINE k == Min(j.keys)
               m == [j EXCEPT !.key = k, !.keys = @ \ {k}]
    <3>1. k \in j.keys
      BY <1>4, <2>3, MinIs
    <3>2. Goto(w, "sent", m)
      BY <2>3
    <3> HIDE DEF k
    <3>3. m \in JobRec /\ m.key = k /\ m.keys = j.keys \ {k} /\ m.child = j.child /\ m.step = j.step
          /\ m.hash = j.hash /\ m.left = j.left /\ m.more = j.more
      BY <1>4, <3>1 DEF JobRec
    <3> HIDE DEF m
    <3>4. PICK n \in JobRec : n = m
      BY <3>3
    <3>5. InStep(n)' /\ Carries(n.hash, n.step, n.child)'
      BY <1>4, <1>7, <1>12, <3>1, <3>3, <3>4 DEF InStep, Accounted
    <3>6. At("sent", n)'
      BY <3>5 DEF At
    <3> QED BY <1>0, <1>2, <2>3, <3>2, <3>4, <3>6, GotoTurns, FaultsStay DEF Place
  <2> QED BY <1>1, <2>1, <2>2, <2>3 DEF RecordSent
<1>14. WorkersTyped' /\ Alone' /\ WorkersAt'
  BY <1>2, <1>3, <1>13, TurnIs
<1>15. TypeOK'
  BY <1>2, <1>3, <1>6, <1>13, <1>14 DEF TypeOK, WorkersTyped, JobRec
<1>16. RemoteFollowsLocal'
  BY <1>3 DEF IInv, RemoteFollowsLocal
<1>17. ClosedMeansEnded'
  <2>1. AllEnded' = AllEnded
    BY <1>3, <1>7 DEF AllEnded
  <2> QED BY <1>3, <1>7, <1>13, <2>1 DEF IInv, ClosedMeansEnded, Turn, AllEnded
<1> QED BY <1>9, <1>11, <1>14, <1>15, <1>16, <1>17 DEF IInv

LEMMA RecordLocalStep ==
    ASSUME IInv, NEW w \in Workers, RecordLocal(w)
    PROVE  IInv'
<1>0. UNCHANGED <<plan, chainVars, remote>> /\ pc[w] = "local" /\ Inv0
  BY DEF RecordLocal, IInv, Inv0
<1>1. PICK j \in JobRec : j = job[w]
  BY <1>0, StandsAt
<1>2. /\ TypeOK /\ JournalTrue /\ ChainTrue /\ Alone /\ InStep(j) /\ Succeeded(j.hash, j.step, j.child)
      /\ RoundDone(j, j.keys \cup {j.key}) /\ RemoteFollowsLocal /\ ClosedMeansEnded
      /\ Payout \subseteq Intents /\ Payout \subseteq Nat /\ plan \in Plans /\ JournalTypeOK
  BY <1>0, <1>1, StandsAt, TypeParts DEF At, IInv
<1>3. /\ plan' = plan /\ status' = status /\ tx' = tx /\ sent' = sent
      /\ spent' = spent /\ verdict' = verdict /\ remote' = remote
  BY <1>0 DEF chainVars
<1>4. /\ j.child \in Payout /\ j.key \in Bearers(j.step, j.child) /\ j.key \in Intents
      /\ j.key \in Payout /\ j.step \in Steps /\ j.hash \in Hashes /\ j.hash # NoHash
      /\ Succeeded(j.hash, j.step, j.key) /\ j.key \in Bearers(j.step, j.key)
  <2>1. j.child \in Payout /\ j.key \in Bearers(j.step, j.child)
    BY <1>2 DEF InStep
  <2>2. Bearers(j.step, j.child) \subseteq Payout
    BY <1>2, <2>1, BearersAre
  <2>3. j.step \in Steps /\ j.hash \in Hashes
    BY <1>2 DEF JobRec, Carries, Succeeded
  <2>4. Succeeded(j.hash, j.step, j.key) /\ j.key \in Bearers(j.step, j.key)
    BY <1>2, <2>1, CarriesForAll
  <2> QED BY <1>2, <2>1, <2>2, <2>3, <2>4, HashesAssumption
<1>5. CASE ~CanCheckpoint(j.key, j.step, j.hash)
  <2>1. Fail(w) /\ UNCHANGED <<journalVars, faults>>
    BY <1>1, <1>5 DEF RecordLocal
  <2>2. Turn(w)
    BY <1>0, <1>2, <2>1, FailTurns
  <2>3. Grows
    BY <1>2, <1>3, <2>1, QuietGrows
  <2> QED BY <1>0, <1>2, <2>1, <2>2, <2>3, ReadingStep, FaultsStay
<1>6. CASE CanCheckpoint(j.key, j.step, j.hash)
  <2>1. /\ checkpoint' = [checkpoint EXCEPT ![j.key][j.step] = j.hash] /\ submitted' = submitted
        /\ \/ /\ IF plan.version = 6 THEN NextKey(w) ELSE Goto(w, "remote", j)
              /\ UNCHANGED faults
           \/ Lost(w)
    BY <1>1, <1>6 DEF RecordLocal, RecordCheckpoint
  <2>2. Recorded(j.key, j.step) => checkpoint[j.key][j.step] = j.hash
    BY <1>6 DEF CanCheckpoint
  <2>3. JournalTypeOK'
    BY <1>2, <1>4, <2>1 DEF JournalTypeOK
  <2>4. /\ Payout' = Payout /\ Sharers' = Sharers /\ \A s, i : Bearers(s, i)' = Bearers(s, i)
    BY <1>3, PlanStays
  <2>5. \A i \in Intents, s \in Steps :
           checkpoint'[i][s] = checkpoint[i][s] \/ (i = j.key /\ s = j.step /\ checkpoint'[i][s] = j.hash)
    BY <1>2, <1>4, <2>1 DEF JournalTypeOK
  <2>6. \A i \in Intents, s \in Steps : Recorded(i, s) => checkpoint'[i][s] = checkpoint[i][s]
    BY <2>2, <2>5 DEF Recorded
  <2>7. checkpoint'[j.key][j.step] = j.hash
    BY <1>2, <1>4, <2>1 DEF JournalTypeOK
  <2>8. \A h, s, i : (Carries(h, s, i)' <=> Carries(h, s, i)) /\ (Succeeded(h, s, i)' <=> Succeeded(h, s, i))
    BY <1>3, <2>4 DEF Carries, Succeeded
  <2>9. JournalTrue'
    <3> SUFFICES ASSUME NEW i \in Intents, NEW s \in Steps
                 PROVE  /\ Recorded(i, s)' => /\ i \in Payout' /\ i \in Bearers(s, i)'
                                              /\ Succeeded(checkpoint[i][s], s, i)'
                        /\ \A h \in submitted'[i][s] : i \in Payout' /\ i \in Bearers(s, i)' /\ Carries(h, s, i)'
      BY DEF JournalTrue
    <3>1. /\ Recorded(i, s) => i \in Payout /\ i \in Bearers(s, i) /\ Succeeded(checkpoint[i][s], s, i)
          /\ \A h \in submitted[i][s] : i \in Payout /\ i \in Bearers(s, i) /\ Carries(h, s, i)
      BY <1>2 DEF JournalTrue
    <3>2. PICK g : g = checkpoint'[i][s]
      OBVIOUS
    <3>3. Recorded(i, s)' => i \in Payout /\ i \in Bearers(s, i) /\ Succeeded(g, s, i)
      BY <1>4, <2>5, <3>1, <3>2 DEF Recorded
    <3>4. Succeeded(g, s, i)' => Succeeded(checkpoint[i][s], s, i)'
      BY <3>2 DEF Succeeded, Carries
    <3> QED BY <2>1, <2>4, <2>8, <3>1, <3>3, <3>4
  <2>10. (AllBacked => AllBacked') /\ (AllAccepted' <=> AllAccepted) /\ (AllEnded' <=> AllEnded)
    <3>1. AllBacked => AllBacked'
      <4>1. \A i \in Sharers : i \in Intents /\ "poolWithdraw" \in Steps
        BY <1>2, PlanIs DEF Steps
      <4>2. \A i \in Intents, s \in Steps : Recorded(i, s) => Recorded(i, s)'
        BY <2>6 DEF Recorded
      <4> QED BY <2>4, <4>1, <4>2 DEF AllBacked
    <3>2. (AllAccepted' <=> AllAccepted) /\ (AllEnded' <=> AllEnded)
      BY <1>3, <2>4 DEF AllAccepted, AllEnded
    <3> QED BY <3>1, <3>2
  <2>11. ChainTrue'
    BY <1>2, <1>3, <2>4, <2>10 DEF ChainTrue
  <2>12. InStep(j)'
    BY <1>2, <1>3, <2>4, <2>10 DEF InStep, Accounted
  <2>13. RoundDone(j, j.keys)'
    <3> SUFFICES ASSUME j.step = "poolWithdraw", j.all, NEW k \in Sharers, k \notin j.keys
                 PROVE  checkpoint'[k]["poolWithdraw"] # NoHash
      BY <2>4 DEF RoundDone, Recorded
    <3>1. k \in Intents /\ "poolWithdraw" \in Steps
      BY <1>2, PlanIs DEF Steps
    <3>2. CASE k = j.key
      BY <1>4, <2>7, <3>2
    <3>3. CASE k # j.key
      <4>1. Recorded(k, "poolWithdraw")
        BY <1>2, <3>3 DEF RoundDone
      <4> QED BY <2>6, <3>1, <4>1 DEF Recorded
    <3> QED BY <3>2, <3>3
  <2>14. At("remote", j)'
    BY <1>4, <2>7, <2>12, <2>13 DEF At
  <2>15. Turn(w) /\ faults' \in 0..MaxFaults
    <3>1. CASE Lost(w)
      BY <1>0, <1>2, <3>1, LostTurns
    <3>2. CASE plan.version = 6 /\ NextKey(w) /\ UNCHANGED faults
      <4>1. Turn(w)
        BY <1>0, <1>1, <1>2, <1>3, <2>1, <2>3, <2>9, <2>11, <2>14, <3>2, NextKeyTurns
      <4> QED BY <1>2, <3>2, <4>1, FaultsStay
    <3>3. CASE Goto(w, "remote", j) /\ UNCHANGED faults
      BY <1>0, <1>2, <2>14, <3>3, GotoTurns, FaultsStay DEF Place
    <3> QED BY <2>1, <3>1, <3>2, <3>3
  <2>16. WorkersTyped' /\ Alone' /\ WorkersAt'
    BY <1>2, <1>3, <2>15, TurnIs
  <2>17. TypeOK'
    BY <1>2, <1>3, <2>3, <2>15, <2>16 DEF TypeOK, WorkersTyped, JobRec
  <2>18. RemoteFollowsLocal'
    <3> SUFFICES ASSUME NEW i \in Intents, NEW s \in Steps, remote[i][s] # NoHash
                 PROVE  remote[i][s] = checkpoint'[i][s]
      BY <1>3 DEF RemoteFollowsLocal
    <3>1. remote[i][s] = checkpoint[i][s]
      BY <1>2 DEF RemoteFollowsLocal
    <3> QED BY <2>6, <3>1 DEF Recorded
  <2>19. ClosedMeansEnded'
    BY <1>2, <2>10, <2>15 DEF ClosedMeansEnded, Turn, AllEnded
  <2> QED BY <2>9, <2>11, <2>16, <2>17, <2>18, <2>19 DEF IInv
<1> QED BY <1>5, <1>6

LEMMA SendStep ==
    ASSUME IInv, NEW w \in Workers, Send(w)
    PROVE  IInv'
<1>0. UNCHANGED <<journalVars, plan, status, spent, verdict, remote>> /\ pc[w] = "send" /\ Inv0
  BY DEF Send, IInv, Inv0
<1>1. PICK j \in JobRec : j = job[w]
  BY <1>0, StandsAt
<1>2. /\ TypeOK /\ JournalTrue /\ ChainTrue /\ Alone /\ InStep(j)
      /\ RemoteFollowsLocal /\ ClosedMeansEnded /\ sent \in Nat
      /\ Payout \subseteq Intents /\ plan \in Plans /\ JournalTypeOK
      /\ tx \in [Hashes -> [state : {"unused", "mempool", "success", "failed"},
                            step : Steps, intents : SUBSET Intents]]
  BY <1>0, <1>1, StandsAt, TypeParts DEF At, IInv
<1>3. /\ plan' = plan /\ status' = status /\ checkpoint' = checkpoint /\ submitted' = submitted
      /\ spent' = spent /\ verdict' = verdict /\ remote' = remote
  BY <1>0 DEF journalVars
<1> DEFINE h == sent + 1
           intents == IF j.step = "poolWithdraw" THEN Payout ELSE {j.child}
<1>4. CASE ~Executable(j.step, intents)
  <2>1. Fail(w) /\ UNCHANGED <<tx, sent, faults>>
    BY <1>1, <1>4 DEF Send
  <2>2. Turn(w)
    BY <1>0, <1>2, <2>1, FailTurns
  <2>3. Grows
    BY <1>0, <1>2, <1>3, <2>1, QuietGrows
  <2> QED BY <1>0, <1>2, <1>3, <2>1, <2>2, <2>3, ReadingStep, FaultsStay DEF chainVars
<1>5. CASE Executable(j.step, intents)
  <2>1. /\ h \in Hashes /\ sent' = h
        /\ tx' = [tx EXCEPT ![h] = [state |-> "mempool", step |-> j.step, intents |-> intents]]
        /\ \/ RecordAll(w, j.child, j.step, h, "sent") /\ UNCHANGED faults
           \/ Lost(w)
    BY <1>1, <1>5 DEF Send
  <2>2. j.child \in Payout /\ j.child \in Intents /\ j.step \in Steps /\ intents \subseteq Payout
        /\ intents \subseteq Intents /\ j.left \subseteq Payout
    BY <1>2 DEF InStep, JobRec
  <2>3. tx[h].state = "unused"
    <3>1. ~(h <= sent)
      BY <1>2
    <3> QED BY <1>2, <2>1, <3>1 DEF ChainTrue
  <2>4. /\ tx'[h] = [state |-> "mempool", step |-> j.step, intents |-> intents]
        /\ \A g \in Hashes : g # h => tx'[g] = tx[g]
    BY <1>2, <2>1
  <2>5. tx' \in [Hashes -> [state : {"unused", "mempool", "success", "failed"},
                            step : Steps, intents : SUBSET Intents]]
    BY <1>2, <2>1, <2>2
  <2>6. Grows
    <3>1. \A g \in Hashes : tx[g].state # "unused" => tx'[g] = tx[g]
      BY <2>3, <2>4
    <3>2. status' \in [Intents -> 0..6] /\ \A i \in Intents : status'[i] >= status[i]
      BY <1>2, <1>3, TypeParts
    <3>3. UNCHANGED <<journalVars, plan>>
      BY <1>0
    <3> HIDE DEF h
    <3> QED BY <3>1, <3>2, <3>3 DEF Grows
  <2>7. Payout' = Payout /\ Sharers' = Sharers /\ \A s, i : Bearers(s, i)' = Bearers(s, i)
    BY <1>3, PlanStays
  <2>8. JournalTrue'
    BY <1>2, <2>6, JournalGrows
  <2>9. (AllAccepted => AllAccepted') /\ (AllBacked => AllBacked') /\ (AllEnded => AllEnded')
    BY <1>2, <2>6, StandingGrows
  <2>10. ChainTrue'
    <3>1. ASSUME NEW g \in Hashes, tx'[g].state # "unused"
          PROVE  /\ g <= sent' /\ tx'[g].intents \subseteq Payout'
                 /\ tx'[g].step = "poolWithdraw" => AllAccepted'
                 /\ tx'[g].step \notin Source => AllBacked'
                 /\ tx'[g].state = "success" /\ tx'[g].step \in Endings =>
                      \A i \in tx'[g].intents : status'[i] >= 4
      <4>1. CASE g = h
        <5>1. /\ tx'[g].state = "mempool" /\ tx'[g].step = j.step /\ tx'[g].intents = intents
          BY <2>4, <4>1
        <5>2. g <= sent'
          BY <1>2, <2>1, <4>1
        <5> QED BY <1>2, <2>2, <2>7, <2>9, <5>1, <5>2 DEF InStep
      <4>2. CASE g # h
        <5>1. tx'[g] = tx[g] /\ tx[g].state # "unused"
          BY <2>4, <3>1, <4>2
        <5>2. /\ g <= sent /\ tx[g].intents \subseteq Payout
              /\ tx[g].step = "poolWithdraw" => AllAccepted
              /\ tx[g].step \notin Source => AllBacked
              /\ tx[g].state = "success" /\ tx[g].step \in Endings =>
                    \A i \in tx[g].intents : status[i] >= 4
          BY <1>2, <5>1 DEF ChainTrue
        <5>3. g <= sent'
          BY <1>2, <2>1, <5>2, HashesAssumption
        <5> QED BY <1>3, <2>7, <2>9, <5>1, <5>2, <5>3
      <4> QED BY <4>1, <4>2
    <3>2. ASSUME NEW i \in Intents, status'[i] >= 2 PROVE AllBacked'
      BY <1>2, <1>3, <2>9, <3>2 DEF ChainTrue
    <3> QED BY <3>1, <3>2 DEF ChainTrue
  <2>11. Turn(w) /\ faults' \in 0..MaxFaults
    <3>1. CASE Lost(w)
      BY <1>0, <1>2, <3>1, LostTurns
    <3>2. CASE RecordAll(w, j.child, j.step, h, "sent") /\ UNCHANGED faults
      <4>1. PICK g \in OptHash : g = h
        BY <2>1 DEF OptHash
      <4>2. RecordAll(w, j.child, j.step, g, "sent")
        BY <3>2, <4>1
      <4>3. PICK m \in JobRec :
                /\ Goto(w, "sent", m)
                /\ m.child = j.child /\ m.step = j.step /\ m.hash = g
                /\ m.key \in Bearers(j.step, j.child)
                /\ m.keys = Bearers(j.step, j.child) \ {m.key} /\ m.all
                /\ m.left = job[w].left /\ m.more = job[w].more
        BY <1>1, <1>2, <2>2, <4>2, RecordAllIs
      <4>4. m.left = j.left /\ m.more = j.more
        BY <1>1, <4>3
      <4>5. InStep(m)
        BY <1>2, <2>2, <4>3, <4>4 DEF InStep, Accounted
      <4>6. InStep(m)'
        BY <1>3, <2>7, <2>9, <4>5 DEF InStep, Accounted
      <4>7. Carries(m.hash, m.step, m.child)'
        BY <2>1, <2>4, <2>7, <4>1, <4>3 DEF Carries
      <4>8. At("sent", m)'
        BY <4>6, <4>7 DEF At
      <4> QED BY <1>0, <1>2, <3>2, <4>3, <4>8, GotoTurns, FaultsStay DEF Place
    <3> QED BY <2>1, <3>1, <3>2
  <2>12. WorkersTyped' /\ Alone' /\ WorkersAt'
    BY <1>2, <1>3, <2>11, TurnIs
  <2>13. TypeOK'
    <3>1. sent' \in Nat
      BY <1>2, <2>1
    <3> QED BY <1>2, <1>3, <2>5, <2>11, <2>12, <3>1 DEF TypeOK, JournalTypeOK, WorkersTyped, JobRec
  <2>14. RemoteFollowsLocal'
    BY <1>2, <1>3 DEF RemoteFollowsLocal
  <2>15. ClosedMeansEnded'
    BY <1>2, <2>6, <2>11, ClosedStays DEF Turn
  <2> QED BY <2>8, <2>10, <2>12, <2>13, <2>14, <2>15 DEF IInv
<1> QED BY <1>4, <1>5

----------------------------------------------------------------------------
(* The environment *)

LEMMA OutsideStep ==
    ASSUME IInv, Grows, UNCHANGED <<journalVars, plan, sent, remote, workerVars, faults>>, ChainTrue',
           spent' \in BOOLEAN, verdict' \in [Intents -> {"open", "delivered", "refundable"}],
           tx' \in [Hashes -> [state : {"unused", "mempool", "success", "failed"},
                               step : Steps, intents : SUBSET Intents]]
    PROVE  IInv'
<1>0. /\ TypeOK /\ JournalTrue /\ ChainTrue /\ Alone /\ WorkersAt
      /\ RemoteFollowsLocal /\ ClosedMeansEnded
  BY DEF IInv
<1>1. /\ checkpoint' = checkpoint /\ submitted' = submitted /\ plan' = plan /\ sent' = sent
      /\ remote' = remote /\ pc' = pc /\ job' = job /\ busy' = busy /\ closed' = closed
      /\ faults' = faults
  BY DEF journalVars, workerVars
<1>2. status' \in [Intents -> 0..6]
  BY DEF Grows
<1>3. TypeOK'
  BY <1>0, <1>1, <1>2 DEF TypeOK, JournalTypeOK
<1>4. JournalTrue'
  BY <1>0, JournalGrows
<1>5. Alone'
  BY <1>0, <1>1 DEF Alone
<1>6. WorkersAt'
  <2> SUFFICES ASSUME NEW u \in Workers, NEW q \in {pc'[u]}, NEW k \in {job'[u]} PROVE At(q, k)'
    BY DEF WorkersAt
  <2>1. At(q, k)
    BY <1>0, <1>1 DEF WorkersAt
  <2>2. k \in JobRec
    BY <1>0, <1>1, TypeParts DEF WorkersTyped
  <2> QED BY <1>0, <2>1, <2>2, AtGrows
<1>7. RemoteFollowsLocal'
  BY <1>0, <1>1 DEF RemoteFollowsLocal
<1>8. ClosedMeansEnded'
  BY <1>0, <1>1, ClosedStays
<1> QED BY <1>3, <1>4, <1>5, <1>6, <1>7, <1>8 DEF IInv

(* What was mined has happened: each status only goes up, and one that is    *)
(* beyond the withdrawal was brought there by a step after it.               *)
LEMMA MineStep ==
    ASSUME IInv, NEW h \in Hashes, Mine(h)
    PROVE  IInv'
<1>0. /\ TypeOK /\ ChainTrue /\ plan \in Plans /\ status \in [Intents -> 0..6] /\ spent \in BOOLEAN
      /\ verdict \in [Intents -> {"open", "delivered", "refundable"}]
      /\ tx \in [Hashes -> [state : {"unused", "mempool", "success", "failed"},
                            step : Steps, intents : SUBSET Intents]]
  BY TypeParts DEF IInv
<1>1. /\ UNCHANGED <<journalVars, plan, verdict, sent, remote, workerVars, faults>>
      /\ tx[h].state = "mempool"
  BY DEF Mine
<1>2. CASE tx' = [tx EXCEPT ![h].state = "failed"] /\ UNCHANGED <<status, spent>>
  <2>1. /\ tx' \in [Hashes -> [state : {"unused", "mempool", "success", "failed"},
                               step : Steps, intents : SUBSET Intents]]
        /\ tx'[h].state = "failed" /\ tx'[h].step = tx[h].step /\ tx'[h].intents = tx[h].intents
        /\ \A g \in Hashes : g # h => tx'[g] = tx[g]
    BY <1>0, <1>2
  <2>2. Grows
    BY <1>0, <1>1, <1>2, <2>1 DEF Grows
  <2>3. ChainTrue'
    BY <1>0, <1>1, <1>2, <2>1, <2>2, ChainGrows
  <2> QED BY <1>0, <1>1, <1>2, <2>1, <2>2, <2>3, OutsideStep
<1>3. CASE /\ Executable(tx[h].step, tx[h].intents)
           /\ tx' = [tx EXCEPT ![h].state = "success"]
           /\ status' = [i \in Intents |-> IF i \in tx[h].intents THEN After(tx[h].step, i) ELSE status[i]]
           /\ spent' = (spent \/ tx[h].step = "poolWithdraw")
  <2>1. /\ tx' \in [Hashes -> [state : {"unused", "mempool", "success", "failed"},
                               step : Steps, intents : SUBSET Intents]]
        /\ tx'[h].state = "success" /\ tx'[h].step = tx[h].step /\ tx'[h].intents = tx[h].intents
        /\ \A g \in Hashes : g # h => tx'[g] = tx[g]
    BY <1>0, <1>3
  <2>2. tx[h].step \in Steps
    BY <1>0
  <2>3. ASSUME NEW i \in tx[h].intents, i \in Intents
        PROVE  /\ After(tx[h].step, i) \in 0..6 /\ After(tx[h].step, i) >= status[i]
               /\ tx[h].step \in Endings => After(tx[h].step, i) >= 4
               /\ (tx[h].step \in Source /\ After(tx[h].step, i) >= 2) => status[i] >= 2
    <3>1. status[i] \in 0..6
      BY <1>0, <2>3
    <3>2. /\ tx[h].step = "acceptQuote" => status[i] = 0
          /\ tx[h].step = "confirmEscrowReceipt" => status[i] = 1
          /\ tx[h].step = "submitPayout" => status[i] = 2
          /\ tx[h].step \in Endings => status[i] = 3
      BY <1>3, <2>3 DEF Executable, Endings
    <3> QED BY <2>2, <3>1, <3>2 DEF After, Endings, Source, Steps
  <2>4. \A i \in Intents : /\ status'[i] = IF i \in tx[h].intents THEN After(tx[h].step, i) ELSE status[i]
                           /\ status[i] \in 0..6
    BY <1>0, <1>3
  <2>5. /\ status' \in [Intents -> 0..6]
        /\ \A i \in Intents : status'[i] >= status[i]
    <3>1. \A i \in Intents : status'[i] \in 0..6 /\ status'[i] >= status[i]
      BY <2>3, <2>4
    <3> QED BY <1>3, <3>1
  <2>6. Grows
    BY <1>1, <2>1, <2>5 DEF Grows
  <2>7. tx[h].intents \subseteq Payout /\ Payout \subseteq Intents
        /\ (tx[h].step \notin Source => AllBacked)
    BY <1>0, <1>1, PlanIs DEF ChainTrue
  <2>8. \A i \in Intents : (status'[i] >= 2 /\ ~(status[i] >= 2)) => AllBacked
    BY <2>3, <2>4, <2>7
  <2>9. tx[h].step \in Endings => \A i \in tx[h].intents : status'[i] >= 4
    BY <2>3, <2>4, <2>7
  <2>10. ChainTrue'
    BY <1>0, <1>1, <2>1, <2>6, <2>8, <2>9, ChainGrows
  <2>11. spent' \in BOOLEAN
    BY <1>3
  <2> QED BY <1>0, <1>1, <2>1, <2>6, <2>10, <2>11, OutsideStep
<1> QED BY <1>2, <1>3 DEF Mine

LEMMA SettleStep ==
    ASSUME IInv, NEW i \in Intents, NEW v \in {"delivered", "refundable"}, Settle(i, v)
    PROVE  IInv'
<1>0. TypeOK /\ ChainTrue /\ spent \in BOOLEAN
      /\ verdict \in [Intents -> {"open", "delivered", "refundable"}]
      /\ tx \in [Hashes -> [state : {"unused", "mempool", "success", "failed"},
                            step : Steps, intents : SUBSET Intents]]
  BY TypeParts DEF IInv
<1>1. /\ UNCHANGED <<journalVars, plan, status, spent, tx, sent, remote, workerVars, faults>>
      /\ verdict' = [verdict EXCEPT ![i] = v]
  BY DEF Settle
<1>2. Grows
  BY <1>0, <1>1, QuietGrows
<1>3. ChainTrue'
  BY <1>0, <1>1, <1>2, ChainGrows
<1>4. verdict' \in [Intents -> {"open", "delivered", "refundable"}]
  BY <1>0, <1>1
<1> QED BY <1>0, <1>1, <1>2, <1>3, <1>4, OutsideStep

LEMMA ClaimRefundStep ==
    ASSUME IInv, NEW i \in Intents, ClaimRefund(i)
    PROVE  IInv'
<1>0. TypeOK /\ ChainTrue /\ spent \in BOOLEAN /\ status \in [Intents -> 0..6]
      /\ verdict \in [Intents -> {"open", "delivered", "refundable"}]
      /\ tx \in [Hashes -> [state : {"unused", "mempool", "success", "failed"},
                            step : Steps, intents : SUBSET Intents]]
  BY TypeParts DEF IInv
<1>1. /\ UNCHANGED <<journalVars, plan, spent, verdict, tx, sent, remote, workerVars, faults>>
      /\ status' = [status EXCEPT ![i] = 6] /\ status[i] = 5
  BY DEF ClaimRefund
<1>2. /\ status' \in [Intents -> 0..6]
      /\ \A k \in Intents : status'[k] >= status[k] /\ (status'[k] >= 2 => status[k] >= 2)
  BY <1>0, <1>1
<1>3. Grows
  BY <1>1, <1>2 DEF Grows
<1>4. ChainTrue'
  BY <1>0, <1>1, <1>2, <1>3, ChainGrows
<1> QED BY <1>0, <1>1, <1>3, <1>4, OutsideStep

----------------------------------------------------------------------------
(* Theorems *)

LEMMA InitInv == Init => IInv
<1> SUFFICES ASSUME Init PROVE IInv
  OBVIOUS
<1>1. /\ checkpoint = [i \in Intents |-> [s \in Steps |-> NoHash]]
      /\ submitted = [i \in Intents |-> [s \in Steps |-> {}]]
      /\ plan \in Plans /\ status = [i \in Intents |-> 0] /\ spent = FALSE
      /\ verdict = [i \in Intents |-> "open"] /\ tx = [h \in Hashes |-> NoTx] /\ sent = 0
      /\ remote = [i \in Intents |-> [s \in Steps |-> NoHash]]
      /\ pc = [w \in Workers |-> "idle"] /\ job = [w \in Workers |-> NoJob]
      /\ busy = FALSE /\ closed = {} /\ faults = 0
  BY DEF Init, JournalInit
<1>s. status \in [Intents -> 0..6] /\ \A i \in Intents : status[i] = 0
  <2>1. status = [i \in Intents |-> 0]
    BY <1>1
  <2> QED BY <2>1
<1>2. JournalTypeOK
  BY <1>1 DEF JournalTypeOK
<1>3. remote \in [Intents -> [Steps -> OptHash]]
  BY <1>1 DEF OptHash
<1>4. NoTx \in [state : {"unused", "mempool", "success", "failed"}, step : Steps, intents : SUBSET Intents]
  BY DEF NoTx, Steps
<1>5. tx \in [Hashes -> [state : {"unused", "mempool", "success", "failed"},
                         step : Steps, intents : SUBSET Intents]]
  BY <1>1, <1>4
<1>6. WorkersTyped
  <2>1. "idle" \in Place
    BY DEF Place
  <2> QED BY <1>1, <2>1, NoJobIs DEF WorkersTyped
<1>7. TypeOK
  <2>1. /\ status \in [Intents -> 0..6] /\ spent \in BOOLEAN
        /\ verdict \in [Intents -> {"open", "delivered", "refundable"}]
        /\ sent \in Nat /\ faults \in 0..MaxFaults /\ plan \in Plans
    <3>1. verdict \in [Intents -> {"open", "delivered", "refundable"}]
      BY <1>1
    <3>2. sent \in Nat /\ faults \in 0..MaxFaults
      <4>1. sent = 0 /\ faults = 0
        BY <1>1
      <4> QED BY <4>1, FaultsAssumption
    <3> QED BY <1>1, <1>s, <3>1, <3>2
  <2> QED BY <1>2, <1>3, <1>5, <1>6, <2>1, TypeParts
<1>8. JournalTrue
  BY <1>1 DEF JournalTrue, Recorded
<1>9. ChainTrue
  <2>1. \A h \in Hashes : tx[h].state = "unused"
    BY <1>1 DEF NoTx
  <2>2. ASSUME NEW i \in Intents, status[i] >= 2 PROVE FALSE
    <3>1. status[i] = 0
      BY <1>s
    <3> QED BY <2>2, <3>1
  <2> QED BY <2>1, <2>2 DEF ChainTrue
<1>10. Alone
  BY <1>1 DEF Alone
<1>11. WorkersAt
  BY <1>1 DEF WorkersAt, At
<1>12. RemoteFollowsLocal
  BY <1>1 DEF RemoteFollowsLocal
<1>13. ClosedMeansEnded
  BY <1>1 DEF ClosedMeansEnded
<1> QED BY <1>7, <1>8, <1>9, <1>10, <1>11, <1>12, <1>13 DEF IInv

LEMMA ReadersKeepInv ==
    ASSUME IInv, NEW w \in Workers,
           Begin(w) \/ Accept(w) \/ Check(w) \/ Loop(w) \/ Replay(w) \/ Receipt(w) \/ Throw(w)
             \/ \E i \in Intents : BeginDownstream(w, i)
    PROVE  IInv'
<1>0. Inv0 /\ TypeOK
  BY DEF IInv, Inv0
<1>1. CASE Throw(w)
  BY <1>0, <1>1, ThrowTurns, ReadingStep
<1>2. CASE Begin(w) \/ Accept(w) \/ Check(w) \/ Loop(w) \/ Replay(w) \/ Receipt(w)
             \/ \E i \in Intents : BeginDownstream(w, i)
  <2>1. Turn(w) /\ Grows /\ UNCHANGED <<journalVars, plan, chainVars, remote, faults>>
    BY <1>0, <1>2, BeginTurns, AcceptTurns, CheckTurns, LoopTurns, ReplayTurns, ReceiptTurns,
       BeginDownstreamTurns
  <2> QED BY <1>0, <2>1, FaultsStay, ReadingStep
<1> QED BY <1>1, <1>2

LEMMA NextInv == IInv /\ [Next]_vars => IInv'
<1> SUFFICES ASSUME IInv, [Next]_vars PROVE IInv'
  OBVIOUS
<1>1. ASSUME NEW w \in Workers, WorkerStep(w) \/ Throw(w) PROVE IInv'
  <2>1. CASE Send(w)
    BY <2>1, SendStep
  <2>2. CASE RecordSent(w)
    BY <2>2, RecordSentStep
  <2>3. CASE RecordLocal(w)
    BY <2>3, RecordLocalStep
  <2>4. CASE RecordRemote(w)
    BY <2>4, RecordRemoteStep
  <2>5. CASE Begin(w) \/ Accept(w) \/ Check(w) \/ Loop(w) \/ Replay(w) \/ Receipt(w) \/ Throw(w)
               \/ \E i \in Intents : BeginDownstream(w, i)
    BY <2>5, ReadersKeepInv
  <2> QED BY <1>1, <2>1, <2>2, <2>3, <2>4, <2>5 DEF WorkerStep
<1>2. CASE UNCHANGED vars
  <2>1. UNCHANGED <<journalVars, plan, status, spent, verdict, tx, sent, remote, workerVars, faults>>
    BY <1>2 DEF vars, chainVars
  <2>2. TypeOK /\ ChainTrue
    BY DEF IInv
  <2>3. Grows
    BY <2>1, <2>2, QuietGrows
  <2>4. ChainTrue'
    BY <2>1, <2>2, <2>3, ChainGrows
  <2> QED BY <2>1, <2>2, <2>3, <2>4, OutsideStep, TypeParts
<1>3. ASSUME Next PROVE IInv'
  BY <1>1, <1>3, MineStep, SettleStep, ClaimRefundStep DEF Next
<1> QED BY <1>2, <1>3

THEOREM PayoutInvariant == Spec => []IInv
  BY InitInv, NextInv, PTL DEF Spec

(* The variables keep their types, whatever version, batch and intents the   *)
(* payout has.                                                               *)
THEOREM TypeCorrect == Spec => []TypeOK
<1>1. IInv => TypeOK
  BY DEF IInv
<1> QED BY PayoutInvariant, <1>1, PTL

(* A checkpoint names a transaction that was mined, succeeded and performed  *)
(* this step of this intent.                                                 *)
THEOREM CheckpointsAreSuccesses == Spec => []CheckpointIsASuccess
<1>1. IInv => CheckpointIsASuccess
  <2> SUFFICES ASSUME IInv, NEW i \in Intents, NEW s \in Steps, Recorded(i, s)
               PROVE  /\ tx[checkpoint[i][s]].state = "success" /\ tx[checkpoint[i][s]].step = s
                      /\ i \in tx[checkpoint[i][s]].intents
    BY DEF CheckpointIsASuccess
  <2>1. i \in Payout /\ Succeeded(checkpoint[i][s], s, i)
    BY DEF IInv, JournalTrue
  <2> QED BY <2>1 DEF Succeeded, Carries
<1> QED BY PayoutInvariant, <1>1, PTL

(* The authority knows no checkpoint that the journal does not have.         *)
THEOREM RemoteIsBehind == Spec => []RemoteFollowsLocal
<1>1. IInv => RemoteFollowsLocal
  BY DEF IInv
<1> QED BY PayoutInvariant, <1>1, PTL

(* The inbox record of a V4 payout is closed only after every intent ended.  *)
THEOREM ClosedIsEnded == Spec => []ClosedMeansEnded
<1>1. IInv => ClosedMeansEnded
  BY DEF IInv
<1> QED BY PayoutInvariant, <1>1, PTL

(* Nothing after the withdrawal is broadcast before the withdrawal is in the *)
(* journal of everyone who needs it.                                         *)
THEOREM DeliveriesAreBacked == Spec => []DeliveryIsBacked
<1>1. IInv => DeliveryIsBacked
  BY DEF IInv, ChainTrue, DeliveryIsBacked, AllBacked, Source
<1> QED BY PayoutInvariant, <1>1, PTL

(* Only Send broadcasts, and only over a journal in which every submission   *)
(* of the step has failed.                                                   *)
THEOREM NothingIsSentAgain == Spec => NoRebroadcastOverRecorded
<1> DEFINE A == \A h \in Hashes : (tx[h].state = "unused" /\ tx'[h].state # "unused") =>
                   \A i \in tx'[h].intents :
                      /\ ~Recorded(i, tx'[h].step)
                      /\ \A g \in submitted[i][tx'[h].step] : tx[g].state = "failed"
<1>1. IInv /\ [Next]_vars => A
  <2> SUFFICES ASSUME IInv, [Next]_vars PROVE A
    OBVIOUS
  <2>1. ASSUME UNCHANGED tx PROVE A
    BY <2>1
  <2>2. ASSUME NEW w \in Workers, Send(w) PROVE A
    <3>1. Inv0 /\ pc[w] = "send"
      BY <2>2 DEF IInv, Inv0, Send
    <3>2. PICK j \in JobRec : j = job[w]
      BY <3>1, StandsAt
    <3>3. /\ InStep(j) /\ Blank(j.step, j.child) /\ JournalTrue /\ plan \in Plans
          /\ Payout \subseteq Intents
      BY <3>1, <3>2, StandsAt DEF At
    <3> DEFINE n == sent + 1
               intents == IF j.step = "poolWithdraw" THEN Payout ELSE {j.child}
    <3>4. \/ UNCHANGED tx
          \/ tx' = [tx EXCEPT ![n] = [state |-> "mempool", step |-> j.step, intents |-> intents]]
      BY <2>2, <3>2 DEF Send
    <3>5. tx \in [Hashes -> [state : {"unused", "mempool", "success", "failed"},
                             step : Steps, intents : SUBSET Intents]]
      BY <3>1, TypeParts DEF Inv0
    <3> SUFFICES ASSUME NEW h \in Hashes, tx[h].state = "unused", tx'[h].state # "unused",
                        NEW i \in tx'[h].intents
                 PROVE  /\ ~Recorded(i, tx'[h].step)
                        /\ \A g \in submitted[i][tx'[h].step] : tx[g].state = "failed"
      OBVIOUS
    <3>6. tx'[h].step = j.step /\ i \in intents
      BY <3>4, <3>5
    <3>7. j.child \in Payout /\ j.step \in Steps
      BY <3>3 DEF InStep, JobRec
    <3>8. CASE i \in Bearers(j.step, j.child)
      BY <3>3, <3>6, <3>8 DEF Blank, Failed
    <3>9. CASE i \notin Bearers(j.step, j.child)
      <4>1. i \in Payout /\ i \in Intents /\ i \notin Bearers(j.step, i)
        BY <3>3, <3>6, <3>7, <3>9 DEF Bearers
      <4> QED BY <3>3, <3>6, <3>7, <4>1 DEF JournalTrue
    <3> QED BY <3>8, <3>9
  <2>3. ASSUME NEW h \in Hashes, Mine(h) PROVE A
    <3>1. tx \in [Hashes -> [state : {"unused", "mempool", "success", "failed"},
                             step : Steps, intents : SUBSET Intents]]
      BY TypeParts DEF IInv
    <3>2. tx[h].state = "mempool" /\ \A g \in Hashes : g # h => tx'[g] = tx[g]
      BY <2>3, <3>1 DEF Mine
    <3> QED BY <3>2
  <2>4. ASSUME NEW w \in Workers, WorkerStep(w) \/ Throw(w), ~Send(w) PROVE UNCHANGED tx
    BY <2>4 DEF WorkerStep, Throw, Begin, BeginV4, BeginV5, BeginV6, TakeUp, Accept, Check, Loop,
       Replay, RecordSent, Receipt, RecordLocal, RecordRemote, BeginDownstream, chainVars
  <2>5. ASSUME NEW i \in Intents, ClaimRefund(i) PROVE UNCHANGED tx
    BY <2>5 DEF ClaimRefund
  <2>6. ASSUME NEW i \in Intents, NEW v \in {"delivered", "refundable"}, Settle(i, v) PROVE UNCHANGED tx
    BY <2>6 DEF Settle
  <2>7. UNCHANGED vars => UNCHANGED tx
    BY DEF vars, chainVars
  <2> HIDE DEF A
  <2> QED BY <2>1, <2>2, <2>3, <2>4, <2>5, <2>6, <2>7 DEF Next
<1>2. IInv /\ [Next]_vars => [A]_vars
  BY <1>1
<1> QED BY PayoutInvariant, <1>2, PTL DEF Spec, NoRebroadcastOverRecorded

----------------------------------------------------------------------------
(* The public records follow the chain *)

LEMMA MaxOfTwo == Max({1}) = 1 /\ Max({2}) = 2 /\ Max({1, 2}) = 2
  BY DEF Max

(* FoldLeft over one event, and over two. *)
LEMMA FoldOne ==
    ASSUME NEW base, NEW seq, DOMAIN seq = {1}
    PROVE  FoldLeft(Apply, base, seq) = Apply(base, seq[1])
<1> DEFINE Iterates(g) == g = [s \in SUBSET {1} |->
                 IF s = {} THEN base ELSE Apply(g[s \ {Max(s)}], seq[Max(s)])]
           g0 == CHOOSE g : Iterates(g)
           w == [s \in SUBSET {1} |-> IF s = {} THEN base ELSE Apply(base, seq[1])]
<1>1. SUBSET {1} = {{}, {1}} /\ {1} \ {1} = {}
  OBVIOUS
<1>2. Iterates(w)
  <2>1. w[{}] = base /\ w[{1}] = Apply(base, seq[1])
    OBVIOUS
  <2>2. \A s \in SUBSET {1} : w[s] = IF s = {} THEN base ELSE Apply(w[s \ {Max(s)}], seq[Max(s)])
    <3> HIDE DEF w
    <3>1. w[{1}] = Apply(w[{1} \ {Max({1})}], seq[Max({1})])
      BY <1>1, <2>1, MaxOfTwo
    <3> QED BY <1>1, <2>1, <3>1
  <2> QED BY <2>2
<1>3. Iterates(g0)
  BY <1>2, Zenon
<1>4. FoldLeft(Apply, base, seq) = g0[{1}]
  BY DEF FoldLeft, MapThenFoldSet
<1> HIDE DEF g0
<1>5. \A s \in SUBSET {1} : g0[s] = IF s = {} THEN base ELSE Apply(g0[s \ {Max(s)}], seq[Max(s)])
  BY <1>3
<1> QED BY <1>1, <1>4, <1>5, MaxOfTwo

LEMMA FoldTwo ==
    ASSUME NEW base, NEW seq, DOMAIN seq = {1, 2}
    PROVE  FoldLeft(Apply, base, seq) = Apply(Apply(base, seq[1]), seq[2])
<1> DEFINE Iterates(g) == g = [s \in SUBSET {1, 2} |->
                 IF s = {} THEN base ELSE Apply(g[s \ {Max(s)}], seq[Max(s)])]
           g0 == CHOOSE g : Iterates(g)
           w == [s \in SUBSET {1, 2} |->
                   IF s = {} THEN base
                   ELSE IF s = {1} THEN Apply(base, seq[1])
                   ELSE IF s = {2} THEN Apply(base, seq[2])
                   ELSE Apply(Apply(base, seq[1]), seq[2])]
<1>1. /\ SUBSET {1, 2} = {{}, {1}, {2}, {1, 2}}
      /\ {1, 2} \ {2} = {1} /\ {1} \ {1} = {} /\ {2} \ {2} = {}
  OBVIOUS
<1>2. Iterates(w)
  <2>1. w[{}] = base /\ w[{1}] = Apply(base, seq[1]) /\ w[{2}] = Apply(base, seq[2])
        /\ w[{1, 2}] = Apply(Apply(base, seq[1]), seq[2])
    OBVIOUS
  <2>2. \A s \in SUBSET {1, 2} : w[s] = IF s = {} THEN base ELSE Apply(w[s \ {Max(s)}], seq[Max(s)])
    <3> HIDE DEF w
    <3> QED BY <1>1, <2>1, MaxOfTwo
  <2> QED BY <2>2
<1>3. Iterates(g0)
  BY <1>2, Zenon
<1>4. FoldLeft(Apply, base, seq) = g0[{1, 2}]
  BY DEF FoldLeft, MapThenFoldSet
<1> HIDE DEF g0
<1>5. \A s \in SUBSET {1, 2} : g0[s] = IF s = {} THEN base ELSE Apply(g0[s \ {Max(s)}], seq[Max(s)])
  BY <1>3
<1>6. g0[{}] = base /\ g0[{1}] = Apply(base, seq[1])
  BY <1>1, <1>5, MaxOfTwo
<1>7. {1, 2} \in SUBSET {1, 2} /\ {1, 2} # {}
  OBVIOUS
<1>8. g0[{1, 2}] = Apply(g0[{1, 2} \ {2}], seq[2])
  BY <1>5, <1>7, MaxOfTwo
<1> QED BY <1>1, <1>4, <1>6, <1>8

LEMMA ApplyTakes ==
    ASSUME NEW record, NEW event, record # Refused, event.id \notin record.seen, Accepts(record, event)
    PROVE  /\ Apply(record, event).status = event.status
           /\ Apply(record, event).seen = record.seen \cup {event.id}
<1>1. Apply(record, event) = [status |-> event.status, seen |-> record.seen \cup {event.id}]
  BY DEF Apply
<1> QED BY <1>1

(* The events that type stands for take the record to status to. *)
Takes(version, type, record, to) == Record(version, type, 0, TRUE, record).status = to

(* One public event, or two, that take a record to another status.           *)
LEMMA RecordByOne ==
    ASSUME NEW version, NEW type, NEW to, NEW record,
           record.seen = {}, record.status # "refused", to \in Transitions[record.status],
           EventsOf(version)[type] = <<to>>, to \in NeedReason => to \in Reasoned(version)
    PROVE  Takes(version, type, record, to)
<1> DEFINE events == PublicEvents(version, type, 0, TRUE)
<1>1. /\ DOMAIN events = {1}
      /\ events[1].id = <<0, 1>> /\ events[1].status = to
      /\ events[1].reason = (to \in Reasoned(version))
  BY DEF PublicEvents
<1>2. Record(version, type, 0, TRUE, record) = FoldLeft(Apply, record, events)
  BY DEF Record
<1> HIDE DEF events
<1>3. Record(version, type, 0, TRUE, record) = Apply(record, events[1])
  BY <1>1, <1>2, FoldOne
<1>4. record # Refused
  BY DEF Refused
<1>5. Accepts(record, events[1])
  BY <1>1 DEF Accepts
<1>6. Apply(record, events[1]).status = events[1].status
  BY <1>1, <1>4, <1>5, ApplyTakes
<1> QED BY <1>1, <1>3, <1>6 DEF Takes

LEMMA RecordByTwo ==
    ASSUME NEW version, NEW type, NEW via, NEW to, NEW record,
           record.seen = {}, record.status # "refused", via # "refused",
           via \in Transitions[record.status], to \in Transitions[via],
           EventsOf(version)[type] = <<via, to>>, via \notin NeedReason, to \notin NeedReason
    PROVE  Takes(version, type, record, to)
<1> DEFINE events == PublicEvents(version, type, 0, TRUE)
           next == Apply(record, events[1])
<1>1. /\ DOMAIN events = {1, 2}
      /\ events[1].id = <<0, 1>> /\ events[1].status = via
      /\ events[2].id = <<0, 2>> /\ events[2].status = to
  BY DEF PublicEvents
<1>2. Record(version, type, 0, TRUE, record) = FoldLeft(Apply, record, events)
  BY DEF Record
<1> HIDE DEF events
<1>3. Record(version, type, 0, TRUE, record) = Apply(next, events[2])
  BY <1>1, <1>2, FoldTwo
<1>4. record # Refused
  BY DEF Refused
<1>5. Accepts(record, events[1])
  BY <1>1 DEF Accepts
<1>6. next.status = via /\ next.seen = {<<0, 1>>}
  <2>1. next.status = events[1].status /\ next.seen = record.seen \cup {events[1].id}
    BY <1>1, <1>4, <1>5, ApplyTakes
  <2> QED BY <1>1, <2>1
<1> HIDE DEF next
<1>7. next # Refused
  BY <1>6 DEF Refused
<1>8. events[2].id \notin next.seen
  BY <1>1, <1>6
<1>9. Accepts(next, events[2])
  BY <1>1, <1>6 DEF Accepts
<1>10. Apply(next, events[2]).status = events[2].status
  BY <1>7, <1>8, <1>9, ApplyTakes
<1> QED BY <1>1, <1>3, <1>10 DEF Takes

(* The moves of a record of a payout that is not refunded through a relay.  *)
Moves == {<<"payout_requested", "escrow_address_reserved">>,
          <<"escrow_address_reserved", "pool_withdrawal_pending">>,
          <<"pool_withdrawal_pending", "escrow_receipt_confirmed">>,
          <<"escrow_receipt_confirmed", "payout_submitted">>,
          <<"payout_submitted", "payout_completed">>,
          <<"refund_available", "refunded">>}

LEMMA EventsAre ==
    ASSUME NEW version \in {4, 5}
    PROVE  /\ EventsOf(version)["quote_accepted"] = <<"quote_accepted", "escrow_address_reserved">>
           /\ EventsOf(version)["pool_withdrawal_confirmed"] = <<"pool_withdrawal_pending">>
           /\ EventsOf(version)["escrow_receipt_confirmed"] = <<"escrow_receipt_confirmed">>
           /\ EventsOf(version)["payout_submitted"] = <<"payout_pending", "payout_submitted">>
           /\ EventsOf(version)["payout_completed"] = <<"payout_completed">>
           /\ EventsOf(version)["refund_claimed"] = <<"refunded">>
<1>1. CASE version = 4
  BY <1>1 DEF EventsOf, EventsV4
<1>2. CASE version = 5
  BY <1>2 DEF EventsOf, EventsV5
<1> QED BY <1>1, <1>2

LEMMA RecordFollows ==
    ASSUME NEW version \in {4, 5}, NEW from, NEW to, <<from, to>> \in Moves
    PROVE  Record(version, Emitted(to), 0, TRUE, [status |-> from, seen |-> {}]).status = to
<1> DEFINE record == [status |-> from, seen |-> {}]
<1>0. record.status = from /\ record.seen = {}
  OBVIOUS
<1> HIDE DEF record
<1> SUFFICES Takes(version, Emitted(to), record, to)
  BY DEF record, Takes
<1>1. CASE from = "payout_requested" /\ to = "escrow_address_reserved"
  <2>1. /\ record.status # "refused" /\ "quote_accepted" # "refused"
        /\ "quote_accepted" \in Transitions[record.status] /\ to \in Transitions["quote_accepted"]
        /\ "quote_accepted" \notin NeedReason /\ to \notin NeedReason
    BY <1>0, <1>1 DEF Transitions, NeedReason
  <2>2. Emitted(to) = "quote_accepted"
    BY <1>1 DEF Emitted
  <2>3. EventsOf(version)[Emitted(to)] = <<"quote_accepted", to>>
    BY <1>1, <2>2, EventsAre
  <2> QED BY <1>0, <2>1, <2>3, RecordByTwo
<1>2. CASE from = "escrow_address_reserved" /\ to = "pool_withdrawal_pending"
  <2>1. record.status # "refused" /\ to \in Transitions[record.status] /\ to \notin NeedReason
    BY <1>0, <1>2 DEF Transitions, NeedReason
  <2>2. Emitted(to) = "pool_withdrawal_confirmed"
    BY <1>2 DEF Emitted
  <2>3. EventsOf(version)[Emitted(to)] = <<to>>
    BY <1>2, <2>2, EventsAre
  <2> QED BY <1>0, <2>1, <2>3, RecordByOne
<1>3. CASE from = "pool_withdrawal_pending" /\ to = "escrow_receipt_confirmed"
  <2>1. record.status # "refused" /\ to \in Transitions[record.status] /\ to \notin NeedReason
    BY <1>0, <1>3 DEF Transitions, NeedReason
  <2>2. Emitted(to) = to
    BY <1>3 DEF Emitted
  <2>3. EventsOf(version)[Emitted(to)] = <<to>>
    BY <1>3, <2>2, EventsAre
  <2> QED BY <1>0, <2>1, <2>3, RecordByOne
<1>4. CASE from = "escrow_receipt_confirmed" /\ to = "payout_submitted"
  <2>1. /\ record.status # "refused" /\ "payout_pending" # "refused"
        /\ "payout_pending" \in Transitions[record.status] /\ to \in Transitions["payout_pending"]
        /\ "payout_pending" \notin NeedReason /\ to \notin NeedReason
    BY <1>0, <1>4 DEF Transitions, NeedReason
  <2>2. Emitted(to) = "payout_submitted"
    BY <1>4 DEF Emitted
  <2>3. EventsOf(version)[Emitted(to)] = <<"payout_pending", to>>
    BY <1>4, <2>2, EventsAre
  <2> QED BY <1>0, <2>1, <2>3, RecordByTwo
<1>5. CASE from = "payout_submitted" /\ to = "payout_completed"
  <2>1. record.status # "refused" /\ to \in Transitions[record.status] /\ to \notin NeedReason
    BY <1>0, <1>5 DEF Transitions, NeedReason
  <2>2. Emitted(to) = to
    BY <1>5 DEF Emitted
  <2>3. EventsOf(version)[Emitted(to)] = <<to>>
    BY <1>5, <2>2, EventsAre
  <2> QED BY <1>0, <2>1, <2>3, RecordByOne
<1>6. CASE from = "refund_available" /\ to = "refunded"
  <2>1. record.status # "refused" /\ to \in Transitions[record.status] /\ to \in Reasoned(version)
    BY <1>0, <1>6 DEF Transitions, Reasoned
  <2>2. Emitted(to) = "refund_claimed"
    BY <1>6 DEF Emitted
  <2>3. EventsOf(version)[Emitted(to)] = <<to>>
    BY <1>6, <2>2, EventsAre
  <2> QED BY <1>0, <2>1, <2>3, RecordByOne
<1> QED
  <2>1. \/ from = "payout_requested" /\ to = "escrow_address_reserved"
        \/ from = "escrow_address_reserved" /\ to = "pool_withdrawal_pending"
        \/ from = "pool_withdrawal_pending" /\ to = "escrow_receipt_confirmed"
        \/ from = "escrow_receipt_confirmed" /\ to = "payout_submitted"
        \/ from = "payout_submitted" /\ to = "payout_completed"
        \/ from = "refund_available" /\ to = "refunded"
    BY DEF Moves
  <2> QED BY <1>1, <1>2, <1>3, <1>4, <1>5, <1>6, <2>1

(* What is spent was accepted by all: else an intent could be accepted after *)
(* its withdrawal.                                                           *)
SpentIsAccepted == spent => AllAccepted

(* The status and the withdrawal are the chain's alone. *)
LEMMA OnlyTheChainMoves ==
    ASSUME [Next]_vars
    PROVE  /\ plan' = plan
           /\ \/ UNCHANGED <<status, spent>>
              \/ \E h \in Hashes : Mine(h)
              \/ \E i \in Intents : ClaimRefund(i)
<1>1. ASSUME NEW w \in Workers, WorkerStep(w) \/ Throw(w) PROVE UNCHANGED <<plan, status, spent>>
  BY <1>1 DEF WorkerStep, Throw, Begin, BeginV4, BeginV5, BeginV6, TakeUp, Accept, Check, Loop,
     Replay, Send, RecordSent, Receipt, RecordLocal, RecordRemote, BeginDownstream, chainVars
<1>2. ASSUME NEW i \in Intents, NEW v \in {"delivered", "refundable"}, Settle(i, v)
      PROVE  UNCHANGED <<plan, status, spent>>
  BY <1>2 DEF Settle
<1>3. ASSUME NEW i \in Intents, ClaimRefund(i) PROVE plan' = plan
  BY <1>3 DEF ClaimRefund
<1>4. ASSUME NEW h \in Hashes, Mine(h) PROVE plan' = plan
  BY <1>4 DEF Mine
<1>5. CASE UNCHANGED vars
  BY <1>5 DEF vars, chainVars
<1> QED BY <1>1, <1>2, <1>3, <1>4, <1>5 DEF Next

(* A mined transaction of a step. *)
LEMMA MinedMeans ==
    ASSUME IInv, NEW h \in Hashes, Mine(h), NEW i \in Payout
    PROVE  \/ status'[i] = status[i] /\ spent' = spent
           \/ spent' /\ AllAccepted /\ status'[i] = status[i]
           \/ status[i] = 0 /\ status'[i] = 1 /\ spent' = spent
           \/ status[i] = 1 /\ status'[i] = 2 /\ spent' = spent /\ spent
           \/ status[i] = 2 /\ status'[i] = 3 /\ spent' = spent
           \/ status[i] = 3 /\ status'[i] \in {4, 5} /\ spent' = spent
<1>1. /\ status \in [Intents -> 0..6] /\ plan \in Plans /\ spent \in BOOLEAN
      /\ tx[h].state # "unused" => (tx[h].step = "poolWithdraw" => AllAccepted)
      /\ tx[h].step \in Steps
  BY TypeParts DEF IInv, ChainTrue
<1>2. i \in Intents
  BY <1>1, PlanIs
<1>3. CASE UNCHANGED <<status, spent>>
  BY <1>3
<1>4. CASE /\ tx[h].state = "mempool" /\ Executable(tx[h].step, tx[h].intents)
           /\ status' = [k \in Intents |-> IF k \in tx[h].intents THEN After(tx[h].step, k) ELSE status[k]]
           /\ spent' = (spent \/ tx[h].step = "poolWithdraw")
  <2>1. CASE i \notin tx[h].intents
    BY <1>1, <1>2, <1>4, <2>1
  <2>2. CASE i \in tx[h].intents /\ tx[h].step = "poolWithdraw"
    <3>1. status'[i] = status[i]
      BY <1>2, <1>4, <2>2 DEF After
    <3> QED BY <1>1, <1>4, <2>2, <3>1
  <2>3. CASE i \in tx[h].intents /\ tx[h].step # "poolWithdraw"
    <3>1. spent' = spent /\ status'[i] = After(tx[h].step, i)
      BY <1>1, <1>2, <1>4, <2>3
    <3>2. CASE tx[h].step = "acceptQuote"
      BY <1>4, <2>3, <3>1, <3>2 DEF Executable, After
    <3>3. CASE tx[h].step = "confirmEscrowReceipt"
      BY <1>4, <2>3, <3>1, <3>3 DEF Executable, After
    <3>4. CASE tx[h].step = "submitPayout"
      BY <1>4, <2>3, <3>1, <3>4 DEF Executable, After
    <3>5. CASE tx[h].step = "completePayout"
      BY <1>4, <2>3, <3>1, <3>5 DEF Executable, After
    <3>6. CASE tx[h].step = "proveRelayRefund"
      BY <1>4, <2>3, <3>1, <3>6 DEF Executable, After
    <3> QED BY <1>1, <2>3, <3>2, <3>3, <3>4, <3>5, <3>6 DEF Steps
  <2> QED BY <2>1, <2>2, <2>3
<1> QED BY <1>3, <1>4 DEF Mine

LEMMA SpentStays ==
    ASSUME IInv, SpentIsAccepted, [Next]_vars
    PROVE  SpentIsAccepted'
<1>1. /\ status \in [Intents -> 0..6] /\ plan \in Plans /\ Payout \subseteq Intents
  BY TypeParts, PlanIs DEF IInv
<1>2. plan' = plan /\ Payout' = Payout
  BY OnlyTheChainMoves DEF Payout
<1>3. CASE UNCHANGED <<status, spent>>
  BY <1>2, <1>3 DEF SpentIsAccepted, AllAccepted
<1>4. ASSUME NEW h \in Hashes, Mine(h) PROVE SpentIsAccepted'
  <2>1. \A i \in Payout : spent' => (spent \/ AllAccepted)
    BY <1>4, MinedMeans
  <2>2. 1 \in Payout
    BY <1>1, PlanIs
  <2>3. spent' => AllAccepted
    BY <2>1, <2>2 DEF SpentIsAccepted
  <2>4. \A i \in Payout : status[i] >= 1 => status'[i] >= 1
    BY <1>1, <1>4, MinedMeans
  <2> QED BY <1>2, <2>3, <2>4 DEF SpentIsAccepted, AllAccepted
<1>5. ASSUME NEW i \in Intents, ClaimRefund(i) PROVE SpentIsAccepted'
  <2>1. spent' = spent /\ \A k \in Payout : status[k] >= 1 => status'[k] >= 1
    BY <1>1, <1>5 DEF ClaimRefund
  <2> QED BY <1>2, <2>1 DEF SpentIsAccepted, AllAccepted
<1> QED BY <1>3, <1>4, <1>5, OnlyTheChainMoves

PublicOf(n, s) ==
    CASE n = 0 -> "payout_requested"
      [] n = 1 -> IF s THEN "pool_withdrawal_pending" ELSE "escrow_address_reserved"
      [] n = 2 -> "escrow_receipt_confirmed"
      [] n = 3 -> "payout_submitted"
      [] n = 4 -> "payout_completed"
      [] n = 5 -> "refund_available"
      [] OTHER -> "refunded"

LEMMA StatusMoves ==
    ASSUME IInv, SpentIsAccepted, [Next]_vars, NEW i \in Payout
    PROVE  \/ PublicStatus(i)' = PublicStatus(i)
           \/ PublicStatus(i)' = "refund_available"
           \/ <<PublicStatus(i), PublicStatus(i)'>> \in Moves
<1>1. /\ status \in [Intents -> 0..6] /\ plan \in Plans /\ i \in Intents /\ spent \in BOOLEAN
  BY TypeParts, PlanIs DEF IInv
<1>2. PublicStatus(i) = PublicOf(status[i], spent) /\ PublicStatus(i)' = PublicOf(status'[i], spent')
  BY DEF PublicStatus, PublicOf
<1>3. status[i] = 0 => ~spent
  BY <1>1 DEF SpentIsAccepted, AllAccepted
<1>4. CASE UNCHANGED <<status, spent>>
  BY <1>2, <1>4
<1>5. ASSUME NEW h \in Hashes, Mine(h)
      PROVE  \/ PublicStatus(i)' = PublicStatus(i)
             \/ PublicStatus(i)' = "refund_available"
             \/ <<PublicStatus(i), PublicStatus(i)'>> \in Moves
  <2>1. CASE status'[i] = status[i] /\ spent' = spent
    BY <1>2, <2>1
  <2>2. CASE spent' /\ AllAccepted /\ status'[i] = status[i]
    <3>1. status[i] \in 1..6
      BY <1>1, <2>2 DEF AllAccepted
    <3>2. CASE status[i] = 1
      BY <1>1, <1>2, <2>2, <3>2 DEF PublicOf, Moves
    <3>3. CASE status[i] # 1
      BY <1>1, <1>2, <2>2, <3>1, <3>3 DEF PublicOf
    <3> QED BY <3>2, <3>3
  <2>3. CASE status[i] = 0 /\ status'[i] = 1 /\ spent' = spent
    BY <1>2, <1>3, <2>3 DEF PublicOf, Moves
  <2>4. CASE status[i] = 1 /\ status'[i] = 2 /\ spent' = spent /\ spent
    BY <1>2, <2>4 DEF PublicOf, Moves
  <2>5. CASE status[i] = 2 /\ status'[i] = 3 /\ spent' = spent
    BY <1>2, <2>5 DEF PublicOf, Moves
  <2>6. CASE status[i] = 3 /\ status'[i] \in {4, 5} /\ spent' = spent
    BY <1>2, <2>6 DEF PublicOf, Moves
  <2> QED BY <1>5, <2>1, <2>2, <2>3, <2>4, <2>5, <2>6, MinedMeans
<1>6. ASSUME NEW k \in Intents, ClaimRefund(k)
      PROVE  \/ PublicStatus(i)' = PublicStatus(i)
             \/ PublicStatus(i)' = "refund_available"
             \/ <<PublicStatus(i), PublicStatus(i)'>> \in Moves
  <2>1. CASE i = k
    <3>1. status[i] = 5 /\ status'[i] = 6
      BY <1>1, <1>6, <2>1 DEF ClaimRefund
    <3> QED BY <1>2, <3>1 DEF PublicOf, Moves
  <2>2. CASE i # k
    <3>1. status'[i] = status[i] /\ spent' = spent
      BY <1>1, <1>6, <2>2 DEF ClaimRefund
    <3> QED BY <1>2, <3>1
  <2> QED BY <2>1, <2>2
<1> QED BY <1>4, <1>5, <1>6, OnlyTheChainMoves

(* Every event the adapter of version 4 or 5 emits is taken by the public    *)
(* record, which is then where the chain is; the refund a relay proves after *)
(* the submission is the one exception the property names.                   *)
THEOREM RecordsFollowTheChain == Spec => PublicRecordFollows
<1> DEFINE A == plan.version \in {4, 5} =>
                 \A i \in Payout :
                    LET from == PublicStatus(i)
                        to == PublicStatus(i)'
                    IN from = to \/ to = "refund_available"
                       \/ Record(plan.version, Emitted(to), 0, TRUE, [status |-> from, seen |-> {}]).status
                             = to
           J == IInv /\ SpentIsAccepted
<1>1. Init => J
  BY InitInv DEF Init, SpentIsAccepted
<1>2. J /\ [Next]_vars => J'
  BY NextInv, SpentStays
<1>3. J /\ [Next]_vars => A
  <2> SUFFICES ASSUME J, [Next]_vars, plan.version \in {4, 5}, NEW i \in Payout,
                      NEW from, from = PublicStatus(i), NEW to, to = PublicStatus(i)',
                      from # to, to # "refund_available"
               PROVE  Record(plan.version, Emitted(to), 0, TRUE, [status |-> from, seen |-> {}]).status
                         = to
    OBVIOUS
  <2>1. <<from, to>> \in Moves
    BY StatusMoves
  <2> QED BY <2>1, RecordFollows
<1>4. J /\ [Next]_vars => [A]_vars
  BY <1>3
<1> HIDE DEF A, J
<1>5. Spec => []J
  BY <1>1, <1>2, PTL DEF Spec
<1>6. Spec => [][A]_vars
  BY <1>4, <1>5, PTL DEF Spec
<1> QED BY <1>6 DEF PublicRecordFollows, A

----------------------------------------------------------------------------
(* What succeeded and what the adapter shows *)

(* Step s of intent i has succeeded. *)
Won(s, i) == \E h \in Hashes : tx[h].state = "success" /\ tx[h].step = s /\ i \in tx[h].intents

(* What the success of a step shows in the adapter. *)
Shows(s, i) ==
    /\ s = "acceptQuote" => status[i] >= 1
    /\ s = "poolWithdraw" => spent
    /\ s = "confirmEscrowReceipt" => status[i] >= 2
    /\ s = "submitPayout" => status[i] >= 3
    /\ s \in Endings => status[i] >= 4

(* ... and whose success the adapter shows. *)
Owes(i) ==
    /\ status[i] >= 1 => Won("acceptQuote", i)
    /\ spent => Won("poolWithdraw", i)
    /\ status[i] >= 2 => Won("confirmEscrowReceipt", i)
    /\ status[i] >= 3 => Won("submitPayout", i)
    /\ status[i] >= 4 => \E s \in Endings : Won(s, i)

(* The adapter and the transactions tell the same story; the withdrawal is    *)
(* always of the whole payout.                                               *)
ChainShows ==
    /\ \A h \in Hashes : tx[h].state # "unused" /\ tx[h].step = "poolWithdraw" => tx[h].intents = Payout
    /\ \A h \in Hashes : tx[h].state = "success" =>
          \A i \in tx[h].intents : \A s \in {tx[h].step} : Shows(s, i)
    /\ \A i \in Payout : Owes(i)

TxType == [state : {"unused", "mempool", "success", "failed"}, step : Steps, intents : SUBSET Intents]

LEMMA ChainTypes ==
    ASSUME IInv
    PROVE  /\ tx \in [Hashes -> TxType] /\ status \in [Intents -> 0..6] /\ spent \in BOOLEAN
           /\ plan \in Plans /\ Payout \subseteq Intents
           /\ \A h \in Hashes : tx[h].state # "unused" => tx[h].intents \subseteq Payout
  BY TypeParts, PlanIs DEF IInv, TxType, ChainTrue

(* A broadcast: a new transaction in the mempool. *)
LEMMA SendHands ==
    ASSUME IInv, NEW w \in Workers, Send(w), ~UNCHANGED tx
    PROVE  \E j \in JobRec, n \in Hashes :
              /\ InStep(j) /\ Blank(j.step, j.child) /\ tx[n].state = "unused"
              /\ tx' = [tx EXCEPT ![n] = [state |-> "mempool", step |-> j.step,
                             intents |-> IF j.step = "poolWithdraw" THEN Payout ELSE {j.child}]]
<1>1. Inv0 /\ pc[w] = "send"
  BY DEF IInv, Inv0, Send
<1>2. PICK j \in JobRec : j = job[w]
  BY <1>1, StandsAt
<1>3. InStep(j) /\ Blank(j.step, j.child)
  BY <1>1, <1>2, StandsAt DEF At
<1> DEFINE n == sent + 1
<1>4. /\ n \in Hashes
      /\ tx' = [tx EXCEPT ![n] = [state |-> "mempool", step |-> j.step,
                     intents |-> IF j.step = "poolWithdraw" THEN Payout ELSE {j.child}]]
  BY <1>2 DEF Send
<1>5. tx[n].state = "unused"
  <2>1. ~(n <= sent)
    BY TypeParts DEF IInv
  <2> QED BY <1>4, <2>1 DEF IInv, ChainTrue
<1> HIDE DEF n
<1> QED BY <1>3, <1>4, <1>5

(* The steps, by what they do to the chain. *)
LEMMA ChainSteps ==
    ASSUME [Next]_vars
    PROVE  /\ plan' = plan
           /\ \/ UNCHANGED <<tx, status, spent>>
              \/ \E w \in Workers : Send(w) /\ ~UNCHANGED tx
              \/ \E h \in Hashes : Mine(h)
              \/ \E i \in Intents : ClaimRefund(i)
<1>1. ASSUME NEW w \in Workers, WorkerStep(w) \/ Throw(w), ~Send(w) PROVE UNCHANGED <<tx, status, spent>>
  BY <1>1 DEF WorkerStep, Throw, Begin, BeginV4, BeginV5, BeginV6, TakeUp, Accept, Check, Loop,
     Replay, RecordSent, Receipt, RecordLocal, RecordRemote, BeginDownstream, chainVars
<1>2. ASSUME NEW w \in Workers, Send(w), UNCHANGED tx PROVE UNCHANGED <<tx, status, spent>>
  BY <1>2 DEF Send
<1>3. ASSUME NEW i \in Intents, NEW v \in {"delivered", "refundable"}, Settle(i, v)
      PROVE  UNCHANGED <<tx, status, spent>>
  BY <1>3 DEF Settle
<1>4. CASE UNCHANGED vars
  BY <1>4, OnlyTheChainMoves DEF vars, chainVars
<1> QED BY <1>1, <1>2, <1>3, <1>4, OnlyTheChainMoves DEF Next

(* Nothing new succeeds, and what the adapter shows is owed to what did. *)
LEMMA ShowsStay ==
    ASSUME IInv, ChainShows, plan' = plan, tx' \in [Hashes -> TxType],
           \A h \in Hashes : /\ tx'[h].state = "success" <=> tx[h].state = "success"
                             /\ tx[h].state = "success" => tx'[h] = tx[h],
           \A h \in Hashes : tx'[h].state # "unused" /\ tx'[h].step = "poolWithdraw"
                                => tx'[h].intents = Payout,
           spent' = spent, status' \in [Intents -> 0..6],
           \A i \in Intents : status'[i] = status[i] \/ (status[i] = 5 /\ status'[i] = 6)
    PROVE  ChainShows'
<1>1. Payout' = Payout
  BY PlanStays
<1>2. ASSUME NEW h \in Hashes, tx'[h].state = "success", NEW i \in tx'[h].intents,
             NEW s, s = tx'[h].step
      PROVE  Shows(s, i)'
  <2>1. tx[h].state = "success" /\ tx'[h] = tx[h] /\ i \in Intents
    BY <1>2, ChainTypes
  <2>2. Shows(s, i)
    BY <1>2, <2>1 DEF ChainShows
  <2>3. status[i] \in 0..6 /\ (status'[i] = status[i] \/ (status[i] = 5 /\ status'[i] = 6))
    BY <2>1, ChainTypes
  <2> QED BY <2>1, <2>2, <2>3 DEF Shows
<1>3. \A s, i : Won(s, i) => Won(s, i)'
  BY DEF Won
<1>4. ASSUME NEW i \in Payout PROVE Owes(i)'
  <2>1. Owes(i) /\ i \in Intents
    BY ChainTypes DEF ChainShows
  <2>2. status[i] \in 0..6 /\ (status'[i] = status[i] \/ (status[i] = 5 /\ status'[i] = 6))
    BY <2>1, ChainTypes
  <2> QED BY <1>3, <2>1, <2>2 DEF Owes
<1>5. \A h \in Hashes : tx'[h].state = "success" =>
         \A i \in tx'[h].intents : \A s \in {tx'[h].step} : Shows(s, i)'
  BY <1>2
<1> QED BY <1>1, <1>4, <1>5 DEF ChainShows

(* What is mined moves the status to what its step stands for. *)
LEMMA MineShows ==
    ASSUME IInv, ChainShows, plan' = plan, NEW h \in Hashes, Mine(h)
    PROVE  ChainShows'
<1>0. /\ tx \in [Hashes -> TxType] /\ status \in [Intents -> 0..6] /\ spent \in BOOLEAN
      /\ Payout \subseteq Intents /\ Payout' = Payout /\ tx[h].state = "mempool"
      /\ tx[h].intents \subseteq Payout
  BY ChainTypes, PlanStays DEF Mine
<1>1. CASE tx' = [tx EXCEPT ![h].state = "failed"] /\ UNCHANGED <<status, spent>>
  <2>1. /\ tx' \in [Hashes -> TxType] /\ \A g \in Hashes : g # h => tx'[g] = tx[g]
        /\ tx'[h].state = "failed" /\ tx'[h].step = tx[h].step /\ tx'[h].intents = tx[h].intents
    BY <1>0, <1>1 DEF TxType
  <2>2. \A g \in Hashes : tx'[g].state # "unused" /\ tx'[g].step = "poolWithdraw" => tx'[g].intents = Payout
    BY <1>0, <2>1 DEF ChainShows
  <2>3. \A g \in Hashes : /\ tx'[g].state = "success" <=> tx[g].state = "success"
                          /\ tx[g].state = "success" => tx'[g] = tx[g]
    BY <1>0, <2>1
  <2> QED BY <1>0, <1>1, <2>1, <2>2, <2>3, ShowsStay
<1>2. CASE /\ Executable(tx[h].step, tx[h].intents)
           /\ tx' = [tx EXCEPT ![h].state = "success"]
           /\ status' = [i \in Intents |-> IF i \in tx[h].intents THEN After(tx[h].step, i) ELSE status[i]]
           /\ spent' = (spent \/ tx[h].step = "poolWithdraw")
  <2>0. PICK step : step = tx[h].step
    OBVIOUS
  <2>1. /\ \A g \in Hashes : g # h => tx'[g] = tx[g]
        /\ tx'[h].state = "success" /\ tx'[h].step = step /\ tx'[h].intents = tx[h].intents
        /\ step \in Steps
    BY <1>0, <1>2, <2>0 DEF TxType
  <2>2. \A i \in Intents : status'[i] = IF i \in tx[h].intents THEN After(step, i) ELSE status[i]
    BY <1>2, <2>0
  <2>3. ASSUME NEW i \in tx[h].intents
        PROVE  /\ step = "acceptQuote" => status[i] = 0 /\ status'[i] = 1
               /\ step = "poolWithdraw" => status'[i] = status[i]
               /\ step = "confirmEscrowReceipt" => status[i] = 1 /\ status'[i] = 2
               /\ step = "submitPayout" => status[i] = 2 /\ status'[i] = 3
               /\ step \in Endings => status[i] = 3 /\ status'[i] \in {4, 5}
    <3>1. status'[i] = After(step, i)
      BY <1>0, <2>2
    <3> QED BY <1>2, <2>0, <3>1 DEF Executable, After, Endings
  <2>4. /\ step = "poolWithdraw" => spent' /\ tx[h].intents = Payout
        /\ spent => spent'
        /\ spent' => spent \/ step = "poolWithdraw"
    <3>1. step = "poolWithdraw" => tx[h].intents = Payout
      BY <1>0, <2>0 DEF ChainShows
    <3>2. spent' <=> (spent \/ step = "poolWithdraw")
      BY <1>2, <2>0, Zenon
    <3> QED BY <3>1, <3>2, Zenon
  <2>5. \A i \in Payout : i \notin tx[h].intents => status'[i] = status[i]
    BY <1>0, <2>2
  <2>6. \A i \in Payout : status[i] \in 0..6 /\ status'[i] >= status[i]
    <3> SUFFICES ASSUME NEW i \in Payout PROVE status[i] \in 0..6 /\ status'[i] >= status[i]
      OBVIOUS
    <3>1. status[i] \in 0..6
      BY <1>0
    <3>2. CASE i \in tx[h].intents
      BY <2>1, <2>3, <3>1, <3>2 DEF Steps, Endings
    <3> QED BY <2>5, <3>1, <3>2
  <2>7. ASSUME NEW g \in Hashes, tx'[g].state = "success", NEW i \in tx'[g].intents, NEW s, s = tx'[g].step
        PROVE  Shows(s, i)'
    <3>1. CASE g = h
      <4>1. s = step /\ i \in tx[h].intents /\ s \in Steps
        BY <2>1, <2>7, <3>1
      <4>2. /\ s = "acceptQuote" => status'[i] = 1
            /\ s = "confirmEscrowReceipt" => status'[i] = 2
            /\ s = "submitPayout" => status'[i] = 3
            /\ s \in Endings => status'[i] \in {4, 5}
        BY <2>3, <4>1
      <4>3. s = "poolWithdraw" => spent'
        BY <2>4, <4>1
      <4> QED BY <4>2, <4>3 DEF Shows
    <3>2. CASE g # h
      <4>1. tx[g] = tx'[g] /\ i \in Payout
        BY <2>1, <2>7, <3>2, ChainTypes
      <4>2. Shows(s, i)
        BY <2>7, <4>1 DEF ChainShows
      <4>3. status[i] \in 0..6 /\ status'[i] \in Int /\ status'[i] >= status[i]
        <5>1. status'[i] \in Int
          BY <2>1, <2>3, <2>5, <2>6, <4>1 DEF Steps, Endings
        <5> QED BY <2>6, <4>1, <5>1
      <4>4. spent => spent'
        BY <2>4
      <4> QED BY <4>2, <4>3, <4>4 DEF Shows
    <3> QED BY <3>1, <3>2
  <2>8. /\ \A s, i : Won(s, i) => Won(s, i)'
        /\ \A i \in tx[h].intents : Won(step, i)'
    <3>1. tx[h].state # "success"
      BY <1>0
    <3>2. ASSUME NEW s, NEW i, Won(s, i) PROVE Won(s, i)'
      <4>1. PICK g \in Hashes : tx[g].state = "success" /\ tx[g].step = s /\ i \in tx[g].intents
        BY <3>2 DEF Won
      <4>2. tx'[g] = tx[g]
        BY <2>1, <3>1, <4>1
      <4> QED BY <4>1, <4>2 DEF Won
    <3>3. ASSUME NEW i \in tx[h].intents PROVE Won(step, i)'
      BY <2>1 DEF Won
    <3> QED BY <3>2, <3>3
  <2>9. ASSUME NEW i \in Payout PROVE Owes(i)'
    <3>1. Owes(i)
      BY DEF ChainShows
    <3>2. CASE i \notin tx[h].intents
      BY <2>4, <2>5, <2>8, <3>1, <3>2 DEF Owes
    <3>3. CASE i \in tx[h].intents
      <4>1. CASE step = "acceptQuote"
        BY <2>3, <2>4, <2>8, <3>1, <3>3, <4>1 DEF Owes
      <4>2. CASE step = "poolWithdraw"
        BY <2>3, <2>4, <2>8, <3>1, <3>3, <4>2 DEF Owes
      <4>3. CASE step = "confirmEscrowReceipt"
        BY <2>3, <2>4, <2>8, <3>1, <3>3, <4>3 DEF Owes
      <4>4. CASE step = "submitPayout"
        BY <2>3, <2>4, <2>8, <3>1, <3>3, <4>4 DEF Owes
      <4>5. CASE step \in Endings
        BY <2>3, <2>4, <2>8, <3>1, <3>3, <4>5 DEF Owes, Endings
      <4> QED BY <2>1, <4>1, <4>2, <4>3, <4>4, <4>5 DEF Steps, Endings
    <3> QED BY <3>2, <3>3
  <2>10. \A g \in Hashes : tx'[g].state = "success" =>
            \A i \in tx'[g].intents : \A s \in {tx'[g].step} : Shows(s, i)'
    BY <2>7
  <2>11. \A g \in Hashes : tx'[g].state # "unused" /\ tx'[g].step = "poolWithdraw" => tx'[g].intents = Payout'
    BY <1>0, <2>1, <2>4 DEF ChainShows
  <2> QED BY <1>0, <2>9, <2>10, <2>11 DEF ChainShows
<1> QED BY <1>1, <1>2 DEF Mine

LEMMA ShowsKept == IInv /\ ChainShows /\ [Next]_vars => ChainShows'
<1> SUFFICES ASSUME IInv, ChainShows, [Next]_vars PROVE ChainShows'
  OBVIOUS
<1>0. /\ tx \in [Hashes -> TxType] /\ status \in [Intents -> 0..6] /\ spent \in BOOLEAN
      /\ Payout \subseteq Intents /\ plan' = plan
  BY ChainTypes, ChainSteps
<1>p. \A g \in Hashes : tx[g].state # "unused" /\ tx[g].step = "poolWithdraw" => tx[g].intents = Payout
  BY DEF ChainShows
<1>1. CASE UNCHANGED <<tx, status, spent>>
  <2>1. tx' \in [Hashes -> TxType] /\ spent' = spent /\ status' \in [Intents -> 0..6]
        /\ tx' = tx /\ status' = status
    BY <1>0, <1>1
  <2> QED BY <1>0, <1>p, <2>1, ShowsStay
<1>2. ASSUME NEW w \in Workers, Send(w), ~UNCHANGED tx PROVE ChainShows'
  <2>1. PICK j \in JobRec, n \in Hashes :
              /\ InStep(j) /\ Blank(j.step, j.child) /\ tx[n].state = "unused"
              /\ tx' = [tx EXCEPT ![n] = [state |-> "mempool", step |-> j.step,
                             intents |-> IF j.step = "poolWithdraw" THEN Payout ELSE {j.child}]]
    BY <1>2, SendHands
  <2>2. UNCHANGED <<status, spent>>
    BY <1>2 DEF Send
  <2> DEFINE intents == IF j.step = "poolWithdraw" THEN Payout ELSE {j.child}
  <2>3. intents \subseteq Intents /\ j.step \in Steps
    BY <1>0, <2>1 DEF InStep, JobRec
  <2>4. /\ tx'[n] = [state |-> "mempool", step |-> j.step, intents |-> intents]
        /\ \A g \in Hashes : g # n => tx'[g] = tx[g]
        /\ tx' = [tx EXCEPT ![n] = [state |-> "mempool", step |-> j.step, intents |-> intents]]
    BY <1>0, <2>1
  <2>5. j.step = "poolWithdraw" => intents = Payout
    OBVIOUS
  <2> HIDE DEF intents
  <2>6. tx' \in [Hashes -> TxType]
    BY <1>0, <2>3, <2>4 DEF TxType
  <2>7. \A g \in Hashes : /\ tx'[g].state = "success" <=> tx[g].state = "success"
                          /\ tx[g].state = "success" => tx'[g] = tx[g]
    BY <2>1, <2>4
  <2>8. \A g \in Hashes : tx'[g].state # "unused" /\ tx'[g].step = "poolWithdraw" => tx'[g].intents = Payout
    BY <1>p, <2>4, <2>5
  <2> QED BY <1>0, <2>2, <2>6, <2>7, <2>8, ShowsStay
<1>3. ASSUME NEW i \in Intents, ClaimRefund(i) PROVE ChainShows'
  <2>1. /\ tx' = tx /\ spent' = spent /\ status' = [status EXCEPT ![i] = 6] /\ status[i] = 5
    BY <1>3 DEF ClaimRefund
  <2>2. /\ status' \in [Intents -> 0..6]
        /\ \A k \in Intents : status'[k] = status[k] \/ (status[k] = 5 /\ status'[k] = 6)
    BY <1>0, <2>1
  <2> QED BY <1>0, <1>p, <2>1, <2>2, ShowsStay
<1> QED BY <1>0, <1>1, <1>2, <1>3, MineShows, ChainSteps

LEMMA ShowsFirst == Init => ChainShows
<1> SUFFICES ASSUME Init PROVE ChainShows
  OBVIOUS
<1>1. /\ tx = [h \in Hashes |-> NoTx] /\ status = [i \in Intents |-> 0] /\ spent = FALSE /\ plan \in Plans
  BY DEF Init
<1>2. \A h \in Hashes : tx[h].state = "unused"
  BY <1>1 DEF NoTx
<1>3. \A i \in Payout : status[i] = 0
  BY <1>1, PlanIs
<1>4. \A i \in Payout : Owes(i)
  <2> SUFFICES ASSUME NEW i \in Payout PROVE Owes(i)
    OBVIOUS
  <2>1. status[i] = 0 /\ ~spent
    BY <1>1, <1>3
  <2> QED BY <2>1 DEF Owes
<1> QED BY <1>2, <1>4 DEF ChainShows

----------------------------------------------------------------------------
(* The payouts keep their promise *)

(* PayoutPromise speaks the same language. *)
LEMMA PromiseWords ==
    /\ Promise!Order = Steps /\ Promise!Source = Source /\ Promise!Endings = Endings
    /\ \A s, i : Promise!Won(s, i) <=> Won(s, i)
<1>1. Promise!Order = Steps /\ Promise!Source = Source /\ Promise!Endings = Endings
  BY DEF Promise!Order, Promise!Source, Promise!Endings, Steps, Source, Endings
<1>2. \A s, i : Promise!Won(s, i) <=> Won(s, i)
  BY DEF Promise!Won, Won
<1> QED BY <1>1, <1>2

LEMMA ClosedKept ==
    ASSUME NEW w, \/ \E p, r : Goto(w, p, r)
                  \/ Fail(w) \/ Lost(w) \/ NextKey(w)
    PROVE  closed' = closed
<1>1. ASSUME NEW p, NEW r, Goto(w, p, r) PROVE closed' = closed
  BY <1>1 DEF Goto
<1>2. CASE Fail(w) \/ Lost(w)
  BY <1>2 DEF Lost, Fail
<1>3. CASE NextKey(w)
  BY <1>3 DEF NextKey, Done, RecordAll, Goto
<1> QED BY <1>1, <1>2, <1>3

(* A step that leaves journal, chain and authority alone: nothing happens, or *)
(* the record is closed and every intent has ended.                          *)
LEMMA PromiseQuiet ==
    ASSUME IInv, ChainShows, plan' = plan, checkpoint' = checkpoint, submitted' = submitted,
           tx' = tx, remote' = remote,
           NEW w, closed' = closed \/ (closed' = closed \cup {w} /\ AllEnded)
    PROVE  [Promise!PromiseNext]_(Promise!promiseVars)
<1>1. Payout' = Payout /\ Sharers' = Sharers
  BY PlanStays
<1>2. CASE closed' = closed
  <2>1. UNCHANGED Promise!promiseVars
    BY <1>1, <1>2 DEF Promise!promiseVars
  <2> QED BY <2>1
<1>3. CASE closed' = closed \cup {w} /\ AllEnded
  <2>1. \A i \in Payout : \E s \in Promise!Endings : Promise!Won(s, i)
    BY <1>3, PromiseWords DEF ChainShows, Owes, AllEnded
  <2>2. (closed # {})' = TRUE
    BY <1>3
  <2>3. Promise!Close
    BY <1>1, <2>1, <2>2 DEF Promise!Close
  <2> QED BY <2>3 DEF Promise!PromiseNext
<1> QED BY <1>2, <1>3

(* A broadcast is a call handed over when it is due. *)
LEMMA PromiseHandOver ==
    ASSUME IInv, ChainShows, NEW w \in Workers, Send(w), ~UNCHANGED tx
    PROVE  Promise!PromiseNext
<1>1. PICK j \in JobRec, n \in Hashes :
              /\ InStep(j) /\ Blank(j.step, j.child) /\ tx[n].state = "unused"
              /\ tx' = [tx EXCEPT ![n] = [state |-> "mempool", step |-> j.step,
                             intents |-> IF j.step = "poolWithdraw" THEN Payout ELSE {j.child}]]
  BY SendHands
<1>2. PICK who : who = IF j.step = "poolWithdraw" THEN Payout ELSE {j.child}
  OBVIOUS
<1>3. /\ j.step \in Steps /\ j.child \in Payout
      /\ j.step = "poolWithdraw" => AllAccepted
      /\ j.step \notin Source => AllBacked
  BY <1>1 DEF InStep, JobRec
<1>4. Payout \subseteq Intents /\ JournalTrue
  BY ChainTypes DEF IInv
<1>5. ASSUME NEW i \in who
      PROVE  checkpoint[i][j.step] = NoHash /\ \A g \in submitted[i][j.step] : tx[g].state = "failed"
  <2>1. i \in Payout /\ i \in Intents
    BY <1>2, <1>3, <1>4
  <2>2. CASE i \in Bearers(j.step, j.child)
    BY <1>1, <2>2 DEF Blank, Failed, Recorded
  <2>3. CASE i \notin Bearers(j.step, j.child)
    <3>1. i \notin Bearers(j.step, i)
      BY <1>2, <2>3 DEF Bearers
    <3> QED BY <1>3, <1>4, <2>1, <3>1 DEF JournalTrue, Recorded
  <2> QED BY <2>2, <2>3
<1>6. Promise!Due(j.step, who)
  <2>1. j.step = "poolWithdraw" => \A i \in Payout : Promise!Won("acceptQuote", i)
    BY <1>3, PromiseWords DEF AllAccepted, ChainShows, Owes
  <2>2. j.step \notin Promise!Source => \A i \in Sharers : checkpoint[i]["poolWithdraw"] # NoHash
    BY <1>3, PromiseWords DEF AllBacked, Recorded
  <2> QED BY <1>5, <2>1, <2>2 DEF Promise!Due
<1>7. UNCHANGED <<Payout, Sharers, submitted, checkpoint, remote, closed>>
  <2>1. /\ UNCHANGED <<journalVars, plan, remote>>
        /\ (\E p, r : Goto(w, p, r)) \/ Fail(w) \/ Lost(w)
    BY DEF Send, RecordAll
  <2> QED BY <2>1, ClosedKept, PlanStays DEF journalVars
<1>8. who \in IF j.step = "poolWithdraw" THEN {Payout} ELSE {{i} : i \in Payout}
  BY <1>2, <1>3
<1>9. Promise!HandOver(n)
  BY <1>1, <1>2, <1>3, <1>6, <1>7, <1>8, PromiseWords DEF Promise!HandOver
<1> QED BY <1>9 DEF Promise!PromiseNext

(* What the chain does to a transaction is a call won or lost. *)
LEMMA PromiseMines ==
    ASSUME IInv, ChainShows, NEW h \in Hashes, Mine(h)
    PROVE  Promise!PromiseNext
<1>0. /\ tx \in [Hashes -> TxType] /\ status \in [Intents -> 0..6] /\ spent \in BOOLEAN
      /\ Payout \subseteq Intents /\ tx[h].state = "mempool" /\ tx[h].intents \subseteq Payout
  BY ChainTypes DEF Mine
<1>1. UNCHANGED <<Payout, Sharers, submitted, checkpoint, remote, closed>>
  BY PlanStays DEF Mine, journalVars, workerVars
<1>2. CASE tx' = [tx EXCEPT ![h].state = "failed"]
  <2>1. Promise!Lose(h)
    BY <1>0, <1>1, <1>2 DEF Promise!Lose
  <2> QED BY <2>1 DEF Promise!PromiseNext
<1>3. CASE Executable(tx[h].step, tx[h].intents) /\ tx' = [tx EXCEPT ![h].state = "success"]
  <2>1. PICK step \in Steps : step = tx[h].step
    BY <1>0 DEF TxType
  <2>2. step = "poolWithdraw" => AllAccepted
    BY <1>0, <2>1 DEF IInv, ChainTrue
  <2>3. ASSUME NEW i \in tx[h].intents
        PROVE  /\ \A s \in Promise!Before(step) : Won(s, i)
               /\ \A s \in Promise!Excluded(step) : ~Won(s, i)
    <3>0. i \in Payout /\ status[i] \in 0..6
      BY <1>0
    <3>1. /\ step = "acceptQuote" => status[i] = 0
          /\ step = "poolWithdraw" => ~spent /\ status[i] >= 1
          /\ step = "confirmEscrowReceipt" => status[i] = 1 /\ spent
          /\ step = "submitPayout" => status[i] = 2
          /\ step \in Endings => status[i] = 3
      BY <1>3, <2>1, <2>2, <3>0 DEF Executable, AllAccepted, Endings
    <3>2. Owes(i)
      BY <3>0 DEF ChainShows
    <3>3. \A s : Won(s, i) => Shows(s, i)
      <4> SUFFICES ASSUME NEW s, Won(s, i) PROVE Shows(s, i)
        OBVIOUS
      <4> QED BY DEF Won, ChainShows
    <3>4. \A s \in Promise!Before(step) : Won(s, i)
      BY <2>1, <3>0, <3>1, <3>2 DEF Promise!Before, Promise!Source, Owes, Steps, Endings
    <3>5. ASSUME NEW s \in Promise!Excluded(step), Shows(s, i) PROVE FALSE
      BY <2>1, <3>0, <3>1, <3>5 DEF Promise!Excluded, Promise!Endings, Shows, Steps, Endings
    <3> QED BY <3>3, <3>4, <3>5
  <2>4. Promise!Win(h)
    BY <1>0, <1>1, <1>3, <2>1, <2>3, PromiseWords DEF Promise!Win
  <2> QED BY <2>4 DEF Promise!PromiseNext
<1> QED BY <1>2, <1>3 DEF Mine

(* A submission is recorded of a transaction that was sent. *)
LEMMA PromiseNotes ==
    ASSUME IInv, NEW w \in Workers, RecordSent(w)
    PROVE  Promise!PromiseNext
<1>0. pc[w] = "sent" /\ Inv0
  BY DEF RecordSent, IInv, Inv0
<1>1. PICK j \in JobRec : j = job[w]
  BY <1>0, StandsAt
<1>2. InStep(j) /\ Carries(j.hash, j.step, j.child) /\ plan \in Plans
  BY <1>0, <1>1, StandsAt DEF At
<1>3. j.key \in Payout /\ Carries(j.hash, j.step, j.key)
  BY <1>2, CarriesForAll DEF InStep
<1>4. /\ j.hash \in Hashes /\ tx[j.hash].state # "unused" /\ tx[j.hash].step = j.step
      /\ j.key \in tx[j.hash].intents
  BY <1>3 DEF Carries
<1>5. submitted' = [submitted EXCEPT ![j.key][j.step] = @ \cup {j.hash}]
  BY <1>1 DEF RecordSent, RecordSubmission
<1>6. UNCHANGED <<Payout, Sharers, tx, checkpoint, remote, closed>>
  <2>1. /\ UNCHANGED <<checkpoint, plan, chainVars, remote>>
        /\ (\E p, r : Goto(w, p, r)) \/ Lost(w)
    BY DEF RecordSent, RecordSubmission
  <2> QED BY <2>1, ClosedKept, PlanStays DEF chainVars
<1>7. Promise!Note(j.key, j.hash)
  BY <1>4, <1>5, <1>6 DEF Promise!Note
<1> QED BY <1>3, <1>4, <1>7 DEF Promise!PromiseNext

(* A checkpoint is new and final, or it was there. *)
LEMMA PromiseCheckpoints ==
    ASSUME IInv, ChainShows, NEW w \in Workers, RecordLocal(w)
    PROVE  [Promise!PromiseNext]_(Promise!promiseVars)
<1>0. pc[w] = "local" /\ Inv0
  BY DEF RecordLocal, IInv, Inv0
<1>1. PICK j \in JobRec : j = job[w]
  BY <1>0, StandsAt
<1>2. InStep(j) /\ Succeeded(j.hash, j.step, j.child) /\ plan \in Plans
  BY <1>0, <1>1, StandsAt DEF At
<1>3. j.key \in Payout /\ Succeeded(j.hash, j.step, j.key)
  BY <1>2, CarriesForAll DEF InStep
<1>4. /\ j.hash \in Hashes /\ tx[j.hash].state = "success" /\ tx[j.hash].step = j.step
      /\ j.key \in tx[j.hash].intents /\ j.key \in Intents /\ j.step \in Steps
      /\ checkpoint \in [Intents -> [Steps -> OptHash]] /\ j.hash # NoHash
  <2>1. checkpoint \in [Intents -> [Steps -> OptHash]]
    BY <1>0, TypeParts DEF Inv0, JournalTypeOK, OptHash
  <2>2. j.key \in Intents /\ j.step \in Steps
    BY <1>2, <1>3, ChainTypes DEF JobRec
  <2> QED BY <1>3, <2>1, <2>2, HashesAssumption DEF Succeeded, Carries
<1>5. UNCHANGED <<Payout, Sharers, tx, submitted, remote, closed, plan>>
  <2>1. /\ UNCHANGED <<submitted, plan, chainVars, remote>>
        /\ (\E p, r : Goto(w, p, r)) \/ Lost(w) \/ Fail(w) \/ NextKey(w)
    BY DEF RecordLocal, RecordCheckpoint, journalVars
  <2> QED BY <2>1, ClosedKept, PlanStays DEF chainVars
<1>6. CASE checkpoint' = checkpoint
  BY <1>5, <1>6, PromiseQuiet
<1>7. CASE checkpoint' # checkpoint
  <2>1. /\ CanCheckpoint(j.key, j.step, j.hash)
        /\ checkpoint' = [checkpoint EXCEPT ![j.key][j.step] = j.hash]
    BY <1>1, <1>7 DEF RecordLocal, RecordCheckpoint, journalVars
  <2>2. checkpoint[j.key][j.step] # j.hash
    <3> SUFFICES ASSUME checkpoint[j.key][j.step] = j.hash PROVE FALSE
      OBVIOUS
    <3>1. [checkpoint[j.key] EXCEPT ![j.step] = j.hash] = checkpoint[j.key]
      BY <1>4
    <3>2. checkpoint' = checkpoint
      BY <1>4, <2>1, <3>1
    <3> QED BY <1>7, <3>2
  <2>3. checkpoint[j.key][j.step] = NoHash /\ ~TakenElsewhere(j.key, j.step, j.hash)
    BY <2>1, <2>2 DEF CanCheckpoint, Recorded
  <2>4. \A k \in Intents, s \in Promise!Order : checkpoint[k][s] # j.hash
    BY <1>4, <2>3, PromiseWords DEF TakenElsewhere
  <2>5. Promise!Checkpoint(j.key, j.hash)
    BY <1>4, <1>5, <2>1, <2>3, <2>4 DEF Promise!Checkpoint
  <2> QED BY <1>3, <1>4, <2>5 DEF Promise!PromiseNext
<1> QED BY <1>6, <1>7

(* The authority is told a checkpoint. *)
LEMMA PromiseTells ==
    ASSUME IInv, NEW w \in Workers, RecordRemote(w)
    PROVE  Promise!PromiseNext
<1>0. pc[w] = "remote" /\ Inv0
  BY DEF RecordRemote, IInv, Inv0
<1>1. PICK j \in JobRec : j = job[w]
  BY <1>0, StandsAt
<1>2. /\ InStep(j) /\ plan \in Plans /\ checkpoint[j.key][j.step] = j.hash /\ j.hash # NoHash
  BY <1>0, <1>1, StandsAt DEF At
<1>3. j.key \in Payout /\ j.step \in Steps
  BY <1>2, BearersAre DEF InStep, JobRec
<1>4. remote' = [remote EXCEPT ![j.key][j.step] = checkpoint[j.key][j.step]]
  BY <1>1, <1>2 DEF RecordRemote
<1>5. UNCHANGED <<Payout, Sharers, tx, submitted, checkpoint, closed>>
  <2>1. /\ UNCHANGED <<journalVars, plan, chainVars>>
        /\ Lost(w) \/ NextKey(w)
    BY DEF RecordRemote
  <2> QED BY <2>1, ClosedKept, PlanStays DEF chainVars, journalVars
<1>6. Promise!Tell(j.key, j.step)
  BY <1>2, <1>4, <1>5 DEF Promise!Tell
<1> QED BY <1>3, <1>6, PromiseWords DEF Promise!PromiseNext

LEMMA PromiseInitial == Init => Promise!PromiseInit
<1> SUFFICES ASSUME Init PROVE Promise!PromiseInit
  OBVIOUS
<1>1. Payout \in SUBSET Intents /\ Sharers \in SUBSET Payout /\ Sharers # {}
  BY PlanIs DEF Init
<1>2. /\ tx = [h \in Hashes |-> NoTx]
      /\ checkpoint = [i \in Intents |-> [s \in Steps |-> NoHash]]
      /\ submitted = [i \in Intents |-> [s \in Steps |-> {}]]
      /\ remote = [i \in Intents |-> [s \in Steps |-> NoHash]]
      /\ closed = {}
  BY DEF Init, JournalInit
<1>3. (closed # {}) = FALSE
  BY <1>2
<1> QED BY <1>1, <1>2, <1>3, PromiseWords DEF Promise!PromiseInit, NoTx

LEMMA PromiseStep ==
    IInv /\ ChainShows /\ [Next]_vars => [Promise!PromiseNext]_(Promise!promiseVars)
<1> SUFFICES ASSUME IInv, ChainShows, [Next]_vars PROVE [Promise!PromiseNext]_(Promise!promiseVars)
  OBVIOUS
<1>0. Inv0 /\ TypeOK
  BY DEF IInv, Inv0
<1>1. ASSUME NEW w \in Workers, WorkerStep(w) \/ Throw(w)
      PROVE  [Promise!PromiseNext]_(Promise!promiseVars)
  <2>1. CASE Send(w)
    <3>1. CASE UNCHANGED tx
      <4>1. /\ UNCHANGED <<journalVars, plan, remote>>
            /\ (\E p, r : Goto(w, p, r)) \/ Fail(w) \/ Lost(w)
        BY <2>1 DEF Send, RecordAll
      <4>2. closed' = closed
        BY <4>1, ClosedKept
      <4> QED BY <3>1, <4>1, <4>2, PromiseQuiet DEF journalVars
    <3> QED BY <2>1, <3>1, PromiseHandOver
  <2>2. CASE RecordSent(w)
    BY <2>2, PromiseNotes
  <2>3. CASE RecordLocal(w)
    BY <2>3, PromiseCheckpoints
  <2>4. CASE RecordRemote(w)
    BY <2>4, PromiseTells
  <2>5. CASE Throw(w)
    <3>1. closed' = closed /\ UNCHANGED <<journalVars, plan, chainVars, remote>>
      BY <2>5, ClosedKept DEF Throw
    <3> QED BY <3>1, PromiseQuiet DEF journalVars, chainVars
  <2>6. CASE Begin(w) \/ Accept(w) \/ Check(w) \/ Loop(w) \/ Replay(w) \/ Receipt(w)
               \/ \E i \in Intents : BeginDownstream(w, i)
    <3>1. Turn(w) /\ UNCHANGED <<journalVars, plan, chainVars, remote>>
      BY <1>0, <2>6, BeginTurns, AcceptTurns, CheckTurns, LoopTurns, ReplayTurns, ReceiptTurns,
         BeginDownstreamTurns
    <3>2. closed' = closed \/ (closed' = closed \cup {w} /\ AllEnded)
      <4>1. AllEnded' <=> AllEnded
        BY <3>1, PlanStays DEF AllEnded, chainVars
      <4> QED BY <3>1, <4>1 DEF Turn
    <3> QED BY <3>1, <3>2, PromiseQuiet DEF journalVars, chainVars
  <2> QED BY <1>1, <2>1, <2>2, <2>3, <2>4, <2>5, <2>6 DEF WorkerStep
<1>2. CASE \E h \in Hashes : Mine(h)
  BY <1>2, PromiseMines
<1>3. CASE \/ UNCHANGED vars
           \/ \E i \in Intents : ClaimRefund(i) \/ \E v \in {"delivered", "refundable"} : Settle(i, v)
  <2>1. UNCHANGED <<journalVars, plan, tx, remote, closed>>
    BY <1>3 DEF vars, chainVars, workerVars, ClaimRefund, Settle
  <2> QED BY <2>1, PromiseQuiet DEF journalVars
<1> QED BY <1>1, <1>2, <1>3 DEF Next

(* The payouts keep the promise: for every version, batch, number of workers  *)
(* and of faults, each step of CheckpointedPayout is a step of PayoutPromise   *)
(* or none.                                                                  *)
THEOREM PayoutIsPromised == Spec => ImplementsPromise
<1>1. Spec => [](IInv /\ ChainShows)
  <2>1. Init => IInv /\ ChainShows
    BY InitInv, ShowsFirst
  <2>2. (IInv /\ ChainShows) /\ [Next]_vars => (IInv /\ ChainShows)'
    BY NextInv, ShowsKept
  <2> QED BY <2>1, <2>2, PTL DEF Spec
<1>2. (IInv /\ ChainShows) /\ [Next]_vars => [Promise!PromiseNext]_(Promise!promiseVars)
  BY PromiseStep
<1> QED BY <1>1, <1>2, PromiseInitial, PTL DEF Spec, ImplementsPromise, Promise!PromiseSpec

----------------------------------------------------------------------------
(* The quorum of attesters *)

(* Two sets of answers with the same subject. *)
SameSubject(answers, more) ==
    /\ \A k \in {1, 2} : answers[k].proof = more[k].proof /\ answers[k].digest = more[k].digest
    /\ \A k \in {1, 2} : answers[k].threshold = more[k].threshold /\ answers[k].epoch = more[k].epoch

(* At most two signers count. *)
LEMMA AtMostTwo ==
    ASSUME NEW answers, NEW config
    PROVE  /\ IsFiniteSet(Signed(answers, config))
           /\ Cardinality(Signed(answers, config)) \in Nat
           /\ Cardinality(Signed(answers, config)) <= 2
<1> DEFINE a == config.expected[1]
           b == config.expected[2]
<1>1. Signed(answers, config) \subseteq {a, b}
  BY DEF Signed, Expected
<1>2. IsFiniteSet({a}) /\ Cardinality({a}) = 1
  BY FS_Singleton, Zenon
<1>3. IsFiniteSet({a} \cup {b}) /\ Cardinality({a} \cup {b}) = IF b \in {a} THEN 1 ELSE 1 + 1
  BY <1>2, FS_AddElement
<1>4. {a} \cup {b} = {a, b}
  OBVIOUS
<1>5. IsFiniteSet({a, b}) /\ Cardinality({a, b}) <= 2
  BY <1>3, <1>4
<1>6. /\ IsFiniteSet(Signed(answers, config))
      /\ Cardinality(Signed(answers, config)) <= Cardinality({a, b})
  BY <1>1, <1>5, FS_Subset
<1>7. Cardinality(Signed(answers, config)) \in Nat /\ Cardinality({a, b}) \in Nat
  BY <1>5, <1>6, FS_CardinalityType
<1> QED BY <1>5, <1>6, <1>7

LEMMA ReadyMeans ==
    ASSUME NEW answers, NEW config, AggregateQuorums(answers, config).ready
    PROVE  /\ Agree(answers) /\ ~Conflicting(answers, config)
           /\ Signed(answers, config) = Expected(config)
           /\ Cardinality(Signed(answers, config)) >= answers[1].threshold
           /\ AggregateQuorums(answers, config).digest = answers[1].digest
           /\ AggregateQuorums(answers, config).signatures =
                [s \in Signed(answers, config) |-> CHOOSE x \in Said(answers, s) : TRUE]
  BY DEF AggregateQuorums, NoQuorum

LEMMA MeansReady ==
    ASSUME NEW answers, NEW config,
           Agree(answers), ~Conflicting(answers, config),
           Signed(answers, config) = Expected(config),
           Cardinality(Signed(answers, config)) >= answers[1].threshold
    PROVE  AggregateQuorums(answers, config).ready
  BY DEF AggregateQuorums

(* A result that is ready rests on two services and two identities that      *)
(* agree about proof, threshold, epoch and digest; each of the two has given *)
(* exactly one signature, and that one is returned (aggregateQuorums).       *)
THEOREM ReadyNeedsBoth ==
    ASSUME NEW answers, NEW config, ReadQuorum(answers, config).ready
    PROVE  /\ Separate(config) /\ Agree(answers)
           /\ \A s \in Expected(config) :
                 Said(answers, s) = {ReadQuorum(answers, config).signatures[s]}
<1>1. Separate(config) /\ ReadQuorum(answers, config) = AggregateQuorums(answers, config)
  BY DEF ReadQuorum, NoQuorum
<1>2. /\ Agree(answers) /\ ~Conflicting(answers, config)
      /\ Signed(answers, config) = Expected(config)
      /\ AggregateQuorums(answers, config).signatures =
            [s \in Signed(answers, config) |-> CHOOSE x \in Said(answers, s) : TRUE]
  BY <1>1, ReadyMeans
<1>3. ASSUME NEW s \in Expected(config)
      PROVE  Said(answers, s) = {ReadQuorum(answers, config).signatures[s]}
  <2>1. Said(answers, s) # {}
    BY <1>2 DEF Signed
  <2>2. ReadQuorum(answers, config).signatures[s] = CHOOSE x \in Said(answers, s) : TRUE
    BY <1>1, <1>2
  <2>3. ReadQuorum(answers, config).signatures[s] \in Said(answers, s)
    BY <2>1, <2>2
  <2>4. \A x, y \in Said(answers, s) : x = y
    BY <1>2 DEF Conflicting
  <2> QED BY <2>3, <2>4
<1> QED BY <1>1, <1>2, <1>3

(* The client reads two signatures, so a verifier whose threshold is raised  *)
(* above two is never satisfied: no payout could be completed or refunded.    *)
THEOREM ThresholdAboveTwo ==
    ASSUME NEW answers, NEW config, answers[1].threshold \in Nat, answers[1].threshold > 2
    PROVE  ~ReadQuorum(answers, config).ready
<1> SUFFICES ASSUME ReadQuorum(answers, config).ready PROVE FALSE
  OBVIOUS
<1>1. ReadQuorum(answers, config) = AggregateQuorums(answers, config)
  BY DEF ReadQuorum, NoQuorum
<1>2. Cardinality(Signed(answers, config)) >= answers[1].threshold
  BY <1>1, ReadyMeans
<1> QED BY <1>2, AtMostTwo

(* What strangers sign makes no difference: answers about the same subject    *)
(* that hold the same signatures of the expected signers get the same         *)
(* verdict.                                                                  *)
THEOREM StrangersDoNotCount ==
    ASSUME NEW answers, NEW more, NEW config, SameSubject(answers, more),
           \A s \in Expected(config) : Said(answers, s) = Said(more, s)
    PROVE  AggregateQuorums(answers, config).ready <=> AggregateQuorums(more, config).ready
<1>1. Agree(answers) <=> Agree(more)
  BY DEF Agree, SameSubject
<1>2. Conflicting(answers, config) <=> Conflicting(more, config)
  BY DEF Conflicting
<1>3. Signed(answers, config) = Signed(more, config)
  BY DEF Signed
<1>4. answers[1].threshold = more[1].threshold
  BY DEF SameSubject
<1>5. ASSUME AggregateQuorums(answers, config).ready PROVE AggregateQuorums(more, config).ready
  <2>1. /\ Agree(answers) /\ ~Conflicting(answers, config)
        /\ Signed(answers, config) = Expected(config)
        /\ Cardinality(Signed(answers, config)) >= answers[1].threshold
    BY <1>5, ReadyMeans
  <2> QED BY <1>1, <1>2, <1>3, <1>4, <2>1, MeansReady
<1>6. ASSUME AggregateQuorums(more, config).ready PROVE AggregateQuorums(answers, config).ready
  <2>1. /\ Agree(more) /\ ~Conflicting(more, config)
        /\ Signed(more, config) = Expected(config)
        /\ Cardinality(Signed(more, config)) >= more[1].threshold
    BY <1>6, ReadyMeans
  <2> QED BY <1>1, <1>2, <1>3, <1>4, <2>1, MeansReady
<1> QED BY <1>5, <1>6, Zenon

(* A retry sees what the services have collected since.  A quorum is kept as  *)
(* long as nobody signs twice ...                                            *)
THEOREM QuorumIsKept ==
    ASSUME NEW answers, NEW more, NEW config, SameSubject(answers, more),
           \A s \in Expected(config) : Said(answers, s) \subseteq Said(more, s),
           ~Conflicting(more, config),
           AggregateQuorums(answers, config).ready
    PROVE  AggregateQuorums(more, config).ready
<1>1. /\ Agree(answers) /\ Signed(answers, config) = Expected(config)
      /\ Cardinality(Signed(answers, config)) >= answers[1].threshold
  BY ReadyMeans
<1>2. Agree(more) /\ answers[1].threshold = more[1].threshold
  BY <1>1 DEF Agree, SameSubject
<1>3. Signed(more, config) = Expected(config)
  BY <1>1 DEF Signed
<1> QED BY <1>1, <1>2, <1>3, MeansReady

(* ... and once an expected signer has two signatures on record, however they *)
(* came about, no later answer is ready: the payout waits for an operator.    *)
THEOREM ConflictIsForEver ==
    ASSUME NEW answers, NEW more, NEW config,
           \A s \in Expected(config) : Said(answers, s) \subseteq Said(more, s),
           Conflicting(answers, config)
    PROVE  ~ReadQuorum(more, config).ready
<1>1. Conflicting(more, config)
  BY DEF Conflicting
<1> QED BY <1>1 DEF ReadQuorum, AggregateQuorums, NoQuorum

(* From version 6 on a quorum that comes back with the attestations is        *)
(* authentic: each expected signer signed the digest that is returned, and    *)
(* the answers are about the intent that was asked for.                      *)
THEOREM V6QuorumIsAuthentic ==
    ASSUME NEW answers, NEW config, NEW intent,
           RequestV6Attestation(answers, config, intent).ready
    PROVE  LET result == RequestV6Attestation(answers, config, intent)
           IN /\ answers[1].intent = intent /\ answers[2].intent = intent
              /\ \A s \in Expected(config) : /\ result.signatures[s].by = s
                                             /\ result.signatures[s].over = result.digest
<1> DEFINE result == RequestV6Attestation(answers, config, intent)
<1>1. /\ Separate(config) /\ result = AggregateQuorums(answers, config)
      /\ \A k \in {1, 2} : Authentic(answers[k], config.expected[k], intent)
  BY DEF RequestV6Attestation, NoQuorum
<1>2. /\ Agree(answers) /\ Signed(answers, config) = Expected(config)
      /\ result.digest = answers[1].digest
      /\ result.signatures = [s \in Signed(answers, config) |-> CHOOSE x \in Said(answers, s) : TRUE]
  BY <1>1, ReadyMeans
<1>3. answers[1].digest = answers[2].digest
  BY <1>2 DEF Agree
<1>4. ASSUME NEW s \in Expected(config), NEW x \in Said(answers, s)
      PROVE  x.by = s /\ x.over = answers[1].digest
  <2>1. PICK a \in {answers[1], answers[2]} :
           x \in {a.signatures[n] : n \in {l \in DOMAIN a.signers : a.signers[l] = s}}
    BY <1>4 DEF Said
  <2>2. PICK n \in DOMAIN a.signers : x = a.signatures[n] /\ a.signers[n] = s
    BY <2>1
  <2>3. CASE a = answers[1]
    BY <1>1, <2>2, <2>3 DEF Authentic
  <2>4. CASE a = answers[2]
    BY <1>1, <1>3, <2>2, <2>4 DEF Authentic
  <2> QED BY <2>1, <2>3, <2>4
<1>5. ASSUME NEW s \in Expected(config)
      PROVE  result.signatures[s].by = s /\ result.signatures[s].over = result.digest
  <2>1. Said(answers, s) # {}
    BY <1>2, <1>5 DEF Signed
  <2>2. result.signatures[s] = CHOOSE x \in Said(answers, s) : TRUE
    BY <1>2, <1>5
  <2>3. result.signatures[s] \in Said(answers, s)
    BY <2>1, <2>2
  <2> QED BY <1>2, <1>4, <1>5, <2>3
<1>6. answers[1].intent = intent /\ answers[2].intent = intent
  BY <1>1 DEF Authentic
<1> QED BY <1>5, <1>6

----------------------------------------------------------------------------
(* Payloads of others *)

IsSequence(s) == Len(s) \in Nat /\ DOMAIN s = 1..Len(s)

(* The bindings of an accepted V4 bundle reach every authority, one each: as  *)
(* many of both, and no intent twice.                                        *)
LEMMA BindingsReachAuthorities ==
    ASSUME NEW bundle, NEW authorities, NEW relayer, NEW domain,
           IsSequence(bundle.bindings), IsFiniteSet(authorities),
           ValidV4Bundle(bundle, authorities, relayer, domain)
    PROVE  \A a \in authorities : \E k \in DOMAIN bundle.bindings : Sorted(bundle, authorities)[k] = a
<1> DEFINE n == Len(bundle.bindings)
           f == Sorted(bundle, authorities)
<1>1. n \in Nat /\ DOMAIN bundle.bindings = 1..n /\ n >= 1
  BY DEF ValidV4Bundle, IsSequence
<1>2. n = Cardinality(authorities)
  BY DEF ValidV4Bundle
<1>3. f = [k \in 1..n |-> CHOOSE a \in authorities : a.intent = bundle.bindings[k].intent]
  BY <1>1 DEF Sorted
<1>4. \A k \in 1..n : \E a \in authorities : a.intent = bundle.bindings[k].intent
  BY <1>1 DEF ValidV4Bundle
<1>5. f \in [1..n -> authorities]
  BY <1>3, <1>4
<1>6. \A k, l \in 1..n : f[k].intent = f[l].intent => k = l
  BY <1>1 DEF ValidV4Bundle
<1> HIDE DEF f
<1>7. IsInjective(f)
  BY <1>5, <1>6 DEF IsInjective
<1>8. f \in Injection(1..n, authorities)
  BY <1>5, <1>7 DEF Injection
<1>9. Cardinality(1..n) = n
  BY <1>1, FS_Interval
<1>10. f \in Surjection(1..n, authorities)
  BY <1>2, <1>8, <1>9, FS_Injection
<1> QED BY <1>1, <1>10 DEF Surjection, f

(* The private withdrawal of a V4 bundle pays the escrow of every payout of   *)
(* the bundle once, with the amount of that payout, and pays nobody else      *)
(* (validatePayoutV4PrivateBundleBindings; the hashes of the escrows are      *)
(* counted, never searched for).                                             *)
THEOREM EveryEscrowIsPaidOnce ==
    ASSUME NEW bundle, NEW authorities, NEW relayer, NEW domain,
           IsSequence(bundle.bindings), IsFiniteSet(authorities),
           ValidV4Bundle(bundle, authorities, relayer, domain)
    PROVE  /\ \A a \in authorities : \E k \in Outputs(bundle) :
                 /\ bundle.recipients[k] = a.escrow /\ bundle.amounts[k] = a.amount
                 /\ \A l \in Outputs(bundle) : bundle.recipients[l] = a.escrow => l = k
           /\ \A k \in Outputs(bundle) : \E a \in authorities : bundle.recipients[k] = a.escrow
<1> DEFINE escrows == {a.escrow : a \in authorities}
           paid == {bundle.recipients[k] : k \in Outputs(bundle)}
<1>1. /\ Cardinality(paid) = Cardinality(escrows)
      /\ \A k \in Outputs(bundle) : \E a \in authorities :
            a.escrow = bundle.recipients[k] /\ a.amount = bundle.amounts[k]
      /\ \A k, l \in Outputs(bundle) : bundle.recipients[k] = bundle.recipients[l] => k = l
  BY DEF ValidV4Bundle, EscrowsArePaid
<1>2. \A a \in authorities : \E k \in DOMAIN bundle.bindings : Sorted(bundle, authorities)[k] = a
  BY BindingsReachAuthorities
<1>3. \A k, l \in DOMAIN bundle.bindings :
         Sorted(bundle, authorities)[k].escrow = Sorted(bundle, authorities)[l].escrow => k = l
  BY DEF ValidV4Bundle
<1>4. \A a, c \in authorities : a.escrow = c.escrow => a = c
  BY <1>2, <1>3
<1>5. IsFiniteSet(escrows)
  <2>1. [a \in authorities |-> a.escrow] \in Surjection(authorities, escrows)
    BY DEF Surjection
  <2> QED BY <2>1, FS_Surjection
<1>6. paid \in SUBSET escrows
  BY <1>1
<1> HIDE DEF paid, escrows
<1>7. paid = escrows
  BY <1>1, <1>5, <1>6, FS_Subset
<1>8. ASSUME NEW a \in authorities
      PROVE  \E k \in Outputs(bundle) :
                /\ bundle.recipients[k] = a.escrow /\ bundle.amounts[k] = a.amount
                /\ \A l \in Outputs(bundle) : bundle.recipients[l] = a.escrow => l = k
  <2>1. a.escrow \in paid
    BY <1>7, <1>8 DEF escrows
  <2>2. PICK k \in Outputs(bundle) : bundle.recipients[k] = a.escrow
    BY <2>1 DEF paid
  <2>3. PICK c \in authorities : c.escrow = bundle.recipients[k] /\ c.amount = bundle.amounts[k]
    BY <1>1, <2>2
  <2>4. c = a
    BY <1>4, <1>8, <2>2, <2>3
  <2>5. \A l \in Outputs(bundle) : bundle.recipients[l] = a.escrow => l = k
    BY <1>1, <2>2
  <2> QED BY <2>2, <2>3, <2>4, <2>5
<1>9. \A k \in Outputs(bundle) : \E a \in authorities : bundle.recipients[k] = a.escrow
  BY <1>1
<1> QED BY <1>8, <1>9

(* A V6 lease stands for one execution: two packages that pass under the same *)
(* lease, fetched at different times, make the same call for the same         *)
(* payouts with the same shares of a fee the lease allows.                    *)
THEOREM LeaseFixesExecution ==
    ASSUME NEW package, NEW other, NEW config, NEW now, NEW later,
           ValidV6Payload(package, config, now), ValidV6Payload(other, config, later),
           package.lease = other.lease
    PROVE  /\ PoolCall(package.proof) = PoolCall(other.proof)
           /\ package.intents = other.intents
           /\ package.allocations = other.allocations
           /\ Total(package.allocations) = package.proof.signals.fee
           /\ package.proof.signals.fee <= package.lease.maximum
<1>1. /\ package.lease.payload = PayloadHash(PoolCall(package.proof), package.intents, package.allocations)
      /\ other.lease.payload = PayloadHash(PoolCall(other.proof), other.intents, other.allocations)
      /\ Total(package.allocations) = PoolCall(package.proof).signals.fee
      /\ package.lease.maximum >= PoolCall(package.proof).signals.fee
  BY DEF ValidV6Payload
<1> HIDE DEF PoolCall
<1>2. /\ PoolCall(package.proof) = PoolCall(other.proof)
      /\ package.intents = other.intents
      /\ package.allocations = other.allocations
  BY <1>1 DEF PayloadHash
<1>3. PoolCall(package.proof).signals = package.proof.signals
  BY DEF PoolCall
<1> QED BY <1>1, <1>2, <1>3

(* The children of an accepted package are the payouts of its lease, each     *)
(* once, and bound to the withdrawal the package makes.                      *)
THEOREM ChildrenAreTheLeased ==
    ASSUME NEW package, NEW manifest, NEW config, NEW pool, NEW now,
           IsSequence(package.children), IsSequence(package.intents),
           ValidV6Package(package, manifest, config, pool, now)
    PROVE  /\ {package.children[k].intent : k \in DOMAIN package.children}
                 = {package.intents[k] : k \in DOMAIN package.intents}
           /\ \A k, l \in DOMAIN package.children :
                 package.children[k].intent = package.children[l].intent => k = l
           /\ \A k \in DOMAIN package.children :
                 package.children[k].sourceCall = PoolCall(package.proof)
<1>1. /\ Len(package.children) = Len(package.intents)
      /\ \A k \in DOMAIN package.children : /\ package.children[k].intent = package.intents[k]
                                            /\ package.children[k].sourceCall = PoolCall(package.proof)
  BY DEF ValidV6Package, ValidChildren
<1>2. \A k, l \in DOMAIN package.intents : package.intents[k] = package.intents[l] => k = l
  BY DEF ValidV6Package, ValidV6Payload, Distinct
<1>3. DOMAIN package.children = DOMAIN package.intents
  BY <1>1 DEF IsSequence
<1> QED BY <1>1, <1>2, <1>3

(* The proof of a V6 payout cannot be relayed as a plain PoolV3 withdrawal:    *)
(* it is bound to the withdrawal executor, and the direct path asks for the   *)
(* relayer.                                                                  *)
THEOREM PayoutProofIsNotRelayed ==
    ASSUME NEW package, NEW manifest, NEW config, NEW pool, NEW now,
           "executor" \in DOMAIN pool, config.executor # pool.executor,
           ValidV6Package(package, manifest, config, pool, now)
    PROVE  ~ValidPoolV3Proof(package.proof, pool)
<1>1. package.proof.signals.executor = [pool EXCEPT !.executor = config.executor].executor
  BY DEF ValidV6Package, ValidPoolV3Proof, ProofIsForUs
<1>2. package.proof.signals.executor # pool.executor
  <2> QED BY <1>1
<1> QED BY <1>2 DEF ValidPoolV3Proof, ProofIsForUs

----------------------------------------------------------------------------
(* The public record of a payout *)

Rank == [payout_requested         |-> 0,
         quote_accepted           |-> 1,
         escrow_address_reserved  |-> 2,
         pool_withdrawal_pending  |-> 3,
         escrow_receipt_confirmed |-> 4,
         payout_pending           |-> 5,
         payout_submitted         |-> 6,
         manual_review            |-> 7,
         provider_failed          |-> 8,
         payout_expired           |-> 9,
         refund_available         |-> 10,
         payout_completed         |-> 11,
         refunded                 |-> 11]

LEMMA TransitionsClimb ==
    \A from \in Statuses : \A to \in Transitions[from] :
        to \in Statuses /\ Rank[from] \in Nat /\ Rank[to] \in Nat /\ Rank[from] < Rank[to]
<1> SUFFICES ASSUME NEW from \in Statuses, NEW to \in Transitions[from]
             PROVE  to \in Statuses /\ Rank[from] \in Nat /\ Rank[to] \in Nat /\ Rank[from] < Rank[to]
  OBVIOUS
<1> USE DEF Statuses, Transitions, Troubles, Rank
<1>1. CASE from \in {"payout_requested", "quote_accepted", "escrow_address_reserved"}
  BY <1>1
<1>2. CASE from \in {"pool_withdrawal_pending", "escrow_receipt_confirmed"}
  BY <1>2
<1>3. CASE from \in {"payout_pending", "payout_submitted"}
  BY <1>3
<1>4. CASE from \in {"payout_completed", "payout_expired", "provider_failed"}
  BY <1>4
<1>5. CASE from \in {"manual_review", "refund_available", "refunded"}
  BY <1>5
<1> QED BY <1>1, <1>2, <1>3, <1>4, <1>5

(* A record never goes back: whatever is delivered, and in whatever order, an *)
(* event is taken for the first time only if it raises the rank, so a payout  *)
(* that was refundable is never pending again, and one that ended (the two    *)
(* statuses of the last rank) takes nothing more                             *)
(* (applyPhase3PayoutLifecycleEvent).                                        *)
THEOREM RecordsOnlyAdvance ==
    ASSUME NEW record, NEW event, record.status \in Statuses, Accepts(record, event)
    PROVE  event.status \in Statuses /\ Rank[record.status] < Rank[event.status]
  BY TransitionsClimb DEF Accepts

(* The datasource may deliver an event twice: the second time changes nothing, *)
(* also when it was refused the first time.                                  *)
THEOREM RedeliveryIsHarmless ==
    ASSUME NEW record, NEW event
    PROVE  Apply(Apply(record, event), event) = Apply(record, event)
<1>1. CASE record = Refused \/ event.id \in record.seen
  BY <1>1 DEF Apply
<1>2. CASE record # Refused /\ event.id \notin record.seen /\ Accepts(record, event)
  <2>1. Apply(record, event) = [status |-> event.status, seen |-> record.seen \cup {event.id}]
    BY <1>2 DEF Apply
  <2>2. event.id \in Apply(record, event).seen
    BY <2>1
  <2> QED BY <2>2 DEF Apply
<1>3. CASE record # Refused /\ event.id \notin record.seen /\ ~Accepts(record, event)
  BY <1>3 DEF Apply
<1> QED BY <1>1, <1>2, <1>3
====
