------------------------------ MODULE PayoutV7 ------------------------------
(***************************************************************************)
(* The worker of payouts V7 (payout-v7-runtime.ts, payout-v7-worker.ts):    *)
(* every tick takes one job, a source call of a V4 pool with the payouts    *)
(* (children) it funds, and walks through their transactions: accept every  *)
(* quote, withdraw (source), then per child reimburse the registration,     *)
(* confirm, submit, complete or refund.  A transaction is signed once: its  *)
(* row in relay_v7_signed_calls is the one-shot claim to broadcast it.      *)
(* A job whose quote has expired without funding is retired: its fence in   *)
(* relay_pool_v4_executions (RetentionStore) is released, and the inputs    *)
(* may be spent by another call.                                            *)
(*                                                                         *)
(* Workers are processes (a restart may overlap the old one); each runs one *)
(* tick at a time (running).  What they know of the chain is its finalized  *)
(* part.  Left out: prices, Relay recovery.  External: the web API, the     *)
(* attesters, the contracts, the chain.                                     *)
(***************************************************************************)
EXTENDS RetentionStore, Naturals, FiniteSetsExt

CONSTANTS ChildrenOf,       \* the children of a call, numbers in their order
          QuoteEnd,         \* quoteExpiresAt of a call
          Margin,           \* the 300 seconds between a lease and its quote's end
          Leases,           \* expiries the web API may give a lease of a call
          Workers, NoCall, NoStep, NoLease,
          MaxTime,          \* bound on the time of blocks
          MaxFaults         \* bound on exceptions, crashes, lost answers, reorganisations

Children == UNION {ChildrenOf[c] : c \in Calls}
Parent(x) == CHOOSE c \in Calls : x \in ChildrenOf[c]

ASSUME CallsAssumption ==
    /\ ChildrenOf \in [Calls -> SUBSET Nat]
    /\ \A c \in Calls : ChildrenOf[c] # {}
    /\ \A c, d \in Calls : c # d => ChildrenOf[c] \cap ChildrenOf[d] = {}
    /\ QuoteEnd \in [Calls -> Nat] /\ Leases \in [Calls -> SUBSET Nat]
    /\ Margin \in Nat /\ MaxTime \in Nat /\ MaxFaults \in Nat
    /\ NoCall \notin Calls /\ NoLease \notin Nat

(* The steps of a job, the ids of relay_v7_signed_calls. *)
ChildSteps == {"accept", "registration", "confirm", "submit", "complete", "refund"}
Steps == ({"source"} \X Calls) \cup (ChildSteps \X Children)

ASSUME NoStepAssumption == NoStep \notin Steps

Source(c) == <<"source", c>>
CallOf(s) == IF s[1] = "source" THEN s[2] ELSE Parent(s[2])
StepsOf(c) == {s \in Steps : CallOf(s) = c}

VARIABLES
    signed,      \* the rows of relay_v7_signed_calls
    lease,       \* the expiry in the calldata of a signed source
    grant,       \* the lease the web API has given for a call (external)
    sends,       \* how often a step was broadcast
    head, final, \* the chain and its finalized part (external)
    verdict,     \* what the attesters sign of a child (external)
    pc, my,      \* where each worker stands, and its local variables
    faults

tables == <<storeVars, signed, lease>>
chain  == <<head, final>>
vars   == <<tables, grant, sends, chain, verdict, pc, my, faults>>

Chains == [executed : SUBSET Steps, reverted : SUBSET Steps,
           elsewhere : SUBSET Nullifiers, time : 0..MaxTime]
Nothing == [call |-> NoCall, step |-> NoStep, lease |-> NoLease, left |-> {}, rows |-> {}]

TypeOK ==
    /\ StoreTypeOK
    /\ signed \subseteq Steps
    /\ lease \in [Calls -> Nat \cup {NoLease}]
    /\ grant \in [Calls -> Nat \cup {NoLease}]
    /\ sends \in [Steps -> Nat]
    /\ head \in Chains /\ final \in Chains
    /\ verdict \in [Children -> {"none", "delivered", "failed"}]
    /\ pc \in [Workers -> {"idle", "retire", "verify", "preflight", "walk", "prepare",
                           "claim", "fence", "send", "outcome"}]
    /\ my \in [Workers -> [call : Calls \cup {NoCall}, step : Steps \cup {NoStep},
                           lease : Nat \cup {NoLease}, left : SUBSET Children,
                           rows : SUBSET Steps]]
    /\ \A w \in Workers :
          /\ pc[w] # "idle" => my[w].call \in Calls
          /\ pc[w] \in {"prepare", "claim", "fence", "send", "outcome"} =>
                my[w].step \in StepsOf(my[w].call)
    /\ faults \in 0..MaxFaults

Init ==
    /\ StoreInit
    /\ signed = {} /\ lease = [c \in Calls |-> NoLease] /\ grant = [c \in Calls |-> NoLease]
    /\ sends = [s \in Steps |-> 0]
    /\ head = [executed |-> {}, reverted |-> {}, elsewhere |-> {}, time |-> 0]
    /\ final = head
    /\ verdict = [x \in Children |-> "none"]
    /\ pc = [w \in Workers |-> "idle"] /\ my = [w \in Workers |-> Nothing]
    /\ faults = 0

----------------------------------------------------------------------------
(* The contracts, as far as the worker relies on them.  k is a chain. *)

Did(k, kind, x) == <<kind, x>> \in k.executed

(* status(intentHash): 0 none, 1 accepted, 2 confirmed, 3 submitted, 4 and 5 *)
(* completed and refunded.                                                   *)
Status(k, x) ==
    CASE Did(k, "complete", x) -> 4
      [] Did(k, "refund", x)   -> 5
      [] Did(k, "submit", x)   -> 3
      [] Did(k, "confirm", x)  -> 2
      [] Did(k, "accept", x)   -> 1
      [] OTHER                 -> 0

Funded(k, c) == Source(c) \in k.executed
Spent(k) == k.elsewhere \cup UNION {InputsOf[c] : c \in {d \in Calls : Funded(k, d)}}

(* What the contracts let a transaction do in the next block; l is the       *)
(* expiry of the lease in the calldata of a source.                          *)
Executable(k, s, l) ==
    LET x == s[2]
        c == CallOf(s)
    IN CASE s[1] = "accept" -> Status(k, x) = 0 /\ k.time <= QuoteEnd[c]
         [] s[1] = "source" -> /\ \A y \in ChildrenOf[c] : Status(k, y) = 1
                               /\ InputsOf[c] \cap Spent(k) = {}
                               /\ l \in Nat /\ k.time <= l
         [] s[1] = "registration" -> Funded(k, c) /\ s \notin k.executed
         [] s[1] = "confirm"      -> Funded(k, c) /\ Status(k, x) = 1
         [] s[1] = "submit"       -> Status(k, x) = 2
         [] OTHER                 -> Status(k, x) = 3

Known == head.executed \cup head.reverted
Sent  == {s \in Steps : sends[s] > 0}

----------------------------------------------------------------------------
(* The worker *)

Goto(w, place, rec) ==
    /\ pc' = [pc EXCEPT ![w] = place]
    /\ my' = [my EXCEPT ![w] = rec]

(* The catch of the job: the tick is over. *)
Leave(w) == Goto(w, "idle", Nothing)

Fault == faults < MaxFaults /\ faults' = faults + 1

Call(w) == my[w].call
Step(w) == my[w].step

(* The advisory locks of the inputs are held by a retirement. *)
Locked(c) == \E v \in Workers : pc[v] = "verify" /\ InputsOf[my[v].call] \cap InputsOf[c] # {}

(* retainPoolV4RelayExecution; when it throws the tick is over. *)
RetainThen(w, place) ==
    /\ ~Locked(Call(w))
    /\ \/ IsFresh(Call(w)) /\ Reserve(Call(w)) /\ Goto(w, place, my[w])
       \/ IsPrior(Call(w)) /\ Goto(w, place, my[w]) /\ UNCHANGED storeVars
       \/ (IsRetired(Call(w)) \/ IsConflict(Call(w))) /\ Leave(w) /\ UNCHANGED storeVars

Unfunded(k, c) == ~Funded(k, c) /\ \A x \in ChildrenOf[c] : Status(k, x) \in {0, 1}

(* The job's package arrives, with the lease the web API knows of. *)
Begin(w, c) ==
    /\ pc[w] = "idle"
    /\ IF final.time > QuoteEnd[c] /\ Unfunded(final, c)
       THEN Goto(w, "retire", [Nothing EXCEPT !.call = c, !.lease = grant[c]])
       ELSE Goto(w, IF Funded(final, c) THEN "walk" ELSE "preflight",
                 [Nothing EXCEPT !.call = c, !.left = ChildrenOf[c]])
    /\ UNCHANGED <<tables, grant, sends, chain, verdict, faults>>

(* retirePayoutV7SourceLock up to the list of retained rows: the locks are   *)
(* held from here to the end of the transaction.                             *)
LockInputs(w) ==
    /\ pc[w] = "retire" /\ ~Locked(Call(w))
    /\ IF IsRetired(Call(w)) THEN Leave(w)
       ELSE Goto(w, "verify", [my[w] EXCEPT !.rows = signed \cap StepsOf(Call(w))])
    /\ UNCHANGED <<tables, grant, sends, chain, verdict, faults>>

(* The lease the proof is about: that of the retained source if there is     *)
(* one, else the one the package names.                                      *)
KnownLease(w) == IF Source(Call(w)) \in my[w].rows THEN lease[Call(w)] ELSE my[w].lease

(* Fault: a job that has signed anything is never retired. *)
RetirableUntouched(w) ==
    LET c == Call(w)
        l == KnownLease(w)
    IN /\ my[w].rows = {}
       /\ final.time > QuoteEnd[c] /\ Unfunded(final, c)
       /\ l # NoLease => l + Margin <= QuoteEnd[c] /\ l < final.time
       /\ InputsOf[c] \cap Spent(final) = {}

(* readPayoutV7RetirementProof and validatePayoutV7RetirementCalls. *)
Retirable(w) ==
    LET c == Call(w)
        l == KnownLease(w)
    IN /\ my[w].lease \in {l, NoLease}
       /\ final.time > QuoteEnd[c] /\ Unfunded(final, c)
       /\ l # NoLease => l + Margin <= QuoteEnd[c] /\ l < final.time
       /\ InputsOf[c] \cap Spent(final) = {}
       /\ \A s \in my[w].rows : s[1] \in {"source", "accept"}

(* Fault: the signatures in the table are not looked at. *)
VerifyByPackage(w) ==
    LET c == Call(w)
        l == my[w].lease
    IN /\ pc[w] = "verify"
       /\ IF /\ final.time > QuoteEnd[c] /\ Unfunded(final, c)
             /\ l # NoLease => l + Margin <= QuoteEnd[c] /\ l < final.time
             /\ InputsOf[c] \cap Spent(final) = {}
          THEN Retire(c) ELSE UNCHANGED storeVars
       /\ Leave(w)
       /\ UNCHANGED <<signed, lease, grant, sends, chain, verdict, faults>>

Verify(w) ==
    /\ pc[w] = "verify"
    /\ IF Retirable(w) THEN Retire(Call(w)) ELSE UNCHANGED storeVars
    /\ Leave(w)
    /\ UNCHANGED <<signed, lease, grant, sends, chain, verdict, faults>>

(* The spend is simulated, then fenced. *)
Preflight(w) ==
    /\ pc[w] = "preflight"
    /\ IF InputsOf[Call(w)] \cap Spent(final) = {} THEN RetainThen(w, "walk")
       ELSE Leave(w) /\ UNCHANGED storeVars
    /\ UNCHANGED <<signed, lease, grant, sends, chain, verdict, faults>>

(* transaction(step): a retained call is only looked after. *)
Take(w, s, rec) ==
    Goto(w, IF s \in signed THEN "outcome" ELSE "prepare", [rec EXCEPT !.step = s])

(* The next transaction of a funded job: one child after the other.          *)
(* Attesters that have nothing to say yet leave the child for a later tick.  *)
WalkChild(w) ==
    LET x == Min(my[w].left)
        passed == [my[w] EXCEPT !.left = @ \ {x}]
        status == Status(final, x)
        terminal == {s \in {<<"complete", x>>, <<"refund", x>>} : s \in signed}
    IN IF my[w].left = {} THEN Leave(w)
       ELSE \/ /\ status \in {1, 2} /\ ~Did(final, "registration", x)
               /\ Take(w, <<"registration", x>>, my[w])
            \/ /\ status = 1 /\ Did(final, "registration", x)
               /\ Take(w, <<"confirm", x>>, my[w])
            \/ /\ status = 2 /\ Did(final, "registration", x)
               /\ Take(w, <<"submit", x>>, my[w])
            \/ /\ status = 3
               /\ IF terminal # {} THEN \E s \in terminal : Take(w, s, passed)
                  ELSE \/ verdict[x] = "delivered" /\ Take(w, <<"complete", x>>, passed)
                       \/ verdict[x] = "failed" /\ Take(w, <<"refund", x>>, passed)
                       \/ Goto(w, "walk", passed)
            \/ status \in {4, 5} /\ Goto(w, "walk", passed)

(* Fault: the chain is read at its head. *)
WalkAtHead(w) ==
    LET c == Call(w)
        fresh == {x \in ChildrenOf[c] : Status(head, x) = 0}
    IN /\ pc[w] = "walk"
       /\ IF Funded(final, c) THEN WalkChild(w)
          ELSE IF fresh # {} THEN Take(w, <<"accept", Min(fresh)>>, my[w])
          ELSE Take(w, Source(c), my[w])
       /\ UNCHANGED <<tables, grant, sends, chain, verdict, faults>>

(* runPayoutV7Execution: every quote is accepted before the one withdrawal.  *)
Walk(w) ==
    LET c == Call(w)
        fresh == {x \in ChildrenOf[c] : Status(final, x) = 0}
    IN /\ pc[w] = "walk"
       /\ IF Funded(final, c) THEN WalkChild(w)
          ELSE IF fresh # {} THEN Take(w, <<"accept", Min(fresh)>>, my[w])
          ELSE Take(w, Source(c), my[w])
       /\ UNCHANGED <<tables, grant, sends, chain, verdict, faults>>

(* The lease is claimed for a source, the call is simulated, its nonce lane  *)
(* must be unused, then it is signed.  The web API gives one lease per call. *)
Prepare(w) ==
    LET c == Call(w)
        s == Step(w)
        ready(l) == Executable(head, s, l) /\ s \notin Known \cup Sent
    IN /\ pc[w] = "prepare"
       /\ IF s[1] # "source"
          THEN /\ IF ready(NoLease) THEN Goto(w, "claim", my[w]) ELSE Leave(w)
               /\ UNCHANGED grant
          ELSE \E l \in IF grant[c] = NoLease THEN Leases[c] ELSE {grant[c]} :
                  /\ grant' = [grant EXCEPT ![c] = l]
                  /\ IF l > head.time /\ ready(l)
                     THEN Goto(w, "claim", [my[w] EXCEPT !.lease = l]) ELSE Leave(w)
       /\ UNCHANGED <<tables, sends, chain, verdict, faults>>

(* store.retain: the INSERT decides who may broadcast. *)
Claim(w) ==
    /\ pc[w] = "claim"
    /\ IF Step(w) \in signed
       THEN Goto(w, "outcome", [my[w] EXCEPT !.lease = NoLease]) /\ UNCHANGED <<signed, lease>>
       ELSE /\ signed' = signed \cup {Step(w)}
            /\ lease' = IF Step(w)[1] = "source"
                        THEN [lease EXCEPT ![Call(w)] = my[w].lease] ELSE lease
            /\ Goto(w, "fence", [my[w] EXCEPT !.lease = NoLease])
    /\ UNCHANGED <<storeVars, grant, sends, chain, verdict, faults>>

(* broadcast begins with the fence of the source call. *)
Fence(w) ==
    /\ pc[w] = "fence" /\ RetainThen(w, "send")
    /\ UNCHANGED <<signed, lease, grant, sends, chain, verdict, faults>>

(* ... then the nonce lane is read again, and the node takes the bytes; its  *)
(* answer may be lost.                                                       *)
Send(w) ==
    /\ pc[w] = "send"
    /\ IF Step(w) \in Known \cup Sent THEN Leave(w) /\ UNCHANGED <<sends, faults>>
       ELSE /\ sends' = [sends EXCEPT ![Step(w)] = @ + 1]
            /\ \/ Goto(w, "outcome", my[w]) /\ UNCHANGED faults
               \/ Leave(w) /\ Fault
    /\ UNCHANGED <<tables, grant, chain, verdict>>

(* outcome: only a finalized success lets the walk go on. *)
Outcome(w) ==
    /\ pc[w] = "outcome"
    /\ IF Step(w) \in final.executed THEN Goto(w, "walk", [my[w] EXCEPT !.step = NoStep])
       ELSE Leave(w)
    /\ UNCHANGED <<tables, grant, sends, chain, verdict, faults>>

(* Any await may throw, or the process die. *)
Throw(w) ==
    /\ pc[w] # "idle" /\ Leave(w) /\ Fault
    /\ UNCHANGED <<tables, grant, sends, chain, verdict>>

----------------------------------------------------------------------------
(* The environment *)

(* A pending transaction is included, whatever has become of its grounds. *)
Mine(s) ==
    /\ s \in Sent \ Known
    /\ head' = IF Executable(head, s, IF s[1] = "source" THEN lease[s[2]] ELSE NoLease)
               THEN [head EXCEPT !.executed = @ \cup {s}]
               ELSE [head EXCEPT !.reverted = @ \cup {s}]
    /\ UNCHANGED <<tables, grant, sends, final, verdict, pc, my, faults>>

SpendElsewhere(n) ==
    /\ n \notin Spent(head) /\ Fault
    /\ head' = [head EXCEPT !.elsewhere = @ \cup {n}]
    /\ UNCHANGED <<tables, grant, sends, final, verdict, pc, my>>

Later ==
    /\ head.time < MaxTime
    /\ head' = [head EXCEPT !.time = @ + 1]
    /\ UNCHANGED <<tables, grant, sends, final, verdict, pc, my, faults>>

Finalize ==
    /\ final # head /\ final' = head
    /\ UNCHANGED <<tables, grant, sends, head, verdict, pc, my, faults>>

Reorganise ==
    /\ head # final /\ head' = final /\ Fault
    /\ UNCHANGED <<tables, grant, sends, final, verdict, pc, my>>

Attest(x) ==
    /\ verdict[x] = "none" /\ Status(head, x) = 3
    /\ \E v \in {"delivered", "failed"} : verdict' = [verdict EXCEPT ![x] = v]
    /\ UNCHANGED <<tables, grant, sends, chain, pc, my, faults>>

----------------------------------------------------------------------------
WorkerStep(w) ==
    \/ LockInputs(w) \/ Verify(w) \/ Preflight(w) \/ Walk(w) \/ Prepare(w)
    \/ Claim(w) \/ Fence(w) \/ Send(w) \/ Outcome(w)

Next ==
    \/ \E w \in Workers : WorkerStep(w) \/ Throw(w) \/ \E c \in Calls : Begin(w, c)
    \/ \E s \in Steps : Mine(s)
    \/ \E n \in Nullifiers : SpendElsewhere(n)
    \/ \E x \in Children : Attest(x)
    \/ Later \/ Finalize \/ Reorganise

Spec == Init /\ [][Next]_vars

(* A tick ends, the jobs take turns (nextJob), time passes and blocks become *)
(* final.  Nothing obliges the chain to include a transaction.               *)
Fairness ==
    /\ \A w \in Workers : WF_vars(WorkerStep(w))
    /\ \A w \in Workers, c \in Calls : SF_vars(Begin(w, c))
    /\ WF_vars(Later) /\ WF_vars(Finalize)

FairSpec == Spec /\ Fairness

----------------------------------------------------------------------------
(* Properties *)

(* A released fence is safe: nothing of the retired call has been executed   *)
(* on the source, and no signature of it that was ever sent can still be.    *)
RetiredIsDead ==
    \A c \in Calls :
        rowStatus[c] = "released" =>
            /\ ~Funded(head, c)
            /\ Source(c) \in Sent => lease[c] < final.time

(* What a step is sent for.                                                  *)
Grounds(s) ==
    CASE s[1] = "source" -> {"accept"} \X ChildrenOf[s[2]]
      [] s[1] = "accept" -> {}
      [] s[1] \in {"registration", "confirm"} -> {Source(CallOf(s))}
      [] s[1] = "submit" -> {<<"confirm", s[2]>>, <<"registration", s[2]>>}
      [] OTHER -> {<<"submit", s[2]>>}

(* A step is sent at most once, and only on grounds that are final: no       *)
(* reorganisation takes away what a later transaction was sent for.          *)
GroundsAreFinal == \A s \in Sent : sends[s] = 1 /\ Grounds(s) \subseteq final.executed

(* A job whose quote has ended without funding is retired in the end, unless *)
(* its withdrawal is funded after all, its inputs are spent by others, or it *)
(* was given a lease that outlasts the margin.                               *)
ExpiredIsRetired ==
    \A c \in Calls :
        (final.time > QuoteEnd[c] /\ ~Funded(final, c))
            ~> \/ rowStatus[c] = "released"
               \/ Funded(final, c) \/ InputsOf[c] \cap Spent(final) # {}
               \/ grant[c] # NoLease /\ grant[c] + Margin > QuoteEnd[c]
=============================================================================
