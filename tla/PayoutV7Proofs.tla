---------------------------- MODULE PayoutV7Proofs ----------------------------
(***************************************************************************)
(* Theorems about the worker of payouts V7, for any calls, children, quote  *)
(* ends, leases, workers and bounds: it is a client of the fence table      *)
(* (RetentionStore), it broadcasts a transaction at most once and only on   *)
(* final grounds, and the fence of a retired call is released only when no  *)
(* signature of the call can be executed any more.                          *)
(***************************************************************************)
EXTENDS PayoutV7, RetentionStoreProofs, WellFoundedInduction, TLAPS

(* Facts about the steps of a job. *)

LEMMA MinOfNaturals ==
    ASSUME NEW S \in SUBSET Nat, S # {}
    PROVE  Min(S) \in S
<1>1. PICK x \in S : \A y \in S : <<y, x>> \notin OpToRel(<, Nat)
  BY WFMin, NatLessThanWellFounded
<1>2. \A y, z \in Nat : <<y, z>> \notin OpToRel(<, Nat) => z <= y
  BY DEF OpToRel
<1>3. \A y \in S : x <= y
  BY <1>1, <1>2
<1> QED BY <1>3 DEF Min

LEMMA ParentOf ==
    ASSUME NEW c \in Calls, NEW x \in ChildrenOf[c]
    PROVE  x \in Children /\ Parent(x) = c /\ x \in Nat
<1>1. \A d \in Calls : x \in ChildrenOf[d] => d = c
  BY CallsAssumption
<1>2. x \in Children /\ x \in Nat
  BY CallsAssumption DEF Children
<1> QED BY <1>1, <1>2 DEF Parent

LEMMA ChildHasParent ==
    ASSUME NEW x \in Children
    PROVE  Parent(x) \in Calls /\ x \in ChildrenOf[Parent(x)]
<1>1. PICK c \in Calls : x \in ChildrenOf[c]
  BY CallsAssumption DEF Children
<1> QED BY <1>1, ParentOf

LEMMA SourceIsStep ==
    ASSUME NEW c \in Calls
    PROVE  Source(c) \in StepsOf(c) /\ Source(c)[1] = "source" /\ Source(c)[2] = c
  BY DEF Source, StepsOf, Steps, CallOf

LEMMA ChildIsStep ==
    ASSUME NEW c \in Calls, NEW x \in ChildrenOf[c], NEW k \in ChildSteps
    PROVE  <<k, x>> \in StepsOf(c)
<1>1. k # "source" /\ <<k, x>> \in Steps
  BY ParentOf DEF Steps, ChildSteps
<1> QED BY <1>1, ParentOf DEF StepsOf, CallOf

(* A step is the withdrawal of its call or a step of one of its children. *)
LEMMA StepShape ==
    ASSUME NEW c \in Calls, NEW s \in StepsOf(c)
    PROVE  /\ s \in Steps /\ CallOf(s) = c
           /\ s[1] = "source" => s = Source(c)
           /\ s[1] # "source" => s[1] \in ChildSteps /\ s[2] \in ChildrenOf[c] /\ s = <<s[1], s[2]>>
<1>1. s \in Steps /\ CallOf(s) = c
  BY DEF StepsOf
<1>2. CASE s[1] = "source"
  <2>1. \A k \in ChildSteps : k # "source"
    BY DEF ChildSteps
  <2>2. s \in {"source"} \X Calls
    BY <1>1, <1>2, <2>1 DEF Steps
  <2> QED BY <1>1, <1>2, <2>2 DEF CallOf, Source
<1>3. CASE s[1] # "source"
  <2>1. s \in ChildSteps \X Children
    BY <1>1, <1>3 DEF Steps
  <2> QED BY <1>1, <1>3, <2>1, ChildHasParent DEF CallOf
<1> QED BY <1>2, <1>3

(* What the status of a child says of the chain. *)
LEMMA StatusTells ==
    ASSUME NEW k, NEW x
    PROVE  /\ Status(k, x) \in 0..5
           /\ Status(k, x) = 1 => Did(k, "accept", x)
           /\ Status(k, x) = 2 => Did(k, "confirm", x)
           /\ Status(k, x) = 3 => Did(k, "submit", x)
           /\ Status(k, x) # 0 => \/ Did(k, "accept", x) \/ Did(k, "confirm", x)
                                  \/ Did(k, "submit", x) \/ Did(k, "complete", x)
                                  \/ Did(k, "refund", x)
  BY DEF Status

----------------------------------------------------------------------------
(* The inductive invariant *)

(* The contracts take a child through its states in order. *)
InOrder(k) ==
    \A x \in Children :
        /\ Did(k, "confirm", x) => Did(k, "accept", x)
        /\ Did(k, "submit", x) => Did(k, "confirm", x)
        /\ Did(k, "complete", x) \/ Did(k, "refund", x) => Did(k, "submit", x)

(* Only what was sent is mined; what is final stays; and a withdrawal that  *)
(* is mined but not yet final has a lease that finality has not passed.     *)
ChainsInv ==
    /\ InOrder(head) /\ InOrder(final)
    /\ final.executed \subseteq head.executed /\ final.time <= head.time
    /\ Known \cup final.reverted \subseteq Sent
    /\ \A c \in Calls : Source(c) \in head.executed \ final.executed => final.time <= lease[c]

(* A worker at place p with local variables m, when sig is signed and done  *)
(* is final: it is about to claim or send a step on final grounds only, and *)
(* sends nothing it has not claimed.                                        *)
Fit(p, m, sig, done) ==
    /\ m.call \in Calls => m.left \subseteq ChildrenOf[m.call]
    /\ p \in {"prepare", "claim", "fence", "send"} => Grounds(m.step) \subseteq done
    /\ p = "claim" /\ m.step[1] = "source" => m.lease \in Nat
    /\ p \in {"fence", "send"} => m.step \in sig
    /\ p = "verify" => m.rows \subseteq sig

WorkersFit == \A w \in Workers : Fit(pc[w], my[w], signed, final.executed)

(* Nothing is sent that has no row, and the row of a withdrawal has a lease. *)
SignedInv ==
    /\ Sent \subseteq signed
    /\ \A c \in Calls : Source(c) \in signed => lease[c] \in Nat

(* The withdrawal of c is out, or a worker that has passed the fence has it. *)
Launched(c) ==
    \/ Source(c) \in Sent
    \/ \E v \in Workers : pc[v] = "send" /\ my[v].step = Source(c)

(* While a retirement holds the locks, a withdrawal it has not seen is not   *)
(* launched; and once the fence is released, what was launched is too late.  *)
RetiredInv ==
    /\ \A w \in Workers :
          pc[w] = "verify" /\ Launched(my[w].call) => Source(my[w].call) \in my[w].rows
    /\ \A c \in Calls : rowStatus[c] = "released" =>
          ~Funded(head, c) /\ (Launched(c) => lease[c] < final.time)

IInv == TypeOK /\ ChainsInv /\ WorkersFit /\ SignedInv /\ RetiredInv /\ GroundsAreFinal

----------------------------------------------------------------------------
(* Moves of a worker *)

Places == {"idle", "retire", "verify", "preflight", "walk", "prepare",
           "claim", "fence", "send", "outcome"}
Locals == [call : Calls \cup {NoCall}, step : Steps \cup {NoStep},
           lease : Nat \cup {NoLease}, left : SUBSET Children, rows : SUBSET Steps]

Typed(p, m) ==
    /\ p \in Places /\ m \in Locals
    /\ p # "idle" => m.call \in Calls
    /\ p \in {"prepare", "claim", "fence", "send", "outcome"} => m.step \in StepsOf(m.call)

WorkersTyped ==
    /\ pc \in [Workers -> Places] /\ my \in [Workers -> Locals]
    /\ \A w \in Workers : Typed(pc[w], my[w])

LEMMA WorkersAreTyped == TypeOK => WorkersTyped
  BY DEF TypeOK, WorkersTyped, Typed, Places, Locals

LEMMA FitGrows ==
    ASSUME NEW p, NEW m, NEW sig, NEW done, Fit(p, m, sig, done),
           NEW sig2, sig \subseteq sig2, NEW done2, done \subseteq done2
    PROVE  Fit(p, m, sig2, done2)
  BY DEF Fit

(* What a step of w has to show of its own new place, and no other. *)
LEMMA Moves ==
    ASSUME WorkersTyped, WorkersFit, NEW w \in Workers, NEW p, NEW m, Goto(w, p, m),
           Typed(p, m), Fit(p, m, signed', final'.executed),
           signed \subseteq signed', final.executed \subseteq final'.executed
    PROVE  WorkersTyped' /\ WorkersFit'
<1>1. pc' = [pc EXCEPT ![w] = p] /\ my' = [my EXCEPT ![w] = m]
  BY DEF Goto
<1>2. pc' \in [Workers -> Places] /\ my' \in [Workers -> Locals]
  BY <1>1 DEF WorkersTyped, Typed
<1>3. pc'[w] = p /\ my'[w] = m
  BY <1>1 DEF WorkersTyped
<1>4. ASSUME NEW v \in Workers, v # w PROVE pc'[v] = pc[v] /\ my'[v] = my[v]
  BY <1>1, <1>4 DEF WorkersTyped
<1>5. ASSUME NEW v \in Workers PROVE Typed(pc'[v], my'[v])
  BY <1>3, <1>4 DEF WorkersTyped
<1>6. ASSUME NEW v \in Workers PROVE Fit(pc'[v], my'[v], signed', final'.executed)
  <2>1. CASE v = w
    BY <1>3, <2>1
  <2>2. CASE v # w
    <3>1. Fit(pc[v], my[v], signed, final.executed)
      BY DEF WorkersFit
    <3>2. Fit(pc[v], my[v], signed', final'.executed)
      BY <3>1, FitGrows
    <3> QED BY <1>4, <2>2, <3>2
  <2> QED BY <2>1, <2>2
<1>7. WorkersTyped'
  BY <1>2, <1>5 DEF WorkersTyped
<1>8. WorkersFit'
  BY <1>6 DEF WorkersFit
<1> QED BY <1>7, <1>8

LEMMA Stays ==
    ASSUME WorkersTyped, WorkersFit, UNCHANGED <<pc, my>>,
           signed \subseteq signed', final.executed \subseteq final'.executed
    PROVE  WorkersTyped' /\ WorkersFit'
<1>1. WorkersTyped'
  BY DEF WorkersTyped
<1>2. ASSUME NEW v \in Workers PROVE Fit(pc'[v], my'[v], signed', final'.executed)
  <2>1. Fit(pc[v], my[v], signed, final.executed)
    BY DEF WorkersFit
  <2>2. Fit(pc[v], my[v], signed', final'.executed)
    BY <2>1, FitGrows
  <2> QED BY <2>2
<1> QED BY <1>1, <1>2 DEF WorkersFit

(* The end of a tick. *)
LEMMA NothingFits ==
    ASSUME NEW sig, NEW done
    PROVE  Typed("idle", Nothing) /\ Fit("idle", Nothing, sig, done)
<1>1. Typed("idle", Nothing)
  BY DEF Typed, Places, Locals, Nothing
<1>2. Nothing.call \notin Calls
  BY CallsAssumption DEF Nothing
<1> QED BY <1>1, <1>2 DEF Fit

(* A step that is grounded in final facts may be taken. *)
LEMMA Takes ==
    ASSUME WorkersTyped, WorkersFit, NEW w \in Workers, NEW rec, NEW s, Take(w, s, rec),
           Typed("walk", rec), s \in StepsOf(rec.call), Grounds(s) \subseteq final.executed,
           rec.left \subseteq ChildrenOf[rec.call], UNCHANGED <<signed, final>>
    PROVE  WorkersTyped' /\ WorkersFit'
<1> DEFINE m == [rec EXCEPT !.step = s]
           p == IF s \in signed THEN "outcome" ELSE "prepare"
<1>1. rec \in Locals /\ rec.call \in Calls /\ s \in Steps
  BY DEF Typed, StepsOf
<1>2. m \in Locals /\ m.call = rec.call /\ m.left = rec.left /\ m.step = s
  BY <1>1 DEF Locals
<1>3. p \in {"prepare", "outcome"} /\ Goto(w, p, m)
  BY DEF Take
<1> HIDE DEF m, p
<1>4. Typed(p, m)
  BY <1>1, <1>2, <1>3 DEF Typed, Places
<1>5. Fit(p, m, signed', final'.executed)
  BY <1>2, <1>3 DEF Fit
<1> QED BY <1>3, <1>4, <1>5, Moves

LEMMA Leaves ==
    ASSUME WorkersTyped, WorkersFit, NEW w \in Workers, Leave(w),
           signed \subseteq signed', final.executed \subseteq final'.executed
    PROVE  WorkersTyped' /\ WorkersFit'
<1>1. Goto(w, "idle", Nothing)
  BY DEF Leave
<1>2. Typed("idle", Nothing) /\ Fit("idle", Nothing, signed', final'.executed)
  BY NothingFits
<1> QED BY <1>1, <1>2, Moves

(* A worker that keeps its locals and goes on to p. *)
LEMMA GoesOn ==
    ASSUME WorkersTyped, WorkersFit, NEW w \in Workers, NEW p \in Places, Goto(w, p, my[w]),
           pc[w] # "idle",
           p \in {"prepare", "claim", "fence", "send", "outcome"} => my[w].step \in StepsOf(my[w].call),
           Fit(p, my[w], signed, final.executed), UNCHANGED <<signed, final>>
    PROVE  WorkersTyped' /\ WorkersFit'
<1>1. Typed(pc[w], my[w])
  BY DEF WorkersTyped
<1>2. Typed(p, my[w])
  BY <1>1 DEF Typed
<1>3. Fit(p, my[w], signed', final'.executed)
  OBVIOUS
<1> QED BY <1>2, <1>3, Moves

LEMMA BeginMoves ==
    ASSUME TypeOK, WorkersFit, NEW w \in Workers, NEW c \in Calls, Begin(w, c)
    PROVE  WorkersTyped' /\ WorkersFit'
<1>0. WorkersTyped /\ UNCHANGED <<signed, final>> /\ grant[c] \in Nat \cup {NoLease}
  BY WorkersAreTyped DEF Begin, tables, chain, TypeOK
<1>1. ChildrenOf[c] \subseteq Children
  BY ParentOf
<1>2. Nothing \in Locals
  BY DEF Nothing, Locals
<1>3. CASE final.time > QuoteEnd[c] /\ Unfunded(final, c)
  <2> DEFINE m == [Nothing EXCEPT !.call = c, !.lease = grant[c]]
  <2>1. m \in Locals /\ m.call = c /\ m.left = {}
    BY <1>0 DEF Nothing, Locals
  <2>2. Goto(w, "retire", m)
    BY <1>3 DEF Begin
  <2> HIDE DEF m
  <2>3. Typed("retire", m) /\ Fit("retire", m, signed', final'.executed)
    BY <2>1 DEF Typed, Fit, Places
  <2> QED BY <1>0, <2>2, <2>3, Moves
<1>4. CASE ~(final.time > QuoteEnd[c] /\ Unfunded(final, c))
  <2> DEFINE m == [Nothing EXCEPT !.call = c, !.left = ChildrenOf[c]]
             p == IF Funded(final, c) THEN "walk" ELSE "preflight"
  <2>1. m \in Locals /\ m.call = c /\ m.left = ChildrenOf[c]
    BY <1>1 DEF Nothing, Locals
  <2>2. Goto(w, p, m) /\ p \in {"walk", "preflight"}
    BY <1>4 DEF Begin
  <2> HIDE DEF m, p
  <2>3. Typed(p, m) /\ Fit(p, m, signed', final'.executed)
    BY <2>1, <2>2 DEF Typed, Fit, Places
  <2> QED BY <1>0, <2>2, <2>3, Moves
<1> QED BY <1>3, <1>4

LEMMA LockInputsMoves ==
    ASSUME TypeOK, WorkersFit, NEW w \in Workers, LockInputs(w)
    PROVE  WorkersTyped' /\ WorkersFit'
<1>0. WorkersTyped /\ UNCHANGED <<signed, final>> /\ Typed(pc[w], my[w]) /\ pc[w] = "retire"
  BY WorkersAreTyped DEF LockInputs, tables, chain, WorkersTyped
<1>1. CASE IsRetired(Call(w))
  BY <1>0, <1>1, Leaves DEF LockInputs
<1>2. CASE ~IsRetired(Call(w))
  <2> DEFINE m == [my[w] EXCEPT !.rows = signed \cap StepsOf(Call(w))]
  <2>1. signed \cap StepsOf(Call(w)) \subseteq Steps
    BY DEF StepsOf
  <2>2. my[w] \in Locals /\ my[w].call \in Calls
    BY <1>0 DEF Typed
  <2>3. m \in Locals /\ m.call = my[w].call /\ m.left = my[w].left /\ m.rows \subseteq signed
    BY <2>1, <2>2 DEF Locals
  <2>4. Goto(w, "verify", m)
    BY <1>2 DEF LockInputs
  <2>5. my[w].left \subseteq ChildrenOf[my[w].call]
    BY <2>2 DEF WorkersFit, Fit
  <2> HIDE DEF m
  <2>6. Typed("verify", m) /\ Fit("verify", m, signed', final'.executed)
    BY <1>0, <2>2, <2>3, <2>5 DEF Typed, Fit, Places
  <2> QED BY <1>0, <2>4, <2>6, Moves
<1> QED BY <1>1, <1>2

(* The fence is asked for before the walk and again before a broadcast. *)
LEMMA RetainMoves ==
    ASSUME TypeOK, WorkersFit, NEW w \in Workers, NEW p \in {"walk", "send"},
           pc[w] = IF p = "walk" THEN "preflight" ELSE "fence",
           RetainThen(w, p), UNCHANGED <<signed, final>>
    PROVE  WorkersTyped' /\ WorkersFit'
<1>0. WorkersTyped /\ Typed(pc[w], my[w]) /\ Fit(pc[w], my[w], signed, final.executed)
  BY WorkersAreTyped DEF WorkersTyped, WorkersFit
<1>1. CASE Leave(w)
  BY <1>0, <1>1, Leaves
<1>2. CASE Goto(w, p, my[w])
  <2>1. Fit(p, my[w], signed, final.executed)
    BY <1>0 DEF Fit
  <2>2. p = "send" => my[w].step \in StepsOf(my[w].call)
    BY <1>0 DEF Typed
  <2>3. p \in Places /\ pc[w] # "idle"
    BY DEF Places
  <2> QED BY <1>0, <1>2, <2>1, <2>2, <2>3, GoesOn
<1> QED BY <1>1, <1>2 DEF RetainThen

LEMMA PreflightMoves ==
    ASSUME TypeOK, WorkersFit, NEW w \in Workers, Preflight(w)
    PROVE  WorkersTyped' /\ WorkersFit'
<1>0. WorkersTyped /\ UNCHANGED <<signed, final>> /\ pc[w] = "preflight"
  BY WorkersAreTyped DEF Preflight, chain
<1>1. CASE Leave(w)
  BY <1>0, <1>1, Leaves
<1>2. CASE RetainThen(w, "walk")
  BY <1>0, <1>2, RetainMoves
<1> QED BY <1>1, <1>2 DEF Preflight

LEMMA GroundsOf ==
    ASSUME NEW c \in Calls, NEW x \in ChildrenOf[c]
    PROVE  /\ Grounds(<<"accept", x>>) = {}
           /\ Grounds(<<"registration", x>>) = {Source(c)}
           /\ Grounds(<<"confirm", x>>) = {Source(c)}
           /\ Grounds(<<"submit", x>>) = {<<"confirm", x>>, <<"registration", x>>}
           /\ Grounds(<<"complete", x>>) = {<<"submit", x>>}
           /\ Grounds(<<"refund", x>>) = {<<"submit", x>>}
<1>1. \A k \in ChildSteps : CallOf(<<k, x>>) = c
  BY ParentOf DEF CallOf, ChildSteps
<1> QED BY <1>1 DEF Grounds, ChildSteps

LEMMA GroundsOfSource ==
    ASSUME NEW c \in Calls
    PROVE  Grounds(Source(c)) = {"accept"} \X ChildrenOf[c]
  BY SourceIsStep DEF Grounds

(* The walk among the children of a funded call: every transaction it takes  *)
(* stands on what is final.                                                  *)
LEMMA WalkChildMoves ==
    ASSUME TypeOK, WorkersFit, InOrder(final), NEW w \in Workers, pc[w] = "walk",
           Funded(final, Call(w)), WalkChild(w), UNCHANGED <<signed, final>>
    PROVE  WorkersTyped' /\ WorkersFit'
<1> DEFINE c == Call(w)
           x == Min(my[w].left)
           passed == [my[w] EXCEPT !.left = @ \ {x}]
<1>0. WorkersTyped /\ Typed("walk", my[w]) /\ my[w] \in Locals /\ c \in Calls
  BY WorkersAreTyped DEF WorkersTyped, Typed, Call
<1>1. my[w].left \subseteq ChildrenOf[c] /\ my[w].left \subseteq Nat
  BY <1>0, CallsAssumption DEF WorkersFit, Fit, Call
<1>2. CASE my[w].left = {}
  <2>1. Leave(w)
    BY <1>2 DEF WalkChild
  <2> QED BY <1>0, <2>1, Leaves
<1>3. CASE my[w].left # {}
  <2>1. x \in ChildrenOf[c]
    BY <1>1, <1>3, MinOfNaturals
  <2>2. passed \in Locals /\ passed.call = c /\ passed.left = my[w].left \ {x}
    BY <1>0, <1>1 DEF Locals, Call
  <2> HIDE DEF passed, x
  <2>3. Typed("walk", passed) /\ passed.left \subseteq ChildrenOf[c]
    BY <1>0, <1>1, <2>2 DEF Typed, Places
  <2>4. Goto(w, "walk", passed) => WorkersTyped' /\ WorkersFit'
    <3>1. Fit("walk", passed, signed', final'.executed)
      BY <2>2, <2>3 DEF Fit
    <3> QED BY <1>0, <2>3, <3>1, Moves
  <2>5. ASSUME NEW k \in ChildSteps, NEW rec \in {my[w], passed},
               Take(w, <<k, x>>, rec), Grounds(<<k, x>>) \subseteq final.executed
        PROVE  WorkersTyped' /\ WorkersFit'
    <3>1. Typed("walk", rec) /\ rec.call = c /\ rec.left \subseteq ChildrenOf[c]
      BY <1>0, <1>1, <2>2, <2>3 DEF Call
    <3>2. <<k, x>> \in StepsOf(rec.call)
      BY <1>0, <2>1, <3>1, ChildIsStep
    <3> QED BY <1>0, <2>5, <3>1, <3>2, Takes
  <2>6. Source(c) \in final.executed
    BY DEF Funded
  <2>7. Did(final, "confirm", x) => Did(final, "accept", x)
    BY <2>1, ParentOf, <1>0 DEF InOrder
  <2>8. \/ /\ Status(final, x) \in {1, 2} /\ ~Did(final, "registration", x)
           /\ Take(w, <<"registration", x>>, my[w])
        \/ /\ Status(final, x) = 1 /\ Did(final, "registration", x)
           /\ Take(w, <<"confirm", x>>, my[w])
        \/ /\ Status(final, x) = 2 /\ Did(final, "registration", x)
           /\ Take(w, <<"submit", x>>, my[w])
        \/ /\ Status(final, x) = 3
           /\ \/ Take(w, <<"complete", x>>, passed)
              \/ Take(w, <<"refund", x>>, passed)
              \/ Goto(w, "walk", passed)
        \/ Goto(w, "walk", passed)
    BY <1>3 DEF WalkChild, passed, x
  <2>9. CASE Take(w, <<"registration", x>>, my[w])
    <3>1. Grounds(<<"registration", x>>) \subseteq final.executed
      BY <1>0, <2>1, <2>6, GroundsOf
    <3> QED BY <2>5, <2>9, <3>1 DEF ChildSteps
  <2>10. CASE Take(w, <<"confirm", x>>, my[w])
    <3>1. Grounds(<<"confirm", x>>) \subseteq final.executed
      BY <1>0, <2>1, <2>6, GroundsOf
    <3> QED BY <2>5, <2>10, <3>1 DEF ChildSteps
  <2>11. CASE /\ Status(final, x) = 2 /\ Did(final, "registration", x)
              /\ Take(w, <<"submit", x>>, my[w])
    <3>1. {<<"confirm", x>>, <<"registration", x>>} \subseteq final.executed
      BY <2>11, StatusTells DEF Did
    <3>2. Grounds(<<"submit", x>>) \subseteq final.executed
      BY <1>0, <2>1, <3>1, GroundsOf
    <3> QED BY <2>5, <2>11, <3>2 DEF ChildSteps
  <2>12. CASE /\ Status(final, x) = 3
              /\ Take(w, <<"complete", x>>, passed) \/ Take(w, <<"refund", x>>, passed)
    <3>1. {<<"submit", x>>} \subseteq final.executed
      BY <2>12, StatusTells DEF Did
    <3>2. /\ Grounds(<<"complete", x>>) \subseteq final.executed
          /\ Grounds(<<"refund", x>>) \subseteq final.executed
      BY <1>0, <2>1, <3>1, GroundsOf
    <3> QED BY <2>5, <2>12, <3>2 DEF ChildSteps
  <2> QED BY <2>4, <2>8, <2>9, <2>10, <2>11, <2>12
<1> QED BY <1>2, <1>3

LEMMA WalkMoves ==
    ASSUME TypeOK, WorkersFit, InOrder(final), NEW w \in Workers, Walk(w)
    PROVE  WorkersTyped' /\ WorkersFit'
<1> DEFINE c == Call(w)
           fresh == {x \in ChildrenOf[c] : Status(final, x) = 0}
<1>0. /\ WorkersTyped /\ Typed("walk", my[w]) /\ c \in Calls /\ my[w].call = c
      /\ pc[w] = "walk" /\ UNCHANGED <<signed, final>>
  BY WorkersAreTyped DEF WorkersTyped, Typed, Call, Walk, tables, chain
<1>1. my[w].left \subseteq ChildrenOf[c]
  BY <1>0 DEF WorkersFit, Fit
<1>2. CASE Funded(final, c)
  <2>1. WalkChild(w)
    BY <1>2 DEF Walk
  <2> QED BY <1>0, <1>2, <2>1, WalkChildMoves
<1>3. CASE ~Funded(final, c) /\ fresh # {}
  <2>1. Take(w, <<"accept", Min(fresh)>>, my[w])
    BY <1>3 DEF Walk
  <2>2. fresh \in SUBSET Nat
    BY <1>0, CallsAssumption
  <2>3. Min(fresh) \in ChildrenOf[c]
    BY <1>3, <2>2, MinOfNaturals
  <2>4. <<"accept", Min(fresh)>> \in StepsOf(c) /\ Grounds(<<"accept", Min(fresh)>>) = {}
    BY <1>0, <2>3, ChildIsStep, GroundsOf DEF ChildSteps
  <2> HIDE DEF fresh
  <2> QED BY <1>0, <1>1, <2>1, <2>4, Takes
<1>4. CASE ~Funded(final, c) /\ fresh = {}
  <2>1. Take(w, Source(c), my[w])
    BY <1>4 DEF Walk
  <2>2. ASSUME NEW y \in ChildrenOf[c] PROVE <<"accept", y>> \in final.executed
    <3>1. Status(final, y) # 0 /\ y \in Children
      BY <1>0, <1>4, ParentOf
    <3> QED BY <3>1, StatusTells DEF InOrder, Did
  <2>3. Grounds(Source(c)) \subseteq final.executed
    BY <1>0, <2>2, GroundsOfSource
  <2>4. Source(c) \in StepsOf(c)
    BY <1>0, SourceIsStep
  <2> QED BY <1>0, <1>1, <2>1, <2>3, <2>4, Takes
<1> QED BY <1>2, <1>3, <1>4

LEMMA PrepareMoves ==
    ASSUME TypeOK, WorkersFit, NEW w \in Workers, Prepare(w)
    PROVE  WorkersTyped' /\ WorkersFit' /\ grant' \in [Calls -> Nat \cup {NoLease}]
<1>0. /\ WorkersTyped /\ Typed("prepare", my[w]) /\ Fit("prepare", my[w], signed, final.executed)
      /\ pc[w] = "prepare" /\ UNCHANGED <<signed, final>> /\ Call(w) \in Calls
      /\ my[w].call = Call(w) /\ my[w].step = Step(w)
  BY WorkersAreTyped DEF WorkersTyped, WorkersFit, Typed, Call, Step, Prepare, tables, chain
<1>1. CASE Step(w)[1] # "source"
  <2>1. (Goto(w, "claim", my[w]) \/ Leave(w)) /\ UNCHANGED grant
    BY <1>1 DEF Prepare
  <2>2. Typed("claim", my[w]) /\ Fit("claim", my[w], signed', final'.executed)
    BY <1>0, <1>1 DEF Typed, Fit, Places
  <2>3. grant' \in [Calls -> Nat \cup {NoLease}]
    BY <2>1 DEF TypeOK
  <2>4. CASE Goto(w, "claim", my[w])
    BY <1>0, <2>2, <2>3, <2>4, Moves
  <2>5. CASE Leave(w)
    BY <1>0, <2>3, <2>5, Leaves
  <2> QED BY <2>1, <2>4, <2>5
<1>2. CASE Step(w)[1] = "source"
  <2>1. PICK l \in IF grant[Call(w)] = NoLease THEN Leases[Call(w)] ELSE {grant[Call(w)]} :
            /\ grant' = [grant EXCEPT ![Call(w)] = l]
            /\ Goto(w, "claim", [my[w] EXCEPT !.lease = l]) \/ Leave(w)
    BY <1>2 DEF Prepare
  <2>2. l \in Nat
    <3>1. grant[Call(w)] \in Nat \cup {NoLease} /\ Leases[Call(w)] \in SUBSET Nat
      BY <1>0, CallsAssumption DEF TypeOK
    <3>2. CASE grant[Call(w)] = NoLease
      BY <3>1, <3>2
    <3>3. CASE grant[Call(w)] # NoLease
      BY <3>1, <3>3
    <3> QED BY <3>2, <3>3
  <2>3. grant' \in [Calls -> Nat \cup {NoLease}]
    BY <2>1, <2>2 DEF TypeOK
  <2> DEFINE m == [my[w] EXCEPT !.lease = l]
  <2>4. m \in Locals /\ m.call = my[w].call /\ m.left = my[w].left /\ m.step = my[w].step /\ m.lease = l
    BY <1>0, <2>2 DEF Typed, Locals
  <2>5. Goto(w, "claim", m) \/ Leave(w)
    BY <2>1
  <2> HIDE DEF m
  <2>6. Typed("claim", m) /\ Fit("claim", m, signed', final'.executed)
    BY <1>0, <2>2, <2>4 DEF Typed, Fit, Places
  <2>7. CASE Goto(w, "claim", m)
    BY <1>0, <2>3, <2>6, <2>7, Moves
  <2>8. CASE Leave(w)
    BY <1>0, <2>3, <2>8, Leaves
  <2> QED BY <2>5, <2>7, <2>8
<1> QED BY <1>1, <1>2

LEMMA ClaimMoves ==
    ASSUME TypeOK, WorkersFit, SignedInv, NEW w \in Workers, Claim(w)
    PROVE  WorkersTyped' /\ WorkersFit'
<1> DEFINE m == [my[w] EXCEPT !.lease = NoLease]
<1>0. /\ WorkersTyped /\ Typed("claim", my[w]) /\ Fit("claim", my[w], signed, final.executed)
      /\ UNCHANGED final /\ my[w].step = Step(w)
  BY WorkersAreTyped DEF WorkersTyped, WorkersFit, Step, Claim, chain
<1>1. m \in Locals /\ m.call = my[w].call /\ m.left = my[w].left /\ m.step = Step(w)
  BY <1>0 DEF Typed, Locals
<1>2. \/ Goto(w, "outcome", m) /\ UNCHANGED signed
      \/ Goto(w, "fence", m) /\ signed' = signed \cup {Step(w)}
  BY DEF Claim
<1> HIDE DEF m
<1>3. Typed("outcome", m) /\ Typed("fence", m)
  BY <1>0, <1>1 DEF Typed, Places
<1>4. CASE Goto(w, "outcome", m) /\ UNCHANGED signed
  <2>1. Fit("outcome", m, signed', final'.executed)
    BY <1>0, <1>1 DEF Fit
  <2> QED BY <1>0, <1>3, <1>4, <2>1, Moves
<1>5. CASE Goto(w, "fence", m) /\ signed' = signed \cup {Step(w)}
  <2>1. Fit("fence", m, signed', final'.executed)
    BY <1>0, <1>1, <1>5 DEF Fit
  <2> QED BY <1>0, <1>3, <1>5, <2>1, Moves
<1> QED BY <1>2, <1>4, <1>5

LEMMA FenceMoves ==
    ASSUME TypeOK, WorkersFit, NEW w \in Workers, Fence(w)
    PROVE  WorkersTyped' /\ WorkersFit'
<1>1. pc[w] = "fence" /\ RetainThen(w, "send") /\ UNCHANGED <<signed, final>>
  BY DEF Fence, chain
<1> QED BY <1>1, RetainMoves

LEMMA SendMoves ==
    ASSUME TypeOK, WorkersFit, NEW w \in Workers, Send(w)
    PROVE  WorkersTyped' /\ WorkersFit'
<1>0. WorkersTyped /\ Typed("send", my[w]) /\ Fit("send", my[w], signed, final.executed)
  BY WorkersAreTyped DEF WorkersTyped, WorkersFit, Send
<1>1. pc[w] = "send" /\ UNCHANGED <<signed, final>> /\ (Leave(w) \/ Goto(w, "outcome", my[w]))
  BY DEF Send, tables, chain
<1>2. CASE Leave(w)
  BY <1>0, <1>1, <1>2, Leaves
<1>3. CASE Goto(w, "outcome", my[w])
  <2>1. Fit("outcome", my[w], signed, final.executed) /\ my[w].step \in StepsOf(my[w].call)
    BY <1>0 DEF Fit, Typed
  <2> QED BY <1>0, <1>1, <1>3, <2>1, GoesOn DEF Places
<1> QED BY <1>1, <1>2, <1>3

LEMMA OutcomeMoves ==
    ASSUME TypeOK, WorkersFit, NEW w \in Workers, Outcome(w)
    PROVE  WorkersTyped' /\ WorkersFit'
<1> DEFINE m == [my[w] EXCEPT !.step = NoStep]
<1>0. /\ WorkersTyped /\ Typed("outcome", my[w]) /\ Fit("outcome", my[w], signed, final.executed)
      /\ UNCHANGED <<signed, final>>
  BY WorkersAreTyped DEF WorkersTyped, WorkersFit, Outcome, tables, chain
<1>1. m \in Locals /\ m.call = my[w].call /\ m.left = my[w].left
  BY <1>0 DEF Typed, Locals
<1>2. Goto(w, "walk", m) \/ Leave(w)
  BY DEF Outcome
<1> HIDE DEF m
<1>3. Typed("walk", m) /\ Fit("walk", m, signed', final'.executed)
  BY <1>0, <1>1 DEF Typed, Fit, Places
<1>4. CASE Goto(w, "walk", m)
  BY <1>0, <1>3, <1>4, Moves
<1>5. CASE Leave(w)
  BY <1>0, <1>5, Leaves
<1> QED BY <1>2, <1>4, <1>5

----------------------------------------------------------------------------
(* What a step of the system does to the tables and the chain. *)

ChainStep ==
    \/ \E s \in Steps : Mine(s)
    \/ \E n \in Nullifiers : SpendElsewhere(n)
    \/ Later \/ Finalize \/ Reorganise

(* A step that is none of the chain's, and none of Claim, Send and Verify. *)
Quiet ==
    \/ \E w \in Workers :
          \/ LockInputs(w) \/ Preflight(w) \/ Walk(w) \/ Prepare(w)
          \/ Fence(w) \/ Outcome(w) \/ Throw(w) \/ \E c \in Calls : Begin(w, c)
    \/ \E x \in Children : Attest(x)

LEMMA NextIs ==
    Next => \/ \E w \in Workers : Claim(w) \/ Send(w) \/ Verify(w)
            \/ ChainStep \/ Quiet
  BY DEF Next, WorkerStep, ChainStep, Quiet

LEMMA QuietIs ==
    Quiet => UNCHANGED <<signed, lease, sends, head, final>>
<1>1. ASSUME NEW w \in Workers,
             \/ LockInputs(w) \/ Preflight(w) \/ Walk(w) \/ Prepare(w)
             \/ Fence(w) \/ Outcome(w) \/ Throw(w) \/ \E c \in Calls : Begin(w, c)
      PROVE  UNCHANGED <<signed, lease, sends, head, final>>
  BY <1>1 DEF LockInputs, Preflight, Walk, Prepare, Fence, Outcome, Throw, Begin, tables, chain
<1>2. ASSUME NEW x \in Children, Attest(x)
      PROVE  UNCHANGED <<signed, lease, sends, head, final>>
  BY <1>2 DEF Attest, tables, chain
<1> QED BY <1>1, <1>2 DEF Quiet

LEMMA ChainStepIs ==
    ChainStep => UNCHANGED <<tables, grant, sends, verdict, pc, my>>
  BY DEF ChainStep, Mine, SpendElsewhere, Later, Finalize, Reorganise

LEMMA VerifyIs ==
    ASSUME NEW w, Verify(w)
    PROVE  UNCHANGED <<signed, lease, sends, head, final>>
  BY DEF Verify, chain

LEMMA ClaimIs ==
    ASSUME NEW w, Claim(w)
    PROVE  UNCHANGED <<storeVars, sends, head, final>>
  BY DEF Claim, chain

LEMMA SendIs ==
    ASSUME NEW w, Send(w)
    PROVE  UNCHANGED <<tables, head, final>>
  BY DEF Send, chain

(* Rows and what is final only grow. *)
LEMMA Grows ==
    ASSUME TypeOK, ChainsInv, Next
    PROVE  signed \subseteq signed' /\ final.executed \subseteq final'.executed
           /\ final.time <= final'.time
<1>0. final.time \in Int /\ head.time \in Int
  BY DEF TypeOK, Chains
<1>1. CASE Quiet
  BY <1>0, <1>1, QuietIs
<1>2. CASE ChainStep
  <2>1. signed' = signed /\ (final' = final \/ final' = head)
    BY <1>2, ChainStepIs DEF tables, ChainStep, Mine, SpendElsewhere, Later, Finalize, Reorganise
  <2> QED BY <1>0, <2>1 DEF ChainsInv
<1>3. ASSUME NEW w \in Workers, Claim(w) \/ Send(w) \/ Verify(w)
      PROVE  signed \subseteq signed' /\ final' = final
  BY <1>3, VerifyIs, ClaimIs, SendIs DEF Claim, tables
<1> QED BY <1>0, <1>1, <1>2, <1>3, NextIs

LEMMA MovesStep ==
    ASSUME TypeOK, ChainsInv, WorkersFit, SignedInv, [Next]_vars
    PROVE  WorkersTyped' /\ WorkersFit'
<1>0. WorkersTyped /\ InOrder(final)
  BY WorkersAreTyped DEF ChainsInv
<1>1. CASE UNCHANGED vars
  BY <1>0, <1>1, Stays DEF vars, tables, chain
<1>2. CASE ChainStep /\ Next
  BY <1>0, <1>2, Stays, Grows, ChainStepIs
<1>3. ASSUME NEW x \in Children, Attest(x) PROVE WorkersTyped' /\ WorkersFit'
  BY <1>0, <1>3, Stays DEF Attest, tables, chain
<1>4. ASSUME NEW w \in Workers, NEW c \in Calls, Begin(w, c) PROVE WorkersTyped' /\ WorkersFit'
  BY <1>4, BeginMoves
<1>5. ASSUME NEW w \in Workers, LockInputs(w) \/ Preflight(w) \/ Walk(w) PROVE WorkersTyped' /\ WorkersFit'
  BY <1>0, <1>5, LockInputsMoves, PreflightMoves, WalkMoves
<1>6. ASSUME NEW w \in Workers, Prepare(w) \/ Claim(w) \/ Fence(w) PROVE WorkersTyped' /\ WorkersFit'
  BY <1>6, PrepareMoves, ClaimMoves, FenceMoves
<1>7. ASSUME NEW w \in Workers, Send(w) \/ Outcome(w) PROVE WorkersTyped' /\ WorkersFit'
  BY <1>7, SendMoves, OutcomeMoves
<1>8. ASSUME NEW w \in Workers, Verify(w) \/ Throw(w) PROVE WorkersTyped' /\ WorkersFit'
  <2>1. Leave(w) /\ UNCHANGED <<signed, final>>
    BY <1>8 DEF Verify, Throw, tables, chain
  <2> QED BY <1>0, <2>1, Leaves
<1> QED BY <1>1, <1>2, <1>3, <1>4, <1>5, <1>6, <1>7, <1>8 DEF Next, WorkerStep, ChainStep

(* The claim is the only INSERT, and a lease is never rewritten. *)
LEMMA SignedStep ==
    ASSUME TypeOK, WorkersFit, SignedInv, Next
    PROVE  /\ SignedInv'
           /\ \A c \in Calls : Source(c) \in signed => lease'[c] = lease[c]
<1>0. WorkersTyped
  BY WorkersAreTyped
<1>1. CASE Quiet \/ ChainStep \/ \E w \in Workers : Verify(w)
  <2>1. UNCHANGED <<signed, lease, sends>>
    BY <1>1, QuietIs, ChainStepIs, VerifyIs DEF tables
  <2> QED BY <2>1 DEF SignedInv, Sent
<1>2. ASSUME NEW w \in Workers, Claim(w)
      PROVE  /\ SignedInv'
             /\ \A c \in Calls : Source(c) \in signed => lease'[c] = lease[c]
  <2>0. /\ Typed("claim", my[w]) /\ Fit("claim", my[w], signed, final.executed)
        /\ my[w].step = Step(w) /\ my[w].call = Call(w) /\ Call(w) \in Calls
        /\ UNCHANGED sends
    BY <1>0, <1>2 DEF WorkersTyped, WorkersFit, Typed, Step, Call, Claim
  <2>1. CASE Step(w) \in signed
    BY <1>2, <2>0, <2>1 DEF Claim, SignedInv, Sent
  <2>2. CASE Step(w) \notin signed
    <3>1. signed' = signed \cup {Step(w)}
      BY <1>2, <2>2 DEF Claim
    <3>2. CASE Step(w)[1] = "source"
      <4>1. Step(w) = Source(Call(w))
        BY <2>0, <3>2, StepShape DEF Typed
      <4>2. lease' = [lease EXCEPT ![Call(w)] = my[w].lease] /\ my[w].lease \in Nat
        BY <1>2, <2>0, <2>2, <3>2 DEF Claim, Fit
      <4>3. \A c \in Calls : c # Call(w) => Source(c) # Step(w) /\ lease'[c] = lease[c]
        BY <4>1, <4>2 DEF Source, TypeOK
      <4>4. lease'[Call(w)] \in Nat
        BY <2>0, <4>2 DEF TypeOK
      <4> QED BY <2>0, <2>2, <3>1, <4>1, <4>3, <4>4 DEF SignedInv, Sent
    <3>3. CASE Step(w)[1] # "source"
      <4>1. lease' = lease /\ \A c \in Calls : Source(c) # Step(w)
        BY <1>2, <2>2, <3>3, SourceIsStep DEF Claim
      <4> QED BY <2>0, <3>1, <4>1 DEF SignedInv, Sent
    <3> QED BY <3>2, <3>3
  <2> QED BY <2>1, <2>2
<1>3. ASSUME NEW w \in Workers, Send(w)
      PROVE  /\ SignedInv'
             /\ \A c \in Calls : Source(c) \in signed => lease'[c] = lease[c]
  <2>1. Step(w) \in signed /\ UNCHANGED <<signed, lease>>
    BY <1>3, SendIs DEF Send, WorkersFit, Fit, Step, tables
  <2>2. sends' = sends \/ sends' = [sends EXCEPT ![Step(w)] = @ + 1]
    BY <1>3 DEF Send
  <2>3. Sent' \subseteq Sent \cup {Step(w)}
    BY <2>2 DEF Sent, TypeOK
  <2> QED BY <2>1, <2>3 DEF SignedInv
<1> QED BY <1>1, <1>2, <1>3, NextIs

(* A step is sent once, on grounds that are final and stay so. *)
LEMMA GroundsStep ==
    ASSUME TypeOK, ChainsInv, WorkersFit, GroundsAreFinal, Next
    PROVE  GroundsAreFinal' /\ Sent \subseteq Sent'
<1>0. WorkersTyped /\ final.executed \subseteq final'.executed
  BY WorkersAreTyped, Grows
<1>1. CASE UNCHANGED sends
  BY <1>0, <1>1 DEF GroundsAreFinal, Sent
<1>2. ASSUME NEW w \in Workers, Send(w), sends' # sends PROVE GroundsAreFinal' /\ Sent \subseteq Sent'
  <2>1. /\ Step(w) \in Steps /\ Grounds(Step(w)) \subseteq final.executed
        /\ Step(w) \notin Sent /\ sends' = [sends EXCEPT ![Step(w)] = @ + 1]
    BY <1>0, <1>2 DEF Send, WorkersTyped, Typed, WorkersFit, Fit, Step, StepsOf
  <2>2. sends[Step(w)] = 0
    BY <2>1 DEF Sent, TypeOK
  <2>3. \A s \in Steps : sends'[s] = IF s = Step(w) THEN 1 ELSE sends[s]
    BY <2>1, <2>2 DEF TypeOK
  <2>4. Sent' = Sent \cup {Step(w)}
    BY <2>1, <2>3 DEF Sent, TypeOK
  <2> QED BY <1>0, <2>1, <2>3, <2>4 DEF GroundsAreFinal, Sent
<1>3. Quiet \/ ChainStep \/ (\E w \in Workers : Claim(w) \/ Verify(w)) => UNCHANGED sends
  BY QuietIs, ChainStepIs, ClaimIs, VerifyIs
<1> QED BY <1>1, <1>2, <1>3, NextIs

(* What the contracts let through. *)
LEMMA ExecutableTells ==
    ASSUME NEW k, NEW s, NEW l, Executable(k, s, l)
    PROVE  /\ s[1] = "source" => l \in Nat /\ k.time <= l
           /\ s[1] = "confirm" => Did(k, "accept", s[2])
           /\ s[1] = "submit" => Did(k, "confirm", s[2])
           /\ s[1] \in {"complete", "refund"} => Did(k, "submit", s[2])
<1>1. s[1] = "source" => l \in Nat /\ k.time <= l
  BY DEF Executable
<1>2. s[1] = "confirm" => Status(k, s[2]) = 1
  BY DEF Executable
<1>3. s[1] = "submit" => Status(k, s[2]) = 2
  BY DEF Executable
<1>4. s[1] \in {"complete", "refund"} => Status(k, s[2]) = 3
  BY DEF Executable
<1> QED BY <1>1, <1>2, <1>3, <1>4, StatusTells

(* The change of the chain, when it changes. *)
LEMMA MineKeeps ==
    ASSUME TypeOK, ChainsInv, NEW s \in Steps, Mine(s)
    PROVE  ChainsInv' /\ \A c \in Calls : Funded(head', c) /\ ~Funded(head, c) =>
                             s = Source(c) /\ head.time <= lease[c]
<1>0. /\ s \in Sent /\ UNCHANGED <<sends, lease, final>>
      /\ final.time \in Int /\ head.time \in Int /\ head \in Chains /\ final \in Chains
  BY DEF Mine, tables, TypeOK, Chains
<1> DEFINE l == IF s[1] = "source" THEN lease[s[2]] ELSE NoLease
<1>1. CASE Executable(head, s, l)
  <2>1. head' = [head EXCEPT !.executed = @ \cup {s}]
    BY <1>1 DEF Mine
  <2>2. /\ head'.executed = head.executed \cup {s} /\ head'.reverted = head.reverted
        /\ head'.time = head.time
    BY <1>0, <2>1 DEF Chains
  <2>3. /\ s[1] = "source" => l \in Nat /\ head.time <= l
        /\ s[1] = "confirm" => Did(head, "accept", s[2])
        /\ s[1] = "submit" => Did(head, "confirm", s[2])
        /\ s[1] \in {"complete", "refund"} => Did(head, "submit", s[2])
    BY <1>1, ExecutableTells
  <2>4. InOrder(head')
    <3> SUFFICES ASSUME NEW x \in Children
                 PROVE  /\ Did(head', "confirm", x) => Did(head', "accept", x)
                        /\ Did(head', "submit", x) => Did(head', "confirm", x)
                        /\ Did(head', "complete", x) \/ Did(head', "refund", x) => Did(head', "submit", x)
      BY DEF InOrder
    <3>1. \A k : Did(head', k, x) <=> Did(head, k, x) \/ s = <<k, x>>
      BY <2>2 DEF Did
    <3>2. /\ Did(head, "confirm", x) => Did(head, "accept", x)
          /\ Did(head, "submit", x) => Did(head, "confirm", x)
          /\ Did(head, "complete", x) \/ Did(head, "refund", x) => Did(head, "submit", x)
      BY DEF ChainsInv, InOrder
    <3>3. s = <<"confirm", x>> => Did(head, "accept", x)
      BY <2>3
    <3>4. s = <<"submit", x>> => Did(head, "confirm", x)
      BY <2>3
    <3>5. s = <<"complete", x>> \/ s = <<"refund", x>> => Did(head, "submit", x)
      BY <2>3
    <3> QED BY <3>1, <3>2, <3>3, <3>4, <3>5
  <2>5. ASSUME NEW c \in Calls, s = Source(c) PROVE head.time <= lease[c]
    BY <2>3, <2>5, SourceIsStep
  <2>6. \A c \in Calls : Source(c) \in head'.executed \ final'.executed => final'.time <= lease'[c]
    <3> SUFFICES ASSUME NEW c \in Calls, Source(c) \in head'.executed, Source(c) \notin final.executed
                 PROVE  final.time <= lease[c]
      BY <1>0
    <3>1. CASE s = Source(c)
      <4>1. s[1] = "source" /\ s[2] = c
        BY <3>1, SourceIsStep
      <4>2. lease[c] \in Nat /\ head.time <= lease[c]
        BY <2>3, <4>1
      <4> QED BY <1>0, <4>2 DEF ChainsInv
    <3>2. CASE s # Source(c)
      BY <2>2, <3>2 DEF ChainsInv
    <3> QED BY <3>1, <3>2
  <2>7. Sent' = Sent /\ Known' \cup final'.reverted \subseteq Sent
    BY <1>0, <2>2 DEF Sent, Known, ChainsInv
  <2>8. ChainsInv'
    BY <1>0, <2>2, <2>4, <2>6, <2>7 DEF ChainsInv
  <2>9. \A c \in Calls : Funded(head', c) /\ ~Funded(head, c) => s = Source(c)
    BY <2>2 DEF Funded
  <2> QED BY <2>5, <2>8, <2>9
<1>2. CASE ~Executable(head, s, l)
  <2>1. head' = [head EXCEPT !.reverted = @ \cup {s}]
    BY <1>2 DEF Mine
  <2>2. head'.executed = head.executed /\ head'.reverted = head.reverted \cup {s} /\ head'.time = head.time
    BY <1>0, <2>1 DEF Chains
  <2>3. Sent' = Sent /\ Known' \cup final'.reverted \subseteq Sent
    BY <1>0, <2>2 DEF Sent, Known, ChainsInv
  <2>4. ChainsInv'
    BY <1>0, <2>2, <2>3 DEF ChainsInv, InOrder, Did
  <2> QED BY <2>2, <2>4 DEF Funded
<1> QED BY <1>1, <1>2

LEMMA ChainsStep ==
    ASSUME TypeOK, ChainsInv, WorkersFit, SignedInv, GroundsAreFinal, Next
    PROVE  ChainsInv'
<1>0. /\ \A c \in Calls : Source(c) \in signed => lease'[c] = lease[c]
      /\ Sent \subseteq Sent'
      /\ head \in Chains /\ final \in Chains /\ head.time \in Int /\ final.time \in Int
  BY SignedStep, GroundsStep DEF TypeOK, Chains
<1>1. CASE UNCHANGED <<head, final>>
  <2>1. \A c \in Calls : Source(c) \in head.executed => lease'[c] = lease[c]
    BY <1>0 DEF ChainsInv, Known, SignedInv
  <2>2. Known' \cup final'.reverted \subseteq Sent'
    BY <1>0, <1>1 DEF ChainsInv, Known
  <2> QED BY <1>1, <2>1, <2>2 DEF ChainsInv, InOrder, Did
<1>2. ASSUME NEW n \in Nullifiers, SpendElsewhere(n) PROVE ChainsInv'
  <2>1. /\ UNCHANGED <<sends, lease, final>>
        /\ head'.executed = head.executed /\ head'.reverted = head.reverted /\ head'.time = head.time
    BY <1>0, <1>2 DEF SpendElsewhere, tables, Chains
  <2> QED BY <2>1 DEF ChainsInv, InOrder, Did, Known, Sent
<1>3. CASE Later
  <2>1. /\ UNCHANGED <<sends, lease, final>>
        /\ head'.executed = head.executed /\ head'.reverted = head.reverted /\ head'.time = head.time + 1
    BY <1>0, <1>3 DEF Later, tables, Chains
  <2> QED BY <1>0, <2>1 DEF ChainsInv, InOrder, Did, Known, Sent
<1>4. CASE Finalize
  <2>1. UNCHANGED <<sends, lease, head>> /\ final' = head
    BY <1>4 DEF Finalize, tables
  <2> QED BY <1>0, <2>1 DEF ChainsInv, Known, Sent
<1>5. CASE Reorganise
  <2>1. UNCHANGED <<sends, lease, final>> /\ head' = final
    BY <1>5 DEF Reorganise, tables
  <2> QED BY <1>0, <2>1 DEF ChainsInv, Known, Sent
<1>6. Quiet \/ (\E w \in Workers : Claim(w) \/ Verify(w) \/ Send(w)) => UNCHANGED <<head, final>>
  BY QuietIs, ClaimIs, VerifyIs, SendIs
<1> QED BY <1>1, <1>2, <1>3, <1>4, <1>5, <1>6, MineKeeps, NextIs DEF ChainStep

----------------------------------------------------------------------------
(* Retirement *)

LEMMA GotoIs ==
    ASSUME WorkersTyped, NEW w \in Workers, NEW p, NEW m, Goto(w, p, m)
    PROVE  /\ pc'[w] = p /\ my'[w] = m
           /\ \A v \in Workers \ {w} : pc'[v] = pc[v] /\ my'[v] = my[v]
  BY DEF WorkersTyped, Goto

Elsewhere == Places \ {"send", "verify"}

(* Only the fence leads to a broadcast, and only the locks to a retirement. *)
LEMMA Arrives ==
    ASSUME TypeOK, Next, NEW v \in Workers, pc'[v] \in {"send", "verify"}
    PROVE  (pc'[v] = pc[v] /\ my'[v] = my[v]) \/ Fence(v) \/ LockInputs(v)
<1>0. WorkersTyped
  BY WorkersAreTyped
<1>1. ASSUME NEW w \in Workers, NEW p \in Elsewhere, NEW m, Goto(w, p, m)
      PROVE  pc'[v] = pc[v] /\ my'[v] = my[v]
  <2>1. v # w
    BY <1>0, <1>1, GotoIs DEF Elsewhere
  <2> QED BY <1>0, <1>1, <2>1, GotoIs
<1>2. ASSUME NEW w \in Workers, NEW q \in {"walk", "idle"}, RetainThen(w, q) \/ Leave(w)
      PROVE  pc'[v] = pc[v] /\ my'[v] = my[v]
  BY <1>1, <1>2 DEF RetainThen, Leave, Elsewhere, Places
<1>3. ASSUME NEW w \in Workers, NEW s, NEW rec, Take(w, s, rec)
      PROVE  pc'[v] = pc[v] /\ my'[v] = my[v]
  <2>1. PICK p \in {"outcome", "prepare"} : Goto(w, p, [rec EXCEPT !.step = s])
    BY <1>3 DEF Take
  <2>2. p \in Elsewhere
    BY DEF Elsewhere, Places
  <2> QED BY <1>1, <2>1, <2>2
<1>4. ASSUME NEW w \in Workers, Walk(w) PROVE pc'[v] = pc[v] /\ my'[v] = my[v]
  <2>1. \/ Leave(w)
        \/ \E m : Goto(w, "walk", m)
        \/ \E s, rec : Take(w, s, rec)
    <3>1. CASE WalkChild(w)
      BY <3>1 DEF WalkChild
    <3>2. CASE ~WalkChild(w)
      BY <1>4, <3>2 DEF Walk
    <3> QED BY <3>1, <3>2
  <2>2. "walk" \in Elsewhere
    BY DEF Elsewhere, Places
  <2> QED BY <1>1, <1>2, <1>3, <2>1, <2>2
<1>5. ASSUME NEW w \in Workers, NEW c \in Calls, Begin(w, c) PROVE pc'[v] = pc[v] /\ my'[v] = my[v]
  <2>1. \E p \in {"retire", "walk", "preflight"} : \E m : Goto(w, p, m)
    BY <1>5 DEF Begin
  <2> QED BY <1>1, <2>1 DEF Elsewhere, Places
<1>6. ASSUME NEW w \in Workers, Prepare(w) \/ Claim(w) \/ Send(w) \/ Outcome(w)
      PROVE  pc'[v] = pc[v] /\ my'[v] = my[v]
  <2>1. Leave(w) \/ \E p \in {"claim", "outcome", "fence", "walk"} : \E m : Goto(w, p, m)
    BY <1>6 DEF Prepare, Claim, Send, Outcome
  <2> QED BY <1>1, <1>2, <2>1 DEF Elsewhere, Places
<1>7. ASSUME NEW w \in Workers, Verify(w) \/ Throw(w) \/ Preflight(w)
      PROVE  pc'[v] = pc[v] /\ my'[v] = my[v]
  <2>1. Leave(w) \/ RetainThen(w, "walk")
    BY <1>7 DEF Verify, Throw, Preflight
  <2> QED BY <1>2, <2>1
<1>8. ASSUME NEW w \in Workers, Fence(w) \/ LockInputs(w), w # v
      PROVE  pc'[v] = pc[v] /\ my'[v] = my[v]
  <2>1. Leave(w) \/ \E p, m : Goto(w, p, m)
    BY <1>8 DEF Fence, LockInputs, RetainThen
  <2> QED BY <1>0, <1>2, <1>8, <2>1, GotoIs
<1>9. ChainStep \/ (\E x \in Children : Attest(x)) => UNCHANGED <<pc, my>>
  BY ChainStepIs DEF Attest
<1> QED BY <1>4, <1>5, <1>6, <1>7, <1>8, <1>9 DEF Next, WorkerStep, ChainStep

(* A withdrawal becomes launched only as its worker passes the fence, which   *)
(* no retirement holds and no release has closed.                            *)
LEMMA LaunchStep ==
    ASSUME TypeOK, WorkersFit, Next, NEW c \in Calls, Launched(c)', ~Launched(c)
    PROVE  ~Locked(c) /\ ~IsRetired(c)
<1>0. WorkersTyped
  BY WorkersAreTyped
<1>1. ASSUME NEW v \in Workers, pc'[v] = "send", my'[v].step = Source(c)
      PROVE  ~Locked(c) /\ ~IsRetired(c)
  <2>1. Fence(v)
    <3>1. ~(pc'[v] = pc[v] /\ my'[v] = my[v])
      BY <1>1 DEF Launched
    <3>2. CASE LockInputs(v)
      <4>1. Leave(v) \/ \E m : Goto(v, "verify", m)
        BY <3>2 DEF LockInputs
      <4> QED BY <1>0, <1>1, <4>1, GotoIs DEF Leave
    <3> QED BY <1>1, <3>1, <3>2, Arrives
  <2>2. ~Leave(v)
    BY <1>0, <1>1, GotoIs DEF Leave
  <2>3. ~Locked(Call(v)) /\ ( \/ IsFresh(Call(v)) /\ Reserve(Call(v)) /\ Goto(v, "send", my[v])
                              \/ IsPrior(Call(v)) /\ Goto(v, "send", my[v]) /\ UNCHANGED storeVars )
    BY <2>1, <2>2 DEF Fence, RetainThen
  <2>4. my'[v] = my[v]
    BY <1>0, <2>3, GotoIs
  <2>5. pc[v] = "fence" /\ Typed("fence", my[v]) /\ Call(v) = my[v].call
    BY <1>0, <2>1 DEF Fence, WorkersTyped, Call
  <2>6. Source(c) \in StepsOf(Call(v)) /\ Call(v) \in Calls
    BY <1>1, <2>4, <2>5 DEF Typed
  <2>7. Call(v) = c
    BY <2>6, StepShape, SourceIsStep
  <2> QED BY <2>3, <2>7 DEF IsPrior, IsFresh
<1>2. CASE Source(c) \in Sent'
  <2>1. sends' # sends
    BY <1>2 DEF Sent, Launched
  <2>2. PICK w \in Workers : Send(w)
    <3>1. Quiet \/ ChainStep \/ (\E w \in Workers : Claim(w) \/ Verify(w)) => UNCHANGED sends
      BY QuietIs, ChainStepIs, ClaimIs, VerifyIs
    <3> QED BY <2>1, <3>1, NextIs
  <2>3. pc[w] = "send" /\ sends' = [sends EXCEPT ![Step(w)] = @ + 1] /\ Step(w) = my[w].step
    BY <2>1, <2>2 DEF Send, Step
  <2>4. Sent' \subseteq Sent \cup {Step(w)}
    BY <2>3 DEF Sent, TypeOK
  <2> QED BY <1>2, <2>3, <2>4 DEF Launched
<1> QED BY <1>1, <1>2 DEF Launched

LEMMA LaunchedIsSigned ==
    ASSUME WorkersFit, SignedInv, NEW c \in Calls, Launched(c)
    PROVE  Source(c) \in signed
  BY DEF Launched, WorkersFit, Fit, SignedInv

(* While the locks are held, nothing unseen is launched. *)
LEMMA LocksStep ==
    ASSUME TypeOK, WorkersFit, SignedInv, RetiredInv, Next,
           NEW w \in Workers, NEW c, pc'[w] = "verify", my'[w].call = c, Launched(c)'
    PROVE  Source(c) \in my'[w].rows
<1>0. WorkersTyped
  BY WorkersAreTyped
<1>1. CASE pc'[w] = pc[w] /\ my'[w] = my[w]
  <2>1. pc[w] = "verify" /\ my[w].call = c /\ c \in Calls
    BY <1>0, <1>1 DEF WorkersTyped, Typed
  <2>2. InputsOf[my[w].call] \cap InputsOf[c] # {}
    BY <2>1, InputsAssumption
  <2>3. Locked(c)
    BY <2>1, <2>2 DEF Locked
  <2>4. Launched(c)
    BY <2>1, <2>3, LaunchStep
  <2> QED BY <1>1, <2>1, <2>4 DEF RetiredInv
<1>2. CASE LockInputs(w)
  <2>1. ~Leave(w)
    BY <1>0, GotoIs DEF Leave
  <2>2. Goto(w, "verify", [my[w] EXCEPT !.rows = signed \cap StepsOf(Call(w))])
    BY <1>2, <2>1 DEF LockInputs
  <2>3. my[w] \in Locals /\ my[w].call \in Calls /\ Call(w) = my[w].call /\ UNCHANGED storeVars
    BY <1>0, <1>2 DEF WorkersTyped, Typed, LockInputs, Call, tables
  <2>4. my'[w] = [my[w] EXCEPT !.rows = signed \cap StepsOf(Call(w))]
    BY <1>0, <2>2, GotoIs
  <2>5. my[w].call = c /\ my'[w].rows = signed \cap StepsOf(c)
    BY <2>3, <2>4 DEF Locals
  <2>6. UNCHANGED sends /\ pc[w] = "retire"
    BY <1>2 DEF LockInputs
  <2>7. Launched(c)
    <3>1. CASE Source(c) \in Sent'
      BY <2>6, <3>1 DEF Launched, Sent
    <3>2. ASSUME NEW v \in Workers, pc'[v] = "send", my'[v].step = Source(c) PROVE Launched(c)
      <4>1. v # w
        BY <3>2
      <4>2. pc'[v] = pc[v] /\ my'[v] = my[v]
        BY <1>0, <2>2, <4>1, GotoIs
      <4> QED BY <3>2, <4>2 DEF Launched
    <3> QED BY <3>1, <3>2 DEF Launched
  <2> QED BY <2>3, <2>5, <2>7, LaunchedIsSigned, SourceIsStep
<1>3. ~Fence(w)
  <2>1. ASSUME Fence(w) PROVE FALSE
    <3>1. Leave(w) \/ Goto(w, "send", my[w])
      BY <2>1 DEF Fence, RetainThen
    <3> QED BY <1>0, <3>1, GotoIs DEF Leave
  <2> QED BY <2>1
<1> QED BY <1>1, <1>2, <1>3, Arrives

(* Only a verified retirement releases a fence. *)
LEMMA ReleaseStep ==
    ASSUME TypeOK, Next, NEW c \in Calls, rowStatus'[c] = "released", rowStatus[c] # "released"
    PROVE  \E w \in Workers : Verify(w) /\ Retirable(w) /\ Call(w) = c
<1>1. ASSUME NEW w \in Workers, NEW p, RetainThen(w, p), Call(w) \in Calls PROVE FALSE
  <2>1. Reserve(Call(w)) \/ UNCHANGED rowStatus
    BY <1>1 DEF RetainThen, storeVars
  <2>2. rowStatus' = [rowStatus EXCEPT ![Call(w)] = "retained"] \/ UNCHANGED rowStatus
    BY <2>1 DEF Reserve
  <2> QED BY <2>2 DEF TypeOK, StoreTypeOK
<1>2. rowStatus' # rowStatus
  OBVIOUS
<1>3. ASSUME NEW w \in Workers, Preflight(w) \/ Fence(w) PROVE FALSE
  <2>1. Call(w) \in Calls
    BY <1>3, WorkersAreTyped DEF Preflight, Fence, WorkersTyped, Typed, Call
  <2>2. (\E p : RetainThen(w, p)) \/ UNCHANGED rowStatus
    BY <1>3 DEF Preflight, Fence, storeVars
  <2> QED BY <1>1, <1>2, <2>1, <2>2
<1>4. ASSUME NEW w \in Workers,
             \/ LockInputs(w) \/ Walk(w) \/ Prepare(w) \/ Claim(w) \/ Send(w) \/ Outcome(w)
             \/ Throw(w) \/ \E d \in Calls : Begin(w, d)
      PROVE  FALSE
  BY <1>2, <1>4 DEF LockInputs, Walk, Prepare, Claim, Send, Outcome, Throw, Begin, tables, storeVars
<1>5. ASSUME NEW x \in Children, Attest(x) PROVE FALSE
  BY <1>2, <1>5 DEF Attest, tables, storeVars
<1>6. ChainStep => FALSE
  BY <1>2, ChainStepIs DEF tables, storeVars
<1>7. PICK w \in Workers : Verify(w)
  BY <1>3, <1>4, <1>5, <1>6 DEF Next, WorkerStep, ChainStep
<1>8. Retirable(w) /\ Retire(Call(w))
  BY <1>2, <1>7 DEF Verify, storeVars
<1>9. rowStatus' = [rowStatus EXCEPT ![Call(w)] = "released"]
  BY <1>8 DEF Retire
<1>10. Call(w) = c
  BY <1>9 DEF TypeOK, StoreTypeOK
<1> QED BY <1>7, <1>8, <1>10

(* A released fence stays safe, and is safe when it is released. *)
LEMMA DeadStep ==
    ASSUME IInv, Next, NEW c \in Calls, rowStatus'[c] = "released"
    PROVE  ~Funded(head', c) /\ (Launched(c)' => lease'[c] < final'.time)
<1>0. /\ TypeOK /\ ChainsInv /\ WorkersFit /\ SignedInv /\ RetiredInv /\ GroundsAreFinal
      /\ head.time \in Int /\ final.time \in Int /\ final'.time \in Int
      /\ final.time <= final'.time /\ WorkersTyped
  <2>1. TypeOK /\ ChainsInv
    BY DEF IInv
  <2>2. head.time \in Int /\ final.time \in Int
    BY <2>1 DEF TypeOK, Chains
  <2>3. final' = final \/ final' = head
    BY QuietIs, ClaimIs, SendIs, VerifyIs, NextIs
       DEF ChainStep, Mine, SpendElsewhere, Later, Finalize, Reorganise
  <2> QED BY <2>1, <2>2, <2>3, Grows, WorkersAreTyped DEF IInv
<1>1. CASE rowStatus[c] = "released"
  <2>1. ~Funded(head, c) /\ (Launched(c) => lease[c] < final.time)
    BY <1>0, <1>1 DEF RetiredInv
  <2>2. Launched(c)' => Launched(c)
    BY <1>0, <1>1, LaunchStep DEF IsRetired
  <2>3. Launched(c) => lease'[c] = lease[c] /\ lease[c] \in Nat
    BY <1>0, LaunchedIsSigned, SignedStep DEF SignedInv
  <2>4. ASSUME Funded(head', c) PROVE FALSE
    <3>1. ~Funded(final, c)
      BY <1>0, <2>1 DEF ChainsInv, Funded
    <3>2. PICK s \in Steps : Mine(s)
      <4>1. Quiet \/ (\E w \in Workers : Claim(w) \/ Verify(w) \/ Send(w)) => UNCHANGED head
        BY QuietIs, ClaimIs, VerifyIs, SendIs
      <4>2. (\E n \in Nullifiers : SpendElsewhere(n)) \/ Later => head'.executed = head.executed
        BY <1>0 DEF SpendElsewhere, Later, TypeOK, Chains
      <4>3. Finalize \/ Reorganise => head' = head \/ head' = final
        BY DEF Finalize, Reorganise
      <4> QED BY <2>1, <2>4, <3>1, <4>1, <4>2, <4>3, NextIs DEF ChainStep, Funded
    <3>3. s = Source(c) /\ head.time <= lease[c]
      BY <1>0, <2>1, <2>4, <3>2, MineKeeps
    <3>4. Launched(c)
      BY <3>2, <3>3 DEF Mine, Launched
    <3> QED BY <1>0, <2>1, <2>3, <3>3, <3>4 DEF ChainsInv
  <2> QED BY <1>0, <2>1, <2>2, <2>3, <2>4
<1>2. CASE rowStatus[c] # "released"
  <2>1. PICK w \in Workers : Verify(w) /\ Retirable(w) /\ Call(w) = c
    BY <1>0, <1>2, ReleaseStep
  <2>2. pc[w] = "verify" /\ my[w].call = c /\ UNCHANGED <<signed, lease, sends, head, final>>
    BY <2>1, VerifyIs DEF Verify, Call
  <2>3. InputsOf[my[w].call] \cap InputsOf[c] # {}
    BY <2>2, InputsAssumption
  <2>4. Locked(c)
    BY <2>2, <2>3 DEF Locked
  <2>5. Launched(c)' => Launched(c)
    BY <1>0, <2>4, LaunchStep
  <2>6. ASSUME Launched(c) PROVE lease[c] < final.time
    <3>1. Source(c) \in my[w].rows /\ Source(c) \in signed
      BY <1>0, <2>2, <2>6, LaunchedIsSigned DEF RetiredInv
    <3>2. KnownLease(w) = lease[c] /\ lease[c] # NoLease
      BY <1>0, <2>1, <3>1, CallsAssumption DEF KnownLease, SignedInv
    <3> QED BY <2>1, <3>2 DEF Retirable
  <2>7. ~Funded(final, c)
    BY <2>1 DEF Retirable, Unfunded
  <2>8. ASSUME Funded(head, c) PROVE FALSE
    <3>1. Source(c) \in head.executed \ final.executed /\ Source(c) \in Sent
      BY <1>0, <2>7, <2>8 DEF Funded, ChainsInv, Known
    <3>2. Launched(c) /\ lease[c] \in Nat
      BY <1>0, <3>1 DEF Launched, SignedInv
    <3>3. final.time <= lease[c]
      BY <1>0, <3>1 DEF ChainsInv
    <3> QED BY <1>0, <2>6, <3>2, <3>3
  <2> QED BY <2>2, <2>5, <2>6, <2>8
<1> QED BY <1>1, <1>2

LEMMA RetiredStep ==
    ASSUME IInv, Next
    PROVE  RetiredInv'
<1>0. TypeOK /\ ChainsInv /\ WorkersFit /\ SignedInv /\ RetiredInv
  BY DEF IInv
<1>1. ASSUME NEW w \in Workers, pc'[w] = "verify", Launched(my[w].call)'
      PROVE  Source(my'[w].call) \in my'[w].rows
  <2>1. PICK c : c = my'[w].call
    OBVIOUS
  <2>2. Launched(c)'
    BY <1>1, <2>1
  <2> QED BY <1>0, <1>1, <2>1, <2>2, LocksStep
<1> QED BY <1>1, DeadStep DEF RetiredInv

----------------------------------------------------------------------------
(* The worker is a client of the fence table. *)
LEMMA ClientStep ==
    ASSUME TypeOK, [Next]_vars
    PROVE  [StoreNext]_storeVars
<1>0. \A w \in Workers : pc[w] # "idle" => Call(w) \in Calls
  BY WorkersAreTyped DEF WorkersTyped, Typed, Call
<1>1. ASSUME NEW w \in Workers, NEW p, RetainThen(w, p), Call(w) \in Calls PROVE [StoreNext]_storeVars
  BY <1>1 DEF RetainThen, StoreNext
<1>2. ASSUME NEW w \in Workers, Preflight(w) \/ Fence(w) PROVE [StoreNext]_storeVars
  <2>1. Call(w) \in Calls
    BY <1>0, <1>2 DEF Preflight, Fence
  <2>2. RetainThen(w, "walk") \/ RetainThen(w, "send") \/ UNCHANGED storeVars
    BY <1>2 DEF Preflight, Fence
  <2> QED BY <1>1, <2>1, <2>2
<1>3. ASSUME NEW w \in Workers, Verify(w) PROVE [StoreNext]_storeVars
  <2>1. Call(w) \in Calls /\ (Retire(Call(w)) \/ UNCHANGED storeVars)
    BY <1>0, <1>3 DEF Verify
  <2> QED BY <2>1 DEF StoreNext
<1>4. ASSUME NEW w \in Workers,
             \/ LockInputs(w) \/ Walk(w) \/ Prepare(w) \/ Claim(w) \/ Send(w) \/ Outcome(w)
             \/ Throw(w) \/ \E c \in Calls : Begin(w, c)
      PROVE  UNCHANGED storeVars
  BY <1>4 DEF LockInputs, Walk, Prepare, Claim, Send, Outcome, Throw, Begin, tables
<1>5. (\E x \in Children : Attest(x)) \/ ChainStep \/ UNCHANGED vars => UNCHANGED storeVars
  BY ChainStepIs DEF Attest, tables, vars
<1> QED BY <1>2, <1>3, <1>4, <1>5 DEF Next, WorkerStep, ChainStep

LEMMA TypeStep ==
    ASSUME TypeOK, ChainsInv, WorkersFit, SignedInv, Next
    PROVE  TypeOK'
<1>0. WorkersTyped /\ WorkersTyped'
  BY MovesStep, WorkersAreTyped
<1>1. StoreTypeOK'
  BY ClientStep, StoreTypeStep DEF TypeOK
<1>2. ASSUME NEW w \in Workers, Claim(w)
      PROVE  signed' \subseteq Steps /\ lease' \in [Calls -> Nat \cup {NoLease}]
  <2>1. Step(w) \in Steps /\ my[w].lease \in Nat \cup {NoLease}
    BY <1>0, <1>2 DEF Claim, WorkersTyped, Typed, Locals, Step, StepsOf
  <2>2. lease' = lease \/ lease' = [lease EXCEPT ![Call(w)] = my[w].lease]
    BY <1>2 DEF Claim
  <2>3. signed' \in {signed, signed \cup {Step(w)}}
    BY <1>2 DEF Claim
  <2> QED BY <2>1, <2>2, <2>3 DEF TypeOK
<1>3. signed' \subseteq Steps /\ lease' \in [Calls -> Nat \cup {NoLease}]
  <2>1. Quiet \/ ChainStep \/ (\E w \in Workers : Verify(w) \/ Send(w)) => UNCHANGED <<signed, lease>>
    BY QuietIs, ChainStepIs, VerifyIs, SendIs DEF tables
  <2> QED BY <1>2, <2>1, NextIs DEF TypeOK
<1>4. grant' \in [Calls -> Nat \cup {NoLease}]
  <2>1. ASSUME NEW w \in Workers, Prepare(w) PROVE grant' \in [Calls -> Nat \cup {NoLease}]
    BY <2>1, PrepareMoves
  <2>2. ASSUME NEW w \in Workers,
               \/ LockInputs(w) \/ Verify(w) \/ Preflight(w) \/ Walk(w) \/ Claim(w) \/ Fence(w)
               \/ Send(w) \/ Outcome(w) \/ Throw(w) \/ \E c \in Calls : Begin(w, c)
        PROVE  UNCHANGED grant
    BY <2>2 DEF LockInputs, Verify, Preflight, Walk, Claim, Fence, Send, Outcome, Throw, Begin
  <2>3. ChainStep \/ (\E x \in Children : Attest(x)) => UNCHANGED grant
    BY ChainStepIs DEF Attest
  <2> QED BY <2>1, <2>2, <2>3 DEF TypeOK, Next, WorkerStep, ChainStep
<1>5. sends' \in [Steps -> Nat]
  <2>1. Quiet \/ ChainStep \/ (\E w \in Workers : Verify(w) \/ Claim(w)) => UNCHANGED sends
    BY QuietIs, ChainStepIs, VerifyIs, ClaimIs
  <2>2. ASSUME NEW w \in Workers, Send(w) PROVE sends' \in [Steps -> Nat]
    <3>1. sends' = sends \/ sends' = [sends EXCEPT ![Step(w)] = @ + 1]
      BY <2>2 DEF Send
    <3> QED BY <3>1 DEF TypeOK
  <2> QED BY <2>1, <2>2, NextIs DEF TypeOK
<1>6. head' \in Chains /\ final' \in Chains
  <2>0. head \in Chains /\ final \in Chains
    BY DEF TypeOK
  <2>1. Quiet \/ (\E w \in Workers : Verify(w) \/ Claim(w) \/ Send(w)) => UNCHANGED <<head, final>>
    BY QuietIs, VerifyIs, ClaimIs, SendIs
  <2>2. ASSUME NEW s \in Steps, Mine(s) PROVE head' \in Chains /\ final' = final
    <3>1. \/ head' = [head EXCEPT !.executed = @ \cup {s}]
          \/ head' = [head EXCEPT !.reverted = @ \cup {s}]
      BY <2>2 DEF Mine
    <3> QED BY <2>0, <2>2, <3>1 DEF Mine, Chains
  <2>3. ASSUME NEW n \in Nullifiers, SpendElsewhere(n) PROVE head' \in Chains /\ final' = final
    BY <2>0, <2>3 DEF SpendElsewhere, Chains
  <2>4. Later => head' \in Chains /\ final' = final
    BY <2>0, CallsAssumption DEF Later, Chains
  <2>5. Finalize \/ Reorganise => head' \in {head, final} /\ final' \in {head, final}
    BY DEF Finalize, Reorganise
  <2> QED BY <2>0, <2>1, <2>2, <2>3, <2>4, <2>5, NextIs DEF ChainStep
<1>7. verdict' \in [Children -> {"none", "delivered", "failed"}]
  <2>1. ASSUME NEW x \in Children, Attest(x) PROVE verdict' \in [Children -> {"none", "delivered", "failed"}]
    BY <2>1 DEF Attest, TypeOK
  <2>2. ASSUME NEW w \in Workers,
               WorkerStep(w) \/ Throw(w) \/ \E c \in Calls : Begin(w, c)
        PROVE  UNCHANGED verdict
    BY <2>2 DEF WorkerStep, LockInputs, Verify, Preflight, Walk, Prepare, Claim, Fence, Send, Outcome,
                Throw, Begin
  <2>3. ChainStep => UNCHANGED verdict
    BY ChainStepIs
  <2> QED BY <2>1, <2>2, <2>3 DEF TypeOK, Next, ChainStep
<1>8. faults' \in 0..MaxFaults
  <2>1. UNCHANGED faults \/ Fault
    BY DEF Next, WorkerStep, LockInputs, Verify, Preflight, Walk, Prepare, Claim, Fence, Send, Outcome,
           Throw, Begin, Attest, Mine, SpendElsewhere, Later, Finalize, Reorganise
  <2> QED BY <2>1, CallsAssumption DEF Fault, TypeOK
<1>9. /\ pc' \in [Workers -> Places] /\ my' \in [Workers -> Locals]
      /\ \A w \in Workers : Typed(pc'[w], my'[w])
  BY <1>0 DEF WorkersTyped
<1> QED BY <1>1, <1>3, <1>4, <1>5, <1>6, <1>7, <1>8, <1>9 DEF TypeOK, Typed, Places, Locals

----------------------------------------------------------------------------
(* The theorems *)

LEMMA InvInit == Init => IInv
<1> SUFFICES ASSUME Init PROVE IInv
  OBVIOUS
<1>1. WorkersTyped /\ WorkersFit
  <2>1. pc = [w \in Workers |-> "idle"] /\ my = [w \in Workers |-> Nothing]
    BY DEF Init
  <2>2. Typed("idle", Nothing) /\ Fit("idle", Nothing, signed, final.executed)
    BY NothingFits
  <2>3. "idle" \in Places /\ Nothing \in Locals
    BY <2>2 DEF Typed
  <2> QED BY <2>1, <2>2, <2>3 DEF WorkersTyped, WorkersFit
<1>2. /\ head.executed = {} /\ head.reverted = {} /\ head.time = 0 /\ final = head
      /\ head \in Chains
  BY CallsAssumption DEF Init, Chains
<1>3. Sent = {} /\ sends \in [Steps -> Nat]
  BY DEF Init, Sent
<1>4. TypeOK
  <2>1. StoreTypeOK
    BY StoreTypeInit DEF Init
  <2>2. faults \in 0..MaxFaults
    BY CallsAssumption DEF Init
  <2>3. verdict \in [Children -> {"none", "delivered", "failed"}]
    BY DEF Init
  <2>4. signed \subseteq Steps /\ lease \in [Calls -> Nat \cup {NoLease}]
        /\ grant \in [Calls -> Nat \cup {NoLease}]
    BY DEF Init
  <2> QED BY <1>1, <1>2, <1>3, <2>1, <2>2, <2>3, <2>4 DEF TypeOK, WorkersTyped, Typed, Places, Locals
<1>5. ChainsInv
  BY <1>2, <1>3 DEF ChainsInv, InOrder, Did, Known
<1>6. SignedInv /\ GroundsAreFinal
  BY <1>3 DEF SignedInv, GroundsAreFinal, Init
<1>7. RetiredInv
  BY DEF Init, RetiredInv, StoreInit
<1> QED BY <1>1, <1>4, <1>5, <1>6, <1>7 DEF IInv

LEMMA InvStep ==
    ASSUME IInv, [Next]_vars
    PROVE  IInv'
<1>0. TypeOK /\ ChainsInv /\ WorkersFit /\ SignedInv /\ RetiredInv /\ GroundsAreFinal
  BY DEF IInv
<1>1. CASE Next
  BY <1>0, <1>1, TypeStep, ChainsStep, MovesStep, SignedStep, RetiredStep, GroundsStep DEF IInv
<1>2. CASE UNCHANGED vars
  <2>1. UNCHANGED <<rowStatus, rowHash, signed, lease, grant, sends, head, final, verdict, pc, my, faults>>
    BY <1>2 DEF vars, tables, chain, storeVars
  <2>2. TypeOK'
    BY <1>0, <2>1 DEF TypeOK, StoreTypeOK
  <2>3. ChainsInv' /\ SignedInv' /\ GroundsAreFinal'
    BY <1>0, <2>1 DEF ChainsInv, SignedInv, GroundsAreFinal, Sent, Known, InOrder, Did
  <2>4. WorkersFit'
    BY <1>0, <2>1 DEF WorkersFit
  <2>5. RetiredInv'
    BY <1>0, <2>1 DEF RetiredInv, Launched, Sent, Funded
  <2> QED BY <2>2, <2>3, <2>4, <2>5 DEF IInv
<1> QED BY <1>1, <1>2

THEOREM InvAlways == Spec => []IInv
  BY InvInit, InvStep, PTL DEF Spec

(* Type correctness of the worker and its tables. *)
THEOREM TypeCorrect == Spec => []TypeOK
<1>1. IInv => TypeOK
  BY DEF IInv
<1> QED BY <1>1, InvAlways, PTL

(* No transaction of a payout is broadcast twice, whatever crashes, lost     *)
(* answers and overlapping workers there are, and none is broadcast before   *)
(* what it relies on is final (runPayoutV7Execution, broadcast, outcome).    *)
THEOREM SentOnFinalGrounds == Spec => []GroundsAreFinal
<1>1. IInv => GroundsAreFinal
  BY DEF IInv
<1> QED BY <1>1, InvAlways, PTL

(* A fence that retirePayoutV7SourceLock released protects nothing any more: *)
(* the call is not funded, and every signature of its withdrawal that is out *)
(* has an expiry that finality has passed.                                   *)
THEOREM RetiredStaysDead == Spec => []RetiredIsDead
<1>1. IInv => RetiredIsDead
  BY DEF IInv, RetiredInv, RetiredIsDead, Launched
<1> QED BY <1>1, InvAlways, PTL

(* Nothing is broadcast that has no row in relay_v7_signed_calls: a restart  *)
(* finds every transaction that may be out.                                  *)
THEOREM SentIsSigned == Spec => [](Sent \subseteq signed)
<1>1. IInv => Sent \subseteq signed
  BY DEF IInv, SignedInv
<1> QED BY <1>1, InvAlways, PTL

(* The worker uses the fence table only through its functions: what was      *)
(* proved of the table for any client (StoreFences, StoreJournal) holds of   *)
(* payouts V7 too.                                                           *)
THEOREM WorkerIsClient == Spec => StoreSpec
<1>1. Init => StoreInit
  BY DEF Init
<1>2. IInv /\ [Next]_vars => [StoreNext]_storeVars
  BY ClientStep DEF IInv
<1> QED BY <1>1, <1>2, InvAlways, PTL DEF Spec, StoreSpec

(* Two calls in force never compete for an input, retirements included. *)
THEOREM PayoutFences == Spec => [](FencesDisjoint) /\ JournalOnlyGrows
  BY WorkerIsClient, StoreFences, StoreJournal, PTL
=============================================================================
