---------------------------- MODULE PayoutPromise ----------------------------
(***************************************************************************)
(* What a checkpointed payout promises, with no version, worker, replay or   *)
(* crash in sight: which calls may be handed to the network and when, what   *)
(* may be noted, checkpointed and told of them, and that every step of every *)
(* intent succeeds at most once, in its order, and ends one way.             *)
(*                                                                         *)
(* It speaks of calls only: that an intent was accepted means that an        *)
(* acceptQuote for it has succeeded.                                         *)
(***************************************************************************)
CONSTANTS Intents, Hashes, NoHash

VARIABLES
    payout,   \* the intents of the payout
    bearers,  \* those under which the shared withdrawal is kept
    call,     \* call[h]: [state, step, intents] of the transaction h
    noted,    \* noted[i][s]: the submissions known of a step of an intent
    done,     \* done[i][s]: its checkpoint
    told,     \* told[i][s]: the checkpoint the authority knows
    settled   \* a record of the payout was closed

promiseVars == <<payout, bearers, call, noted, done, told, settled>>

Source == {"acceptQuote", "poolWithdraw"}
Endings == {"completePayout", "proveRelayRefund"}
Order == Source \cup {"confirmEscrowReceipt", "submitPayout"} \cup Endings

(* What must have succeeded before a step does, and what must not.           *)
Before(s) ==
    CASE s = "acceptQuote"          -> {}
      [] s = "poolWithdraw"         -> {"acceptQuote"}
      [] s = "confirmEscrowReceipt" -> Source
      [] s = "submitPayout"         -> {"confirmEscrowReceipt"}
      [] OTHER                      -> {"submitPayout"}

Excluded(s) == IF s \in Endings THEN Endings ELSE {s}

Won(s, i) == \E h \in Hashes : call[h].state = "success" /\ call[h].step = s /\ i \in call[h].intents

PromiseInit ==
    /\ payout \in SUBSET Intents /\ bearers \in SUBSET payout /\ bearers # {}
    /\ call = [h \in Hashes |-> [state |-> "unused", step |-> "acceptQuote", intents |-> {}]]
    /\ noted = [i \in Intents |-> [s \in Order |-> {}]]
    /\ done = [i \in Intents |-> [s \in Order |-> NoHash]]
    /\ told = [i \in Intents |-> [s \in Order |-> NoHash]]
    /\ settled = FALSE

(* A call is handed over when nothing known of its step is done or open; the *)
(* withdrawal when every quote was accepted, and what follows it when its     *)
(* checkpoint is kept wherever it belongs.                                    *)
Due(s, who) ==
    /\ \A i \in who : done[i][s] = NoHash /\ \A g \in noted[i][s] : call[g].state = "failed"
    /\ s = "poolWithdraw" => \A i \in payout : Won("acceptQuote", i)
    /\ s \notin Source => \A i \in bearers : done[i]["poolWithdraw"] # NoHash

HandOver(h) ==
    /\ call[h].state = "unused"
    /\ \E s \in Order : \E who \in IF s = "poolWithdraw" THEN {payout} ELSE {{i} : i \in payout} :
          /\ call' = [call EXCEPT ![h] = [state |-> "mempool", step |-> s, intents |-> who]]
          /\ Due(s, who)
    /\ UNCHANGED <<payout, bearers, noted, done, told, settled>>

Win(h) ==
    /\ call[h].state = "mempool"
    /\ \A i \in call[h].intents :
          /\ \A s \in Before(call[h].step) : Won(s, i)
          /\ \A s \in Excluded(call[h].step) : ~Won(s, i)
    /\ call' = [call EXCEPT ![h].state = "success"]
    /\ UNCHANGED <<payout, bearers, noted, done, told, settled>>

Lose(h) ==
    /\ call[h].state = "mempool"
    /\ call' = [call EXCEPT ![h].state = "failed"]
    /\ UNCHANGED <<payout, bearers, noted, done, told, settled>>

Note(i, h) ==
    /\ call[h].state # "unused" /\ i \in call[h].intents
    /\ noted' = [noted EXCEPT ![i][call[h].step] = @ \cup {h}]
    /\ UNCHANGED <<payout, bearers, call, done, told, settled>>

(* A checkpoint is a success, is final, and stands for one intent only.      *)
Checkpoint(i, h) ==
    /\ call[h].state = "success" /\ i \in call[h].intents
    /\ done[i][call[h].step] = NoHash
    /\ \A k \in Intents, s \in Order : done[k][s] # h
    /\ done' = [done EXCEPT ![i][call[h].step] = h]
    /\ UNCHANGED <<payout, bearers, call, noted, told, settled>>

Tell(i, s) ==
    /\ done[i][s] # NoHash
    /\ told' = [told EXCEPT ![i][s] = done[i][s]]
    /\ UNCHANGED <<payout, bearers, call, noted, done, settled>>

Close ==
    /\ \A i \in payout : \E s \in Endings : Won(s, i)
    /\ settled' = TRUE
    /\ UNCHANGED <<payout, bearers, call, noted, done, told>>

PromiseNext ==
    \/ \E h \in Hashes : HandOver(h) \/ Win(h) \/ Lose(h)
    \/ \E i \in payout : \/ \E h \in Hashes : Note(i, h) \/ Checkpoint(i, h)
                         \/ \E s \in Order : Tell(i, s)
    \/ Close

PromiseSpec == PromiseInit /\ [][PromiseNext]_promiseVars
=============================================================================
