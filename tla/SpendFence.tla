----------------------------- MODULE SpendFence -----------------------------
(***************************************************************************)
(* What the relayer promises about a private spend, with no process,       *)
(* database or crash in sight: a call takes a fence over its input         *)
(* nullifiers, the fences held at one time are disjoint, and a call that   *)
(* holds its fence is handed to the network at most once.                  *)
(*                                                                         *)
(* The promise is the one bot.ts states where it takes the fence:          *)
(* "Retention precedes submission. A lost send response never authorizes   *)
(* another broadcast."                                                     *)
(***************************************************************************)
CONSTANTS Calls,        \* the pool calls, identified by callHash
          Nullifiers,   \* the inputs a call consumes: (pool, nullifier) pairs
          InputsOf,     \* InputsOf[c] is the set of nullifiers c consumes
          Hashes        \* transaction hashes

VARIABLES held,         \* calls whose fence is held
          handed        \* pairs <<h, c>>: transaction h carried call c

fenceVars == <<held, handed>>

FenceInit == held = {} /\ handed = {}

(* c takes its fence: no held call shares an input with it. *)
Take(c) ==
    /\ \A d \in held : InputsOf[c] \cap InputsOf[d] = {}
    /\ held' = held \cup {c}
    /\ UNCHANGED handed

(* c is handed to the network, once, as a transaction nobody used before. *)
HandOver(c, h) ==
    /\ c \in held
    /\ \A pair \in handed : pair[1] # h /\ pair[2] # c
    /\ handed' = handed \cup {<<h, c>>}
    /\ UNCHANGED held

FenceNext == \E c \in Calls : Take(c) \/ \E h \in Hashes : HandOver(c, h)

FenceSpec == FenceInit /\ [][FenceNext]_fenceVars
=============================================================================
