---------------------------- MODULE RelaySchedules ----------------------------
(***************************************************************************)
(* The schedules under which the PoolV3 bundles of LegacyRelay are relayed:  *)
(* what a heartbeat may publish and what the validation of a bundle then     *)
(* says of the proof that comes back (FeeSchedules).                         *)
(*                                                                         *)
(* An offer is what one heartbeat publishes: [templates, budget, gasPrice,    *)
(* configured, start, nonces], a nonce for each template.                    *)
(***************************************************************************)
EXTENDS LegacyRelay, FeeSchedules

CONSTANTS Pools,    \* the configured pools
          Maximum,  \* the highest fee of each mode
          Validity, \* the longest schedule that is accepted
          Account,  \* the relayer
          Chain,
          Offers

ASSUME OffersAssumption ==
    /\ Maximum \in [{0, 1} -> Nat] /\ Validity \in Nat
    /\ \A o \in Offers :
          /\ o.templates \in Seq(Template(Pools)) /\ DOMAIN o.nonces = DOMAIN o.templates
          /\ o.budget \in Nat /\ o.gasPrice \in Nat /\ o.start \in Nat
          /\ o.configured \in Int

Published(o) ==
    /\ PublishableV3(o.templates, Pools, Maximum, o.budget, o.gasPrice, o.configured, Validity)
    /\ Buildable(o.start, Ttl(o.configured, Validity), o.nonces)

AllHonoured ==
    \A o \in Offers : Published(o) =>
        \A k \in DOMAIN o.templates :
            HonouredThroughout(o.templates[k], Maximum, o.budget, o.gasPrice,
                               Ttl(o.configured, Validity), Validity, Account, Chain,
                               o.nonces[k], o.start)

(* No bundle whose proof was made for a published schedule is turned away    *)
(* for its schedule while the schedule lasts and the gas price is no higher   *)
(* than it was, and none is carried at a loss of budgeted gas.                *)
PublishedIsHonoured == (\E w \in Workers : job[w].bundle \in V3) => AllHonoured
=============================================================================
