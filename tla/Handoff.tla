------------------------------- MODULE Handoff -------------------------------
(***************************************************************************)
(* The handoff by which an approved spoke joins the overlay network        *)
(* (_handoff.py).  The hub builds it for one entity: sealed to the         *)
(* entity's enrollment keys, signed by the ops key, dated for some minutes.*)
(* The spoke fetches it over a path that is not trusted, which may bring   *)
(* any handoff ever built, or an altered one; unwrap_handoff() keeps no    *)
(* memory, so the same handoff opens again while its dates allow.          *)
(*                                                                         *)
(* The overlay key inside is of the network's making (single-use there)    *)
(* and is not modelled.                                                    *)
(***************************************************************************)
EXTENDS Membership

CONSTANTS
  Ttl,                     \* ttl_s of build_handoff()
  HandoffAge, HandoffSkew, \* max_age_s and skew_s of unwrap_handoff()
  MaxHandoffs              \* bound: handoffs built

ASSUME HandoffAssumption ==
  /\ Ttl \in Nat /\ HandoffAge \in Nat /\ HandoffSkew \in Nat
  /\ MaxHandoffs \in Nat

VARIABLES
  built,                   \* how many handoffs were built
  handoffs,                \* the handoffs built
  unwrapped                \* per entity: when it unwrapped one, partial

handoffVars == <<built, handoffs, unwrapped>>

HandoffInit ==
  /\ built = 0 /\ handoffs = {}
  /\ unwrapped = [i \in {} |-> 0]

-----------------------------------------------------------------------------
(* build_handoff(), once the entity is approved.                           *)
BuildHandoff(i) ==
  /\ i \in enlisted /\ built < MaxHandoffs
  /\ built' = built + 1
  /\ \E date \in HubClock :
       handoffs' = handoffs \cup
         {[entity |-> i, issued |-> date, expires |-> date + Ttl,
           genuine |-> TRUE]}
  /\ UNCHANGED <<clockVars, memberVars, unwrapped>>

(* An altered handoff, dated anew and sealed to someone else.              *)
Forged(h, i) == [h EXCEPT !.entity = i, !.expires = Horizon, !.genuine = FALSE]

(* What GET /handoff/{id} may bring the entity i.                          *)
Brought(i) == handoffs \cup {Forged(h, i) : h \in handoffs}

(* Mutant: a handoff past its expiry is as good as a manifest's.           *)
FreshHandoff_Skewed(h) ==
  /\ h.issued <= clock + HandoffSkew
  /\ clock <= h.expires + HandoffSkew
  /\ clock - h.issued <= HandoffAge + HandoffSkew

FreshHandoff(h) ==
  /\ h.issued <= clock + HandoffSkew
  /\ clock <= h.expires
  /\ clock - h.issued <= HandoffAge + HandoffSkew

(* The envelope opens, the ops signature and the spoke id are right.       *)
OpensFor(h, i) == h.entity = i /\ h.genuine

(* The handoff is fetched, and unwrap_handoff() returns.  When it raises,  *)
(* nothing has changed.                                                    *)
UnwrapHandoff(i) ==
  /\ \E h \in Brought(i) : OpensFor(h, i) /\ FreshHandoff(h)
  /\ unwrapped' = [e \in DOMAIN unwrapped \cup {i} |->
                     IF e = i THEN clock ELSE unwrapped[e]]
  /\ UNCHANGED <<clockVars, memberVars, built, handoffs>>

(* The spoke restarts, with its enrollment keys on disk and nothing else.  *)
ForgetHandoff(i) ==
  /\ unwrapped' = [e \in DOMAIN unwrapped \ {i} |-> unwrapped[e]]
  /\ UNCHANGED <<clockVars, memberVars, built, handoffs>>

HandoffStep ==
  \E i \in Entities :
    BuildHandoff(i) \/ UnwrapHandoff(i) \/ ForgetHandoff(i)

-----------------------------------------------------------------------------
HandoffDocs ==
  [entity : Entities, issued : Int, expires : Int, genuine : BOOLEAN]

HandoffOK ==
  /\ built \in 0..MaxHandoffs
  /\ handoffs \subseteq HandoffDocs
  /\ DOMAIN unwrapped \subseteq known
  /\ \A i \in DOMAIN unwrapped : unwrapped[i] \in Int

HandoffBound == Smaller(Ttl, HandoffAge + HandoffSkew) + Lead + Back

(* A spoke opens a handoff only if it was approved, and only while it is   *)
(* approved or HandoffBound after: "A relayed/replayed handoff is useless" *)
(* to anybody else, and soon to itself.                                    *)
HandoffPromise == INSTANCE RecentFacts WITH
  Bound <- HandoffBound, held <- unwrapped

HandoffRecent == HandoffPromise!Spec
=============================================================================
