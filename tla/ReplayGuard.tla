----------------------------- MODULE ReplayGuard -----------------------------
(***************************************************************************)
(* ReplayGuard (_signing.py): a dict from request id to expiry time.  The  *)
(* three operators are the three parts of check(): drop what expired, ask  *)
(* whether the id is known, record it.  Callers compose them.              *)
(***************************************************************************)
EXTENDS Integers

CONSTANT Ttl               \* ttl_s, 3600 by default

ASSUME TtlAssumption == Ttl \in Nat

(* Mutants: plausible slips in check().                                    *)
Prune_PlusOne(table, now) ==
  [id \in {i \in DOMAIN table : table[i] >= now + 1} |-> table[id]]
Expiry_NoTtl(now) == now + 1

Prune(table, now) ==
  [id \in {i \in DOMAIN table : table[i] >= now} |-> table[id]]

Expiry(now) == now + Ttl

Record(table, id, now) ==
  [i \in DOMAIN table \cup {id} |-> IF i = id THEN Expiry(now) ELSE table[i]]

NothingSeen == [i \in {} |-> 0]
=============================================================================
