--------------------------- MODULE PolicyRegister ---------------------------
(***************************************************************************)
(* What the policy identity store promises to its callers: the policies    *)
(* that were accepted form a chain whose revision never goes back, and a   *)
(* revision is never accepted for two identities.  A program that writes   *)
(* the record without taking part in the protocol ends the promise for     *)
(* what was accepted before.                                               *)
(***************************************************************************)
EXTENDS Naturals

CONSTANTS Catalogs,    \* signed policy catalogs, records [rev, id]
          NoCatalog    \* nothing accepted yet

VARIABLE last          \* the catalog accepted last

Init == last = NoCatalog

Accept(c) ==
  /\ last # NoCatalog => c.rev > last.rev
  /\ last' = c

Forget == last' = NoCatalog

Next == Forget \/ \E c \in Catalogs : Accept(c)

Spec == Init /\ [][Next]_last
=============================================================================
