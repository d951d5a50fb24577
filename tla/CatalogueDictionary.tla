------------------------- MODULE CatalogueDictionary -------------------------
(***************************************************************************)
(* What the compiled catalogue promises its runtime reader (spec 2, 4.4):  *)
(* a dictionary from content fingerprint to the title and mapping set it   *)
(* identifies.  Registering a fingerprint adds one entry; an entry, once   *)
(* made, is never changed or removed, so the first title that registered   *)
(* a fingerprint is the one the reader finds.                              *)
(***************************************************************************)
CONSTANTS
  Keys    \* the fingerprints that may be registered

VARIABLES
  dict    \* fingerprint -> what the reader gets for it

\* One new fingerprint; every existing entry is left as it was.
Register(k) ==
  /\ k \notin DOMAIN dict
  /\ DOMAIN dict' = DOMAIN dict \cup {k}
  /\ \A j \in DOMAIN dict : dict'[j] = dict[j]

Init == dict = [k \in {} |-> <<>>]

Next == \E k \in Keys : Register(k)

Spec == Init /\ [][Next]_dict

=============================================================================
