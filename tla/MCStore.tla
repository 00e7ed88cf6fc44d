------------------------------ MODULE MCStore ------------------------------
(***************************************************************************)
(* Three legacy files: an account, another document with its email, and a  *)
(* guest; in the second a delivery has no date, in the third the account   *)
(* has nothing but itself.                                                 *)
(***************************************************************************)
EXTENDS Store, TLC

CONSTANTS u1, u2, u3, e1, e2, e3, t1, t2, d1
MCFile(dated) ==
  [users |-> <<[id |-> u1, email |-> e1, guest |-> FALSE, valid |-> TRUE],
               [id |-> u2, email |-> e1, guest |-> FALSE, valid |-> TRUE],
               [id |-> u3, email |-> e2, guest |-> TRUE, valid |-> TRUE]>>,
   watchlists |-> {[user |-> u1, ticker |-> t1], [user |-> u2, ticker |-> t2],
                   [user |-> u3, ticker |-> t1]},
   alerts |-> {[id |-> d1, valid |-> TRUE]},
   deliveries |-> {[alert |-> d1, user |-> u1, dated |-> TRUE],
                   [alert |-> d1, user |-> u3, dated |-> dated]}]
MCBare ==
  [MCFile(TRUE) EXCEPT !.watchlists = {r \in @ : r.user = u3},
                       !.deliveries = {d \in @ : d.user = u3}]
MCLegacy == {MCFile(TRUE), MCFile(FALSE), MCBare}
Symmetry == Permutations(Thread)
=============================================================================
