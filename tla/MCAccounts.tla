----------------------------- MODULE MCAccounts -----------------------------
(***************************************************************************)
(* Limits of one or two, and a day of two hours, so that a window ends     *)
(* while the next one of another limit is open.                            *)
(***************************************************************************)
EXTENDS Accounts, TLC

MCCountOf ==
  [signup_ip |-> 1, accounts_day |-> 1, login_ip |-> 2, login_email |-> 1, guest_ip |-> 2,
   guests_day |-> 2, api_ip |-> 2, sim_slot |-> 1, sim_ip |-> 2, sim_global |-> 1]
MCWindowOf ==
  [signup_ip |-> 3, accounts_day |-> 3, login_ip |-> 1, login_email |-> 1, guest_ip |-> 2,
   guests_day |-> 3, api_ip |-> 1, sim_slot |-> 1, sim_ip |-> 1, sim_global |-> 3]
Symmetry == Permutations(Thread) \cup Permutations(Ip) \cup Permutations(Email \ Registered)
=============================================================================
