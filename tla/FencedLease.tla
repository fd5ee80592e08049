---------------------------- MODULE FencedLease ----------------------------
(***************************************************************************)
(* What one row of thread_owners promises to the workers, with everything  *)
(* about how they reach it left out: a lease that names its holder and a   *)
(* token.  A lease that has not run out is taken from nobody; while the    *)
(* row lives the token never falls, and a new holder gets a larger one, so *)
(* whoever knows the token of a row knows whether it was overtaken.        *)
(*                                                                         *)
(* Nothing is promised about the token of a row that is created anew: the  *)
(* code seeds it from the threads row, which is not protected the same way *)
(* (see ThreadOwnership).                                                  *)
(***************************************************************************)
EXTENDS Integers

CONSTANTS Holders,    \* who may hold the lease
          Nobody      \* no holder: stands for a row that does not exist

VARIABLES holder, token, live

leaseVars == <<holder, token, live>>

Tokens == Nat \ {0}

LeaseInit == holder = Nobody /\ token = 0 /\ live = FALSE

(* The row is created, whatever its token. *)
Acquire(h) == /\ holder = Nobody
              /\ holder' = h
              /\ token' \in Tokens
              /\ live' = TRUE

(* The holder extends the lease, keeping its token or taking the next one. *)
Extend == /\ holder \in Holders
          /\ token' \in {token, token + 1}
          /\ live' = TRUE
          /\ UNCHANGED holder

(* Somebody else takes over a lease that has run out. *)
TakeOver(h) == /\ holder \in Holders \ {h}
               /\ ~live
               /\ holder' = h
               /\ token' = token + 1
               /\ live' = TRUE

RunOut == /\ live
          /\ live' = FALSE
          /\ UNCHANGED <<holder, token>>

GiveBack == /\ holder \in Holders
            /\ holder' = Nobody /\ token' = 0 /\ live' = FALSE

LeaseNext == \/ \E h \in Holders : Acquire(h) \/ TakeOver(h)
             \/ Extend \/ RunOut \/ GiveBack

LeaseSpec == LeaseInit /\ [][LeaseNext]_leaseVars
=============================================================================
