----------------------------- MODULE VerifiedStore -----------------------------
(***************************************************************************)
(* What a verified file transfer promises about the files it delivers,     *)
(* without segments, CRCs or failures: a file becomes known in one step,   *)
(* and what is known of it is never replaced by something else, only lost  *)
(* when a new transfer to its name begins.                                 *)
(***************************************************************************)
CONSTANTS Names,     \* file names
          Contents,  \* what a file may hold
          Unknown    \* no transfer of the file has been verified

VARIABLE store

Init == store = [n \in Names |-> Unknown]

\* A transfer to n is verified: its whole contents are known at once.
Deliver(n) ==
  /\ store[n] = Unknown
  /\ store'[n] \in Contents
  /\ store' = [store EXCEPT ![n] = store'[n]]

\* A new transfer to n begins: its contents are no longer known.
Reopen(n) ==
  /\ store[n] # Unknown
  /\ store' = [store EXCEPT ![n] = Unknown]

Next == \E n \in Names : Deliver(n) \/ Reopen(n)

Spec == Init /\ [][Next]_store
=============================================================================
