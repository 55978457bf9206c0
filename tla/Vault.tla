-------------------------------- MODULE Vault --------------------------------
(***************************************************************************)
(* What unlocking the store promises: the first passphrase makes it, and   *)
(* from then on it is open only to those who give that passphrase.         *)
(***************************************************************************)
CONSTANTS
  Procs,    \* processes that open the store
  Words     \* passphrases

NoWord == "no word"

VARIABLES
  owner,    \* the passphrase the store was made with
  open      \* per process: the passphrase it has the store open with

Init ==
  /\ owner = NoWord
  /\ open = [p \in Procs |-> NoWord]

\* A first run that is cut off may have made the store already.
Make(w) ==
  /\ owner = NoWord
  /\ owner' = w
  /\ UNCHANGED open

Unlock(p) ==
  /\ owner \in Words /\ open[p] = NoWord
  /\ open' = [open EXCEPT ![p] = owner]
  /\ UNCHANGED owner

Lock(p) ==
  /\ open[p] # NoWord
  /\ open' = [open EXCEPT ![p] = NoWord]
  /\ UNCHANGED owner

Next ==
  \/ \E w \in Words : Make(w)
  \/ \E p \in Procs : Unlock(p) \/ Lock(p)

Spec == Init /\ [][Next]_<<owner, open>>
=============================================================================
