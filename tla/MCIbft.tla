------------------------------- MODULE MCIbft -------------------------------
(***************************************************************************)
(* Model checking of Ibft: the crashed-validator specification, and what   *)
(* the documentation and the comments say of the consensus that the code   *)
(* does not do.                                                            *)
(***************************************************************************)
EXTENDS Ibft, TLC

CONSTANT Crashed    \* validators that never run

ContentSymmetry == Permutations(Contents)

Running == Validators \ Crashed

CrashSpec ==
    /\ Init
    /\ [][\E n \in Running : Handle(n)]_vars
    /\ \A n \in Running : WF_vars(Handle(n))

(* A block once stored stays, also when a storage write failed.            *)
NeverRolledBack ==
    [][\A n \in Validators, h \in Heights :
         store[n].blocks[h] # NoBlock =>
            store'[n].blocks[h] = store[n].blocks[h]]_vars

(* A validator that waits Idle in round 0 does not wait for ever: it gets  *)
(* the proposal or its timer changes the round (chain README, timeouts).   *)
WaitingEnds ==
    \A n \in Running, h \in Heights :
        LET Waiting == /\ engine[n].height = h
                       /\ engine[n].round = 0
                       /\ engine[n].phase = "Idle"
        IN  Waiting ~> ~Waiting
=============================================================================
