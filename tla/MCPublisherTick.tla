--------------------------- MODULE MCPublisherTick ---------------------------
(***************************************************************************)
(* PublisherTick with three rows in play: one completed, one that is not,  *)
(* and one of those the contract refuses, its outcome or its volume, which *)
(* the initial state chooses.  Two overlapping ticks, two attempts per     *)
(* write, batches of two, and a few failures to spend anywhere, one less   *)
(* beside an unaddable row.                                                *)
(***************************************************************************)
EXTENDS PublisherTick

VARIABLE awkward  \* the refused or unaddable row in play

MCInit == awkward \in Stuck /\ Init

\* The other rows of that kind are never reconciled.
InPlay ==
    /\ \A r \in Stuck \ {awkward} : reconciledAt'[r] = 0
    /\ awkward \in Unaddable => faults' > 0

MCNext == Next /\ InPlay /\ UNCHANGED awkward

MCSpec == MCInit /\ [][MCNext]_<<vars, awkward>>

MCFairSpec ==
    /\ MCSpec
    /\ WF_vars(\E w \in Tick : Acquire(w))
    /\ \A w \in Tick : WF_vars(Progress(w))
    /\ WF_vars(TimePasses)
=============================================================================
