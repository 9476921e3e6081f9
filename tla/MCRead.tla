------------------------------- MODULE MCRead -------------------------------
(* Small instances of Read for TLC: MCPrune's trees and buckets.           *)
EXTENDS ReadInv, MCPrune

\* An empty prefix, or one as an earlier push left it.
MCReadBuckets == {Nothing, Pushed(TwoFiles)}

\* An empty prefix, or one with an old file at a key the tree uses again.
MCUsedBuckets == {Nothing, Leftover}

\* The tree that drops the other key of that prefix, and the one it becomes if
\* it changes, in which the dropped key is back with its old content.
MCBack == TwoFiles

MCReused == MCOneTree \cup {MCBack}

\* A behaviour has one trouble at most: a failure, the change of the tree, or
\* a push of another kind than diff.
OneTrouble ==
    /\ faultCount + editCount <= 1
    /\ \A q \in Pusher :
          /\ root[q] = MCBack => editCount = 1
          /\ how[q] \in {"full", "adopt"} => faultCount + editCount = 0
=============================================================================
