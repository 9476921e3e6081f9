------------------------------ MODULE MCPrune -------------------------------
(* Small instances of Prune for TLC: MCPush's trees and buckets.           *)
EXTENDS PruneInv, MCPush

\* A file that no manifest lists any more, left in the prefix.
Leftover ==
    [k \in Key |->
        IF k \in Path THEN [body |-> x, sum |-> TRUE, fresh |-> FALSE]
        ELSE [body |-> <<F(x, rw), Nil>>, sum |-> TRUE, fresh |-> FALSE]]

\* The tree that prefix is to become: the leftover's key is used again, and the
\* old file is garbage.
MCOneTree == {<<Nil, F(y, rw)>>}

MCSecond == {2}

MCPruneBuckets == {Leftover}
=============================================================================
