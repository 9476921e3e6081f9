------------------------------- MODULE MCPush -------------------------------
(* Small instances of Push for TLC: two paths, two contents.               *)
EXTENDS PushInv, TLC

CONSTANTS x, y, rw, ro

MCPath == 1..2

\* Others may overwrite or delete the manifest; files are exposed in MCReadLive.
MCExposed == {ManifestKey}

F(c, m) == [data |-> c, mode |-> m]

TwoFiles == <<F(x, rw), F(y, rw)>>
Changed  == <<F(y, rw), F(y, rw)>>
OneFile  == <<F(x, rw), Nil>>

\* The prefix as a push of tree t leaves it, some days later.
Pushed(t) ==
    [k \in Key |->
        IF k = ManifestKey THEN [body |-> t, sum |-> TRUE, fresh |-> FALSE]
        ELSE IF t[k] = Nil THEN Nil
        ELSE [body |-> t[k].data, sum |-> TRUE, fresh |-> FALSE]]

Pushers == Permutations(Pusher)

Nothing == [k \in Key |-> Nil]

\* At most two troubles of any kind in one behaviour.
TwoTroubles == faultCount + killCount + damageCount + editCount <= 2

MCTwoTrees == {OneFile, Changed}

MCBuckets == {Nothing, Pushed(<<F(x, ro), Nil>>)}
=============================================================================
