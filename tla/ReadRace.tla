------------------------------ MODULE ReadRace ------------------------------
(***************************************************************************)
(* Read with a memory of what grew old while a pull ran: what README.md    *)
(* says of a pull that prune overtakes.                                    *)
(***************************************************************************)
EXTENDS ReadInv

VARIABLE aged   \* of each pull: the keys that have grown older than -min-age
                \* since it began

\* Key k has grown old in this step.
GrowsOld(k) == object[k] # Nil /\ object'[k] # Nil /\ object[k].fresh /\ ~object'[k].fresh

RaceInit == ReadInit /\ aged = [r \in Reader |-> {}]

RaceNext ==
    /\ ReadNext
    /\ aged' = [r \in Reader |->
                   IF at'[r] = "idle" THEN {}
                   ELSE aged[r] \cup {k \in Key : GrowsOld(k)}]

RaceSpec == RaceInit /\ [][RaceNext]_<<rvars, aged>>

\* README.md: "A pull that's still downloading an old snapshot after a newer
\* push replaced it can lose objects to prune once they're older than -min-age.
\* If your slowest pull can outlast the default, raise -min-age."  A pull during
\* which an object does not grow older than -min-age does not lose it.
ShortPullsAreSafe ==
    [][ \A r \in Reader :
          outcome[r] # "missing" /\ outcome'[r] = "missing" =>
             \E p \in todo[r] :
                object[p] = Nil /\ (p \in adrift \/ p \in aged[r]) ]_<<rvars, aged>>
=============================================================================
