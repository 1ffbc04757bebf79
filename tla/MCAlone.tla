-------------------------------- MODULE MCAlone --------------------------------
(* One command at a time, which may stop anywhere.  A behaviour is of one    *)
(* part: a call on a bridge session, with what happens to the session from   *)
(* outside; the commands of a migration of memory ids that is not undone; or *)
(* of one that may be, and nothing is written once it was planned.           *)
EXTENDS MCBridgeSession, IdentityMigration

CONSTANT Parts

\* Three points at most, one that is no memory, and no memory's new id the old id of
\* another that moves as well.
MCStores   == {st \in [Ids -> Texts \cup {Other, Nothing}] :
                 /\ Cardinality(Points(st)) <= 3 /\ Cardinality({i \in Ids : st[i] = Other}) <= 1
                 /\ \A i \in Moving(st) : Target(st, i) \notin Moving(st)}

VARIABLE part

AloneInit == /\ SessionInit /\ MigrInit /\ part \in Parts
             /\ part = "session" => Points(source) = {}
             /\ part # "session" => meta = [s \in Sessions |-> NoMeta]

AloneNext ==
  /\ UNCHANGED part
  /\ \/ part = "session"   /\ SessionNext /\ UNCHANGED migrVars
     \/ /\ part \in {"migration", "undone"} /\ MigrNext /\ UNCHANGED sessionVars
        /\ part = "migration" => ~Rollback
        /\ part = "undone" /\ plan # Nothing => source' = source

AloneSpec == AloneInit /\ [][AloneNext]_<<sessionVars, migrVars, part>>
===============================================================================
