-------------------------------- MODULE MCRelay --------------------------------
(* Relay's leases and one of its scope sessions.  They share no key, so a   *)
(* behaviour is one of the two alone.                                       *)
EXTENDS MCRelayLease, RelayScope

CONSTANTS s1, c1, c2

MCScreens  == {s1}
MCAdmins   == {bob}
MCSurfaces == {c1, c2}

VARIABLE part

RelayInit == /\ Init /\ ScopeInit /\ part \in {"lease", "scope"}
             /\ part = "scope" => auth /\ lease = NoLease /\ claim = NoClaim

RelayNext ==
  /\ UNCHANGED part
  /\ \/ part = "lease" /\ Next /\ UNCHANGED scopeVars
     \/ part = "scope" /\ ScopeNext /\ UNCHANGED vars

RelaySpec == /\ RelayInit /\ [][RelayNext]_<<vars, scopeVars, part>>
             /\ WF_vars(part = "lease" /\ Tick /\ UNCHANGED scopeVars)
===============================================================================
