---------------------------- MODULE MCNamedLease ----------------------------
(* Two quota sweeps that contend for one lease, and a refresh of another.   *)
EXTENDS NamedLease

CONSTANTS s1, s2, r1, quota_sweep, catalog_refresh

MCWorkers == {s1, s2, r1}
MCNames == {quota_sweep, catalog_refresh}
MCRenewing == {s1, s2}
MCLeaseOf == [w \in MCWorkers |->
                 IF w \in MCRenewing THEN quota_sweep ELSE catalog_refresh]
=============================================================================
