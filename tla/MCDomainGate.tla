---------------------------- MODULE MCDomainGate ----------------------------
(***************************************************************************)
(* Instances of DomainGate: a domain, one of its subdomains and a system   *)
(* domain.                                                                 *)
(***************************************************************************)
EXTENDS DomainGate

CONSTANTS top, sub, sys

MCCovers == [d \in Domains |-> IF d = sub THEN {sub, top} \cap Domains ELSE {d}]
=============================================================================
