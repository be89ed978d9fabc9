----------------------------- MODULE MCFirewall -----------------------------
(* Instances of Firewall for TLC.                                          *)
EXTENDS Firewall, TLC
CONSTANTS github, pypi, example, a1, a2, a3, r1, proxy

MCDomains == <<github, pypi>>
MCHosts == {github, pypi, example}
MCAddresses == {a1, a2, a3, r1, proxy}
MCResolvers == <<r1>>
MCSubnets == <<proxy>>
Symmetry == Permutations({a1, a2, a3})
=============================================================================
