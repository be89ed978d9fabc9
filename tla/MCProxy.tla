------------------------------ MODULE MCProxy -------------------------------
(* Instances of Proxy for TLC: a subdomain of an entry, and a host that    *)
(* only ends like one.                                                     *)
EXTENDS Proxy

MCAllow == {<<"github", "com">>}
MCAsked == {<<"api", "github", "com">>, <<"notgithub", "com">>}
=============================================================================
