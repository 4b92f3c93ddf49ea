---------------------------- MODULE MCAutonoscope ----------------------------
EXTENDS Autonoscope

R(object, host, path, form) == [object |-> object, host |-> host, path |-> path, form |-> form]
T(kind, host, path) == [kind |-> kind, host |-> host, path |-> path]

(* "com" in two spellings and "example.com".                                *)
DomainInputs ==
  {R("domain", h, <<>>, "canonical") : h \in {<<"com">>, <<"com", "example">>}}
    \cup {R("domain", <<"com">>, <<>>, "short")}
DomainTargets ==
  {T("domain", <<"com", "example">>, <<>>), T("domain", <<"org">>, <<>>),
   T("subdomain", <<"com", "example", "www">>, <<>>)}

(* Networks are written in bits; an address has two.  Only an address can   *)
(* be written without its prefix length.                                    *)
IpInputs == {R("ip", <<"1", "0">>, <<>>, f) : f \in Forms}
IpTargets ==
  {T(k, <<"1", "0">>, <<>>) : k \in {"ipaddr", "port"}} \cup {T("netblock", <<"1">>, <<>>)}

(* https://example.com/admin/.                                              *)
UrlInputs == {R("url", <<"com", "example">>, <<"admin">>, "canonical")}
UrlTargets == {T("url", <<"com", "example">>, p) : p \in {<<>>, <<"admin", "users">>}}

AllInputs == DomainInputs \cup IpInputs \cup UrlInputs
(* What another process edits.                                              *)
Edited == {R("domain", <<"com">>, <<>>, "canonical")}
AllTargets == DomainTargets \cup IpTargets \cup UrlTargets
=============================================================================
