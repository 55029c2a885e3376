---------------------------- MODULE MCProxyServer ----------------------------
(* Instances of ProxyServer for TLC: a provider, a host below it, and a    *)
(* host that is nobody's business.                                         *)
EXTENDS ProxyServer

MCHosts == {<<"ai", "com">>, <<"api", "ai", "com">>, <<"bank", "com">>}

MCLines == {[form |-> "wild", host |-> <<"ai", "com">>],
            [form |-> "comment", host |-> <<"bank", "com">>]}

MCDefaults == {[form |-> "exact", host |-> <<"ai", "com">>]}

=============================================================================
