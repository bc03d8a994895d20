---------------------------- MODULE MCRouteNames ----------------------------
\* Two accounts on an edge whose base domain was written with an upper-case letter, a
\* root dot and a port: one with grants of its own, and one that was granted all custom
\* domains below the base domain and no reserved name.
EXTENDS RouteNames

Base == <<"N", ".", ":", "1">>
ReservedLabels == {<<"n", "1">>}
Tenant == [subdomains |-> {}, domains |-> {<<"*", ".", "n">>}]
Granted == [subdomains |-> {<<"N", "1">>},
            domains |-> {<<"N", ".", "tcp">>, <<"*", ".", "xn">>}]
Accounts == {Tenant, Granted}
=============================================================================
