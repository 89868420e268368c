----------------------------- MODULE MCTunStack -----------------------------
EXTENDS TunStack

CONSTANTS near, any, wide, narrow, bad, proxyIf, otherIf

Lengths == [n \in {any, wide, narrow} |->
              CASE n = any -> 0 [] n = wide -> 8 [] n = narrow -> 16]
Nets == [n \in {any, wide, narrow} |-> {near}]
Route(n, i, e) == [net |-> n, iface |-> i, enabled |-> e]

Default == Route(any, proxyIf, TRUE)
\* The default configuration, one with a network that can be chosen, and one
\* with a Destination that does not parse.
OnlyDefault == {<<Default>>}
RouteLists == {<<Default, Route(wide, proxyIf, TRUE)>>, <<Default, Route(bad, proxyIf, TRUE)>>}
\* Users send one network elsewhere and disable another.
Added == {Route(narrow, otherIf, TRUE), Route(wide, proxyIf, FALSE)}
=============================================================================
