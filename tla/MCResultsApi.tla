---------------------------- MODULE MCResultsApi ----------------------------
\* A small instance of ResultsApi.  a6 is how the address a is written in IPv6
\* form, p6 likewise the proxy p.
EXTENDS ResultsApi, TLC

CONSTANTS a, a6, b, p, p6, i1, i2, i3, h1, h2

MCAddr == {a, a6, b, p, p6}
MCUnmap == [x \in MCAddr |-> CASE x = a6 -> a [] x = p6 -> p [] OTHER -> x]
MCId == {i1, i2, i3}
MCHandler == {h1, h2}

MCSymmetry == Permutations(MCId) \cup Permutations(MCHandler)

MCArgs ==
  [mode |-> {"lan", "internet"}, telemetry |-> {"sqlite"}, token |-> {""},
   streams |-> {2, Unreadable}, proxies |-> {NoNetwork}, rate |-> {},
   burst |-> {0, 3}]

MCEnv ==
  [mode |-> {"internet", "wan"}, telemetry |-> {}, token |-> {"secret"},
   streams |-> {12, Unreadable}, proxies |-> {{p}}, rate |-> {2},
   burst |-> {1, -1}]

Post(stamp, client, bad) == [stamp |-> stamp, client |-> client, bad |-> bad]

\* A result of the CLI or the page, two with a time of their own, a bad one.
MCBody ==
  {Post(NoStamp, NoAddr, FALSE), Post(UTC(0), b, FALSE),
   Post([local |-> 1, zone |-> "+"], b, FALSE), Post(NoStamp, NoAddr, TRUE)}

From(peer, xff) == [peer |-> peer, xff |-> xff, real |-> NoAddr]

MCVia == {From(a, <<>>), From(p, <<a>>)}

Chains == UNION {[1 .. n -> MCAddr \cup {NoAddr}] : n \in 0 .. 3}

MCAsked ==
  [peer : {a, p, p6, NoAddr}, xff : Chains, real : {b, NoAddr}]

=============================================================================
