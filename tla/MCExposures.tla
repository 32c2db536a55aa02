----------------------------- MODULE MCExposures -----------------------------
EXTENDS Exposures

CONSTANTS ssh, game, web,    \* names
          l, d1, d2,         \* a label and two domains
          a1, a2             \* accounts

Exposed(protocol, port, tailnet, account) ==
  [label |-> l, protocol |-> protocol, port |-> port, tailnet |-> tailnet, account |-> account]

MCHostname == {l} \X {d1, d2}
MCPort == {22, 445, 22223}
MCWish == {<<ssh, Exposed("ssh", 22, TRUE, a1)>>, <<ssh, Exposed("ssh", 22, TRUE, a2)>>,
           <<game, Exposed("tcp", 445, FALSE, Nobody)>>, <<game, Exposed("https", 445, TRUE, Nobody)>>,
           <<web, Exposed("https", 445, TRUE, Nobody)>>}
MCBound == [commands |-> 3, logins |-> 1, faults |-> 1, crashes |-> 1, events |-> 4]

\* What nomina defers, and what it may run in the session.
MCInline == {"publish", "remove", "domain", "activate", "replace", "uninstall", "prepare"}
=============================================================================
