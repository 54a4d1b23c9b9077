------------------------------ MODULE MCSignIn ------------------------------
EXTENDS SignIn

CONSTANTS c1, c2, c3, p1, p2, p3

Call(a, p, i) == [asks |-> a, home |-> p, interactive |-> i]
Has(d, c) == [l \in Logins |-> IF l = "claude" THEN c ELSE d]
World(x, y, z, n, l) ==
  [calls |-> [c \in Callers |-> IF c = c1 THEN x ELSE IF c = c2 THEN y ELSE z],
   noBrowser |-> n, login |-> l]
NoCall == Call("nothing", p1, FALSE)

\* Threads of one process, one of which may log in; or two and a CLI with --no-browser;
Threads ==
  {World(Call("token", p1, TRUE), Call("forced", p1, TRUE), Call("setup", p1, TRUE), FALSE,
         Has("live", "live"))}
  \cup {World(Call(a, p1, TRUE), Call("token", p1, TRUE), NoCall, TRUE, Has("lost", "live")) :
          a \in {"helper", "setup"}}
\* a helper with --browser-login beside another, a setup, or Claude Desktop's helper;
Credentials ==
  {World(Call("helper", p1, TRUE), Call(a, p2, TRUE), NoCall, FALSE, Has("lost", "live")) :
     a \in {"helper", "setup", "desktop"}}
\* Claude Desktop's helpers, one of which may be without a user.
Desktop ==
  {World(Call(a, p1, i), Call("relay", p2, TRUE), NoCall, FALSE, Has(d, c)) :
     a \in {"desktop", "relay"}, i \in BOOLEAN, d \in {"live", "lost"}, c \in {"stale", "lost"}}

MCScenarios == Threads \cup Credentials \cup Desktop
=============================================================================
