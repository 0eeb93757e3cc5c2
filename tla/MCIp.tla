-------------------------------- MODULE MCIp --------------------------------
(***************************************************************************)
(* The instance of the network layers that TLC checks: a router between    *)
(* two hosts, a and b on one link and c and d on another, with routes to   *)
(* two addresses that nobody has.                                          *)
(***************************************************************************)
EXTENDS IpProperties, TLC

CONSTANTS h1, r, h2, a, b, c, d, lost, ghost

To(dev, hop) == [dev |-> dev, hop |-> hop]

\* h1 -- r -- h2
LineNodes == a :> h1 @@ b :> r @@ c :> r @@ d :> h2
LineLinks == a :> {b} @@ b :> {a} @@ c :> {d} @@ d :> {c}

\* What the tables of module DistanceVector settle at; and that h1 and r have
\* routes to lost through each other, and h2 none, while ghost is an address of
\* the link of c and d.
LineTables ==
    h1 :> [x \in Address |-> IF x \in {a, b} THEN To(a, x) ELSE To(a, b)]
    @@ r :> [x \in Address |->
                CASE x \in {a, b} -> To(b, x)
                  [] x = lost -> To(b, a)
                  [] OTHER -> To(c, x)]
    @@ h2 :> [x \in Address |->
                CASE x \in {c, d, ghost} -> To(d, x)
                  [] x = lost -> To(None, None)
                  [] OTHER -> To(d, c)]

BothWays == {<<a, d>>, <<d, a>>}

AllSends == {<<a, d>>, <<b, lost>>, <<d, lost>>, <<d, ghost>>}

=============================================================================
