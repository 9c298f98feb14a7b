-------------------------- MODULE MCStructuredNode --------------------------
(***************************************************************************)
(* Instances of StructuredNode for TLC.  Every cfg has two handlers, so    *)
(* that a call that was given up overlaps with the one that repeats it.    *)
(***************************************************************************)
EXTENDS StructuredNode, TLC

CONSTANTS c1, c2, c3, w1, w2

MCWorkers == {w1, w2}
OneClaim  == {c1}
TwoClaims == {c1, c2}
ThreeClaims == {c1, c2, c3}

OneDomain  == {0}
TwoDomains == {0, 1}

\* Domains of two to four ways.
TwoWays   == [d \in Domains |-> 2]
ThreeWays == [d \in Domains |-> 3]
FourWays  == [d \in Domains |-> 4]

\* What the kernel gives a new group: all the ways.
AllWays == UNION {WayMask(d, 0, TotalWays[d]) : d \in Domains}

Device(d, n) == [cacheID |-> d, ways |-> n]

\* Claims of the same size, one with a device of another driver first.
EqualClaims == [c \in Claims |->
    IF c = c2 THEN <<Skipped, Device(0, 1)>> ELSE <<Device(0, 1)>>]

\* Claims of two ways, all with the foreign device.
TwoWayClaims == [c \in Claims |-> <<Skipped, Device(0, 2)>>]

\* Claims of one way without the foreign device.
OneWayClaims == [c \in Claims |-> <<Device(0, 1)>>]

\* Claims in different domains.
SplitClaims == [c \in Claims |-> <<Device(IF c = c1 THEN 0 ELSE 1, 1)>>]

MCPrefix == [c \in Claims |-> c]

\* Handlers are interchangeable, and so are claims that ask for the same.
Handlers == Permutations(MCWorkers)
HandlersAndClaims == Handlers \cup Permutations(Claims)
=============================================================================
