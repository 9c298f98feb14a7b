------------------------- MODULE MCStructuredDriver -------------------------
(***************************************************************************)
(* Instances of StructuredDriver for TLC: two handlers, so that any two    *)
(* calls overlap, and so few ways that a third allocation does not fit and *)
(* that freed ways are reused at once.                                     *)
(***************************************************************************)
EXTENDS StructuredDriver, TLC

CONSTANTS c1, c2, w1, w2

MCWorkers == {w1, w2}
MCClaims  == {c1, c2}

Device(d, n) == [cacheID |-> d, ways |-> n]

\* What the kernel gives a new group: all the ways.
AllWays == UNION {WayMask(d, 0, TotalWays[d]) : d \in Domains}

\* Two domains, of which the allocator knows one.
TwoDomains == {0, 1}
Known      == {0}
ThreeWays  == [d \in Domains |-> 3]

\* c1 asks for two devices with a foreign one between them; c2 for more ways
\* at once, and then for a domain the allocator does not know.
MCResults == c1 :> <<Device(0, 1), Skipped, Device(0, 1)>>
             @@ c2 :> <<Device(0, 2), Device(1, 1)>>

\* The two UIDs begin alike: one CDI file for both.
SamePrefix == [c \in Claims |-> c1]

\* Handlers are interchangeable; claims are not (they ask for other devices).
Handlers == Permutations(MCWorkers)
=============================================================================
