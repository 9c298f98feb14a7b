---------------------------- MODULE ClaimShares ----------------------------
(***************************************************************************)
(* What structured mode promises to the kubelet and to pods: a claim that  *)
(* was prepared has the share its device names, as many consecutive ways   *)
(* of that domain, to itself, and keeps this very share until it is        *)
(* unprepared.  Calls, retries and a driver that stops are not seen here.  *)
(***************************************************************************)
EXTENDS CacheWays

CONSTANTS
    Claims,
    Device   \* the device a claim was allocated: a domain and a number of ways

VARIABLE share   \* the ways of each prepared claim

Init == share = [c \in Claims |-> {}]

\* The runs of ways that make up the device of claim c.
Runs(c) ==
    LET d == Device[c].cacheID  n == Device[c].ways
    IN  {WayMask(d, start, n) : start \in 0 .. TotalWays[d] - n}

Give(c) ==
    /\ share[c] = {}
    /\ share'[c] \in Runs(c)
    /\ \A e \in Claims : share[e] \cap share'[c] = {}

TakeBack(c) == share'[c] = {}

\* One claim at a time is given a share or loses it.
Next == \E c \in Claims :
    /\ share'[c] # share[c]
    /\ Give(c) \/ TakeBack(c)
    /\ share' = [share EXCEPT ![c] = share'[c]]

Spec == Init /\ [][Next]_share

\* What it comes to: no way is in the shares of two claims, and a share does
\* not change from the moment it is given to the one it is taken back.
Exclusive == \A c, e \in Claims : c # e => share[c] \cap share[e] = {}

Steady == [][\A c \in Claims : share[c] # {} => share'[c] \in {share[c], {}}]_share
=============================================================================
