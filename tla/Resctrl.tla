------------------------------ MODULE Resctrl ------------------------------
(***************************************************************************)
(* The resctrl filesystem as the driver uses it: control groups created,   *)
(* configured and removed by pkg/resctrl/resctrl.go.  The kernel behind    *)
(* the system calls is external: what it accepts is taken from the         *)
(* constraints the code reads from info/ (num_closids, min_cbm_bits) and   *)
(* from the errors the code handles.                                       *)
(*                                                                         *)
(* A group name "dra-c<domain>-<uid>" is the pair <<domain, claim>>; basic *)
(* mode has "dra-cache<domain>-part<k>" and puts the k for the claim.      *)
(* Groups outlive the driver process: nothing here is lost in a crash.     *)
(***************************************************************************)
EXTENDS CacheWays, ResourceClaims

CONSTANTS
    NumCLOSIDs,  \* info/L3/num_closids, the root group included
    MinCBMBits,  \* info/L3/min_cbm_bits
    Fresh,       \* ways a group that nobody configured reports
    Faults       \* which system calls may fail for no modelled reason

ASSUME NumCLOSIDsAssumption == NumCLOSIDs \in Nat
ASSUME MinCBMBitsAssumption == MinCBMBits \in Nat
ASSUME FreshAssumption == Fresh \subseteq Way

VARIABLES
    dirs,   \* group directories that exist
    mask    \* ways written to a group's schemata; {} when none were

resctrlVars == <<dirs, mask>>

-----------------------------------------------------------------------------
Groups == Domains \X Claims

Mounted ==
    /\ dirs = {}
    /\ mask = [g \in Groups |-> {}]

\* Mutant: a directory that exists is an error.
MkdirNew(g) ==
    /\ g \notin dirs /\ Cardinality(dirs) < NumCLOSIDs - 1
    /\ dirs' = dirs \cup {g}
    /\ UNCHANGED mask

\* MkdirAll succeeds on a directory that exists; the kernel gives a new one
\* a CLOSID of its own, and the root group has one.
Mkdir(g) ==
    /\ g \in dirs \/ Cardinality(dirs) < NumCLOSIDs - 1
    /\ dirs' = dirs \cup {g}
    /\ UNCHANGED mask

MkdirFails(g) ==
    /\ \/ g \notin dirs /\ Cardinality(dirs) >= NumCLOSIDs - 1
       \/ "mkdir" \in Faults
    /\ UNCHANGED resctrlVars

\* The schemata of a group the driver creates name only the group's domain;
\* the kernel refuses a CBM of fewer than min_cbm_bits bits.
Writable(g, cbm) == g \in dirs /\ Cardinality(cbm) >= MinCBMBits

WriteSchemata(g, cbm) ==
    /\ Writable(g, cbm)
    /\ mask' = [mask EXCEPT ![g] = cbm]
    /\ UNCHANGED dirs

WriteSchemataFails(g, cbm) ==
    /\ ~ Writable(g, cbm) \/ "schemata" \in Faults
    /\ UNCHANGED resctrlVars

\* os.Remove on a group directory, whether from DeleteGroup or from the
\* error path of CreateGroup.
Rmdir(g) ==
    /\ g \in dirs
    /\ dirs' = dirs \ {g}
    /\ mask' = [mask EXCEPT ![g] = {}]

\* The kernel may refuse to remove a group (DeleteGroup's comment: one that
\* still has tasks; draining them ignores errors).
RmdirFails(g) ==
    /\ g \notin dirs \/ "rmdir" \in Faults
    /\ UNCHANGED resctrlVars

\* What reading back the schemata of g returns: every domain is listed, and
\* the ones nobody wrote still have the default of a new group.
Reported(g) ==
    IF mask[g] = {} THEN Fresh
    ELSE mask[g] \cup {w \in Fresh : w[1] # g[1]}
=============================================================================
