----------------------------- MODULE MCPlanner ------------------------------
(***************************************************************************)
(* A small instance of the family's planner for TLC: the agreements, the   *)
(* household, the shared check-ins and the notices side by side.  They     *)
(* share no row, so that a behaviour of all is one of each, interleaved;   *)
(* bound: a behaviour of this instance uses one of them.                   *)
(***************************************************************************)
EXTENDS Agreements, Household, Wellbeing, Notices, TLC

CONSTANTS ann, bob, q1, q2, c1, c2

VARIABLE used       \* the part the behaviour uses

MCPartners == {ann, bob}
MCChoices  == {{}} \union {{p} : p \in MCPartners}
MCRequests == {q1, q2}
MCChats    == {c1, c2}
MCSymmetry == Permutations(MCPartners) \union Permutations(MCRequests) \union Permutations(MCChats)

\* East and west of UTC, clocks go forward at minute 1 and back at minute 3 of
\* a date; and a zone that knows no such thing.
MCZones ==
       {[base |-> b, jump |-> 2, at |-> 17 - b] : b \in {-2, 2}}
  \union {[base |-> b, jump |-> -2, at |-> 19 - b] : b \in {-2, 2}}
  \union {[base |-> 4, jump |-> 0, at |-> 0]}

Quiet(s, e) == [inApp |-> TRUE, telegram |-> TRUE, quiet |-> TRUE, start |-> s, end |-> e]
MCInitial   == {Quiet(6, 2), Quiet(1, 3), Quiet(7, 4), Quiet(2, 0), Quiet(3, 1)}
MCPatches   == {"start" :> 4, "end" :> 4, "quiet" :> FALSE, "inApp" :> FALSE}
               \union {"telegram" :> b : b \in BOOLEAN}

\* Bound: users give commands in the zone without changes, in one night.
Commanding == zone.jump = 0
Morning    == FirstMoment + 4

PlannerInit ==
  /\ Init
  /\ HInit
  /\ WInit
  /\ NInit
  /\ used \in {"agreements", "household", "wellbeing", "notices"}
  \* one initial state for the parts that know nothing of homes or of zones
  /\ used # "wellbeing" => \A p \in People : home[p] = Nowhere
  /\ \A u \in Recipients : IF Commanding THEN setting[u] = Quiet(6, 2) /\ link[u] = Unlinked
                                         ELSE used = "notices" /\ link[u].active

PlannerNext ==
  /\ UNCHANGED used
  /\ \/ used = "agreements" /\ Next /\ UNCHANGED <<hvars, wvars, nvars>>
     \/ used = "household" /\ HNext /\ UNCHANGED <<vars, wvars, nvars>>
     \/ used = "wellbeing" /\ WNext /\ UNCHANGED <<vars, hvars, nvars>>
     \/ /\ used = "notices"
        /\ \/ TimePasses /\ (Commanding => moment < Morning)
           \/ NoticeStep
           \/ Commanding /\ UserStep
        /\ UNCHANGED <<vars, hvars, wvars>>

PlannerSpec == PlannerInit /\ [][PlannerNext]_<<vars, hvars, wvars, nvars, used>>
=============================================================================
