------------------------------- MODULE Builds --------------------------------
(***************************************************************************)
(* Which programs rook starts for a case and a candidate: Build, Artifact  *)
(* and same_identity of crates/rook-verify/src/case.rs and the first part  *)
(* of run_case, crates/rook-verify/src/lib.rs.                             *)
(*                                                                         *)
(* A build description names artifacts by their hashes and repeats them in *)
(* an identity map.  Here a hash is the content it stands for, an artifact *)
(* is named by its identity key, and the artifacts besides the three       *)
(* programs are the dependencies.  Descriptions and files are edited, one  *)
(* entry at a time, before the command starts; as SECURITY.md asks, not    *)
(* afterwards.                                                             *)
(***************************************************************************)
EXTENDS Integers, FiniteSets, Functions

CONSTANT MaxChanges

ASSUME BuildsAssumption == MaxChanges \in Nat

Value == {1, 2}
Absent == 0
Programs == {"adapter_binary", "component_binary", "property_binary"}
Dependency == {"lib", "plugin"}
Artifact == Programs \cup Dependency
Key == Artifact \cup {"component_variant", "component_source", "starting_state"}
ComponentKeys == {"component_variant", "component_source", "component_binary"}
Variants == {1, 2}          \* the reference candidates; 3 names none
Names == {1, 2, 3}

VARIABLES
    external,   \* the manifest covers a build.json
    case_identity,
    build,      \* the two descriptions: identity, artifacts, args
    disk,       \* the bytes beside each description, Absent if there are none
    asked,      \* the reference candidate asked for
    changes,
    phase,      \* "edit", "checked", "tested" or "refused"
    ran         \* what was started, for each build, and the identity reported for it

buildVars == <<external, case_identity, build, disk, asked, changes, phase, ran>>

PackedBuild ==
    [identity |-> [k \in Key \ {"plugin"} |-> 1],
     artifacts |-> [a \in Artifact \ {"plugin"} |-> 1],
     args |-> 1]                \* other argument lists are 2, 0 lacks {component}

\* source_identity and the identity template compiled into rook
Compiled == PackedBuild.identity

BuildsInit ==
    /\ external \in BOOLEAN /\ case_identity = PackedBuild.identity
    /\ build = [baseline |-> PackedBuild, candidate |-> PackedBuild]
    /\ disk = [b \in DOMAIN build |-> [a \in Artifact |-> IF a = "plugin" THEN Absent ELSE 1]]
    /\ asked \in IF external THEN {1} ELSE Names
    /\ changes = 0 /\ phase = "edit" /\ ran = <<>>

-----------------------------------------------------------------------------
Changing == phase = "edit" /\ changes < MaxChanges /\ changes' = changes + 1
            /\ UNCHANGED <<external, asked, phase, ran>>

\* An entry of a map set to a value, or removed.
Changed(f, k, v) ==
    IF v = Absent THEN Restrict(f, DOMAIN f \ {k})
    ELSE [j \in DOMAIN f \cup {k} |-> IF j = k THEN v ELSE f[j]]

Describe ==
    /\ Changing /\ external
    /\ \E b \in DOMAIN build :
          \/ \E k \in Key, v \in Value \cup {Absent} :
                build' = [build EXCEPT ![b].identity = Changed(@, k, v)]
          \/ \E a \in Artifact, v \in Value \cup {Absent} :
                /\ a \in Programs => v # Absent
                /\ build' = [build EXCEPT ![b].artifacts = Changed(@, a, v)]
          \/ \E v \in Value \cup {Absent} : build' = [build EXCEPT ![b].args = v]
    /\ UNCHANGED <<case_identity, disk>>

Rebuild ==
    /\ Changing /\ external
    /\ \E b \in DOMAIN build, a \in Artifact, v \in Value \cup {Absent} :
          disk' = [disk EXCEPT ![b][a] = v]
    /\ UNCHANGED <<case_identity, build>>

Repack ==
    /\ Changing
    /\ \E k \in Key, v \in Value \cup {Absent} : case_identity' = Changed(case_identity, k, v)
    /\ UNCHANGED <<build, disk>>

-----------------------------------------------------------------------------
Get(f, k) == IF k \in DOMAIN f THEN f[k] ELSE Absent

\* Over the keys of both maps; a candidate may differ in the component's.
Compared(expected, actual) == DOMAIN expected
AllKeys(expected, actual) == DOMAIN expected \cup DOMAIN actual
keys(expected, actual) == AllKeys(expected, actual)
same_identity(expected, actual, free) ==
    \A k \in keys(expected, actual) \ free : Get(expected, k) = Get(actual, k)

\* Artifact::check
check(b, a) == disk[b][a] # Absent /\ disk[b][a] = build[b].artifacts[a]

load(b) ==
    /\ \A a \in DOMAIN build[b].artifacts :
          check(b, a) /\ Get(build[b].identity, a) = build[b].artifacts[a]
    /\ build[b].args # Absent

Dependencies(b) == Restrict(build[b].artifacts, DOMAIN build[b].artifacts \ Programs)
candidate ==
    /\ same_identity(build["baseline"].identity, build["candidate"].identity, ComponentKeys)
    /\ \A a \in {"adapter_binary", "property_binary"} :
          build["baseline"].artifacts[a] = build["candidate"].artifacts[a]
    /\ Dependencies("baseline") = Dependencies("candidate")
    /\ build["baseline"].args = build["candidate"].args

reference_identity == same_identity(case_identity, Compiled, {})

Accepted ==
    IF external
    THEN /\ load("baseline") /\ same_identity(case_identity, build["baseline"].identity, {})
         /\ load("candidate") /\ candidate
    ELSE reference_identity /\ asked \in Variants

\* What Build::command and the property program start: the bytes at the paths, the
\* property program always the baseline's.
Started(b) ==
    [bytes |-> [a \in DOMAIN build[b].artifacts |->
                   IF a = "property_binary" THEN disk["baseline"][a] ELSE disk[b][a]],
     args |-> build[b].args, identity |-> build[b].identity]
\* The reference builds are rook itself: only the variant tells them apart.
StartedReference(variant) ==
    [bytes |-> [a \in {"component_variant"} |-> variant], args |-> 1,
     identity |-> [Compiled EXCEPT !["component_variant"] = variant]]

run_case ==
    /\ phase = "edit" /\ phase' = IF Accepted THEN "checked" ELSE "refused"
    /\ UNCHANGED <<external, case_identity, build, disk, asked, changes, ran>>

Test ==
    /\ phase = "checked" /\ phase' = "tested"
    /\ ran' = IF external THEN <<Started("baseline"), Started("candidate")>>
              ELSE <<StartedReference(Compiled["component_variant"]), StartedReference(asked)>>
    /\ UNCHANGED <<external, case_identity, build, disk, asked, changes>>

BuildsNext == Describe \/ Rebuild \/ Repack \/ run_case \/ Test

BuildsSpec == BuildsInit /\ [][BuildsNext]_buildVars

-----------------------------------------------------------------------------
\* The report tells the truth about what ran: the identity reported for a build is
\* that of the bytes that were started, and the baseline's is the case's.
ReportedIdentityIsTrue ==
    phase = "tested" =>
        /\ \A i \in {1, 2} : \A a \in DOMAIN ran[i].bytes : ran[i].identity[a] = ran[i].bytes[a]
        /\ ran[1].identity = case_identity

\* A candidate with another component, described as such, is tested: the checks
\* refuse nothing but drift.
Rebuilt == [PackedBuild EXCEPT !.artifacts["component_binary"] = 2,
                               !.identity["component_binary"] = 2]
ChangedComponentIsTested ==
    /\ external /\ case_identity = PackedBuild.identity
    /\ build = [baseline |-> PackedBuild, candidate |-> Rebuilt]
    /\ disk["candidate"]["component_binary"] = 2
    /\ \A b \in DOMAIN build, a \in Artifact \ {"plugin"} :
          disk[b][a] # 1 => b = "candidate" /\ a = "component_binary"
    => phase # "refused"

\* native-contract 16: between the baseline's run and the candidate's only the
\* component's bytes and its three identity entries may differ, whatever the two
\* descriptions and the files beside them say; dependencies neither appear nor go.
\* The report is true of both, and a candidate that keeps to the rule is tested.
OnlyTheComponentDiffers ==
    /\ ReportedIdentityIsTrue /\ ChangedComponentIsTested
    /\ phase = "tested" =>
        /\ ran[1].args = ran[2].args
        /\ DOMAIN ran[1].bytes = DOMAIN ran[2].bytes
        /\ \A a \in DOMAIN ran[1].bytes \ ComponentKeys : ran[1].bytes[a] = ran[2].bytes[a]
        /\ \A k \in Key \ ComponentKeys : Get(ran[1].identity, k) = Get(ran[2].identity, k)
=============================================================================
