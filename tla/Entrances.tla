------------------------------- MODULE Entrances -------------------------------
(***************************************************************************)
(* Four ways into the platform that share no state (releases of feature    *)
(* code, landing of raw reports, import of feature rows, scores of outside *)
(* models), checked side by side: each behaviour is about one of them,     *)
(* its focus, and leaves the variables of the others as they are.  What    *)
(* holds of every behaviour here therefore holds of each part by itself.   *)
(***************************************************************************)
EXTENDS Release

CONSTANTS
    Landings, Reports, fail_fast, created_at, Source_of,
    Runs, Kind, Groups, write_online, Reactive,
    Absent, Writes, Scores, Unusable, scores_online, scores_offline, MaxPosts,
    MaxInterruptions

VARIABLES
    focus,
    meta, payloads, changes, landing, manifests, interruptions,
    imported, served, topic, evidence, run, outcome, failures,
    scoreTopic, position, committed, pc, pending, online, offline, dlq, faults, restarts

L == INSTANCE RawLanding WITH Source <- Source_of
I == INSTANCE FeatureImport WITH history <- imported, interruptions <- failures
W == INSTANCE ModelScores WITH
        topic <- scoreTopic, crashes <- restarts,
        write_online <- scores_online, write_offline <- scores_offline

(* What each part assumes of its constants.                                *)
ASSUME EntrancesAssumption == L!LandingAssumption /\ I!ImportAssumption /\ W!ScoresAssumption

landingVars == <<meta, payloads, changes, landing, manifests, interruptions>>
importVars  == <<imported, served, topic, evidence, run, outcome, failures>>
scoreVars   == <<scoreTopic, position, committed, pc, pending, online, offline, dlq, faults, restarts>>
partVars == <<focus, vars, landingVars, importVars, scoreVars>>

-----------------------------------------------------------------------------
EntrancesInit ==
    /\ focus \in {"release", "landing", "import", "scores"}
    /\ Init /\ L!Init /\ I!Init /\ W!Init

ReleaseNext == focus = "release" /\ Next /\ UNCHANGED <<focus, landingVars, importVars, scoreVars>>
LandingNext == focus = "landing" /\ L!Next /\ UNCHANGED <<focus, vars, importVars, scoreVars>>
ImportNext  == focus = "import" /\ I!Next /\ UNCHANGED <<focus, vars, landingVars, scoreVars>>
ScoresNext  == focus = "scores" /\ W!Next /\ UNCHANGED <<focus, vars, landingVars, importVars>>

EntrancesNext == ReleaseNext \/ LandingNext \/ ImportNext \/ ScoresNext

EntrancesSpec == EntrancesInit /\ [][EntrancesNext]_partVars

-----------------------------------------------------------------------------
(* The properties of the parts, each stated in its module.                 *)

(* RawLanding: what a batch job is given of the manifests resolves.        *)
JobItemsResolve == L!JobItemsResolve

(* RawLanding: a known availability stays, its last correction is audited. *)
AvailabilityAudited == L!AvailabilityAudited

(* FeatureImport: others see only what is durable, and a finished run is.  *)
DurableFirst == I!DurableFirst

(* ModelScores: a score write behind the committed offset is settled.      *)
ScoresSettled == W!ScoresSettled
=============================================================================
