------------------------------- MODULE Release -------------------------------
(***************************************************************************)
(* Feature code on its way into a worker.  Publishers build a wheel from   *)
(* the project checkout, test it, claim its version in the wheel store and *)
(* put a bundle; operators move the shadow and live pointers under the     *)
(* approval rules; a worker verifies its image against the promoted bundle *)
(* when it starts.                                                         *)
(*                                                                         *)
(* A digest or SHA-256 is the content itself: a wheel is its version, its  *)
(* code and the registry it contains, a bundle its definitions and wheel.  *)
(***************************************************************************)
EXTENDS Integers, FiniteSets, FiniteSetsExt, Sequences, SequencesExt

CONSTANTS
    Publishers,         \* fsctl publish processes
    Operators,          \* fsctl promote and rollback processes
    Versions, Codes, Defs,
    FirstCheckout,
    Golden,             \* <<code, definitions>> whose golden tests pass
    Cores,              \* versions of the platform an image may have
    requires_core,      \* of the manifest beside each code: <<operator, version>>s
    Approvers, required_approvers, shadow_min_days,
    MaxPublications, MaxCommands, MaxEdits, MaxDays, MaxCrashes

NoWheel == [version |-> 0]
None == [none |-> TRUE]
Source == [version : Versions, code : Codes, defs : Defs]
Stages == {"shadow", "live"}

ASSUME ReleaseAssumption ==
    /\ Versions \subseteq Nat \ {0} /\ FirstCheckout \in Source /\ Golden \subseteq Codes \X Defs
    /\ Cores \subseteq Seq(Nat)
    /\ requires_core \in [Codes -> Seq({"==", ">=", "<=", ">", "<"} \X Seq(Nat))]
    /\ {required_approvers, shadow_min_days} \subseteq Nat
    /\ {MaxPublications, MaxCommands, MaxEdits, MaxDays, MaxCrashes} \subseteq Nat

VARIABLES
    checkout,           \* the project directory
    built,              \* wheel files at hand for --wheel and for images
    blobs, release,     \* wheel store: wheels, version -> claimed wheel
    publisher,
    bundles,
    pointer,            \* stage -> [bundle, since, previous] or None
    command,            \* the repoint each operator has in hand
    records,            \* append-only audit records
    worker,
    now,
    entered,            \* history: since when the shadow pointer names its bundle
    edits, publications, crashes

publishing == <<checkout, built, blobs, release, publisher, bundles, edits, publications>>
governing  == <<pointer, command, records, entered>>
vars == <<publishing, governing, worker, now, crashes>>

Idle == [pc |-> "idle"]

Init ==
    /\ checkout = FirstCheckout
    /\ built = {} /\ blobs = {} /\ release = [v \in Versions |-> NoWheel]
    /\ publisher = [p \in Publishers |-> Idle]
    /\ bundles = {}
    /\ pointer = [s \in Stages |-> None]
    /\ command = [o \in Operators |-> Idle] /\ records = <<>> /\ entered = 0
    /\ worker = Idle /\ now = 0
    /\ edits = 0 /\ publications = 0 /\ crashes = 0

-----------------------------------------------------------------------------
(* The author changes code or registry, bumping the version or not.        *)
Edit(s) ==
    /\ edits < MaxEdits /\ edits' = edits + 1
    /\ checkout' = s
    /\ UNCHANGED <<built, blobs, release, publisher, bundles, publications, governing, worker, now, crashes>>

InHand == {o \in Operators : command[o] # Idle}

(* A day goes by; a command takes no noticeable part of it.                *)
Tick ==
    /\ InHand = {} /\ now < MaxDays /\ now' = now + 1
    /\ UNCHANGED <<publishing, governing, worker, crashes>>

(* build_registry_bundle: its digest is of the definitions, and of the     *)
(* exact wheel and the platform versions it asks for when there is one.    *)
RegistryBundle(defs, wheel, requires) == [defs |-> defs, wheel |-> wheel, requires |-> requires]

(* _cmd_publish: a definitions-only bundle, no wheel.                      *)
PublishUnbound ==
    /\ publications < MaxPublications /\ publications' = publications + 1
    /\ bundles' = bundles \cup {RegistryBundle(checkout.defs, NoWheel, <<>>)}
    /\ UNCHANGED <<checkout, built, blobs, release, publisher, edits, governing, worker, now, crashes>>

Publisher(p, state) == publisher' = [publisher EXCEPT ![p] = state]

(* _cmd_publish_wheel: the manifest and the registry are read from the     *)
(* checkout first ...                                                      *)
LoadRegistry(p) ==
    /\ publisher[p] = Idle
    /\ publications < MaxPublications /\ publications' = publications + 1
    /\ Publisher(p, [pc |-> "build", defs |-> checkout.defs,
                    requires |-> requires_core[checkout.code]])
    /\ UNCHANGED <<checkout, built, blobs, release, bundles, edits, governing, worker, now, crashes>>

(* install_and_test_wheel: alone in a directory, identity and provider     *)
(* checked, the golden tests run against the registry it contains.         *)
install_and_test_wheel(w) == <<w.code, w.defs>> \in Golden

(* ... then the wheel is built from it, or given with --wheel, and tested. *)
BuildAndTest(p, w) ==
    /\ publisher[p].pc = "build"
    /\ w \in built \cup {checkout}
    /\ built' = built \cup {w}
    /\ Publisher(p, IF install_and_test_wheel(w)
                    THEN [pc |-> "write", defs |-> publisher[p].defs,
                          requires |-> publisher[p].requires, wheel |-> w]
                    ELSE Idle)
    /\ UNCHANGED <<checkout, blobs, release, bundles, edits, publications, governing, worker, now, crashes>>

(* Wrong version: the release record is overwritten.                       *)
OverwriteRelease(p) ==
    LET w == publisher[p].wheel IN
    /\ publisher[p].pc = "claim"
    /\ release' = [release EXCEPT ![w.version] = w]
    /\ Publisher(p, [publisher[p] EXCEPT !.pc = "verify"])
    /\ UNCHANGED <<checkout, built, blobs, bundles, edits, publications, governing, worker, now, crashes>>

(* WheelStore.put: the content-addressed wheel ...                         *)
WriteWheel(p) ==
    /\ publisher[p].pc = "write"
    /\ blobs' = blobs \cup {publisher[p].wheel}
    /\ Publisher(p, [publisher[p] EXCEPT !.pc = "claim"])
    /\ UNCHANGED <<checkout, built, release, bundles, edits, publications, governing, worker, now, crashes>>

(* _write_if_absent: one step on either backend.                           *)
write_if_absent(w) ==
    IF release[w.version] = NoWheel THEN [release EXCEPT ![w.version] = w] ELSE release

(* ... and the release record, first writer wins.                          *)
ClaimRelease(p) ==
    LET w == publisher[p].wheel IN
    /\ publisher[p].pc = "claim"
    /\ release' = write_if_absent(w)
    /\ Publisher(p, IF release'[w.version] = w
                    THEN [publisher[p] EXCEPT !.pc = "verify"] ELSE Idle)
    /\ UNCHANGED <<checkout, built, blobs, bundles, edits, publications, governing, worker, now, crashes>>

read_back_verify(w) == release[w.version] = w /\ w \in blobs

(* FileBundleStore.put of the bundle, once the store is read back; the     *)
(* same digest again is the same bundle.                                   *)
PutBundle(p) ==
    LET w == publisher[p].wheel IN
    /\ publisher[p].pc = "verify"
    /\ bundles' = IF read_back_verify(w)
                  THEN bundles \cup {RegistryBundle(publisher[p].defs, w, publisher[p].requires)} ELSE bundles
    /\ Publisher(p, Idle)
    /\ UNCHANGED <<checkout, built, blobs, release, edits, publications, governing, worker, now, crashes>>

PublisherDies(p) ==
    /\ publisher[p] # Idle
    /\ crashes < MaxCrashes /\ crashes' = crashes + 1
    /\ Publisher(p, Idle)
    /\ UNCHANGED <<checkout, built, blobs, release, bundles, edits, publications, governing, worker, now>>

-----------------------------------------------------------------------------
Previous(s) == IF pointer[s] = None THEN None ELSE pointer[s].bundle

Begin(o, cmd) ==
    /\ command[o] = Idle /\ Len(records) + crashes + Cardinality(InHand) < MaxCommands
    /\ command' = [command EXCEPT ![o] = cmd]
    /\ UNCHANGED <<publishing, pointer, records, entered, worker, now, crashes>>

Repoint(action, s, b, since, override) ==
    [pc |-> "set", action |-> action, stage |-> s, bundle |-> b, at |-> now,
     since |-> since, previous |-> Previous(s), override |-> override]

(* promote to shadow.                                                      *)
PromoteShadow(o, b) ==
    b \in bundles /\ Begin(o, Repoint("promote", "shadow", b, <<now>>, FALSE))

(* Wrong version: the age of whatever is in shadow.                        *)
SoakOfPointer(b) ==
    IF pointer["shadow"] # None THEN pointer["shadow"].since ELSE <<>>

(* The soak of b, as the shadow pointer tells it; <<>> for none.           *)
SoakOf(b) ==
    IF pointer["shadow"] # None /\ pointer["shadow"].bundle = b
    THEN pointer["shadow"].since ELSE <<>>

(* _promote_live: approvers without a duplicate, and the soak or an        *)
(* override with a reason.                                                 *)
PromoteLive(o, b, approved_by, override) ==
    /\ b \in bundles
    /\ Cardinality(approved_by) >= required_approvers
    /\ override \/ (SoakOf(b) # <<>> /\ now - SoakOf(b)[1] >= shadow_min_days)
    /\ Begin(o, Repoint("promote", "live", b, SoakOf(b), override))

(* rollback: to the previous bundle or to any digest; the bundle store is  *)
(* asked only if it is given.  The pointer's soak clock stays as it is.    *)
Rollback(o, s, b) ==
    /\ pointer[s] # None
    /\ b # None
    /\ Begin(o, Repoint("rollback", s, b,
                        IF s = "shadow" THEN pointer[s].since ELSE <<>>, FALSE))

(* set_pointer.                                                            *)
SetPointer(o) ==
    LET c == command[o] IN
    /\ c.pc = "set"
    /\ pointer' = [pointer EXCEPT ![c.stage] =
                      [bundle |-> c.bundle, since |-> c.since, previous |-> c.previous]]
    /\ entered' = IF c.stage = "shadow" /\ Previous("shadow") # c.bundle
                  THEN c.at ELSE entered
    /\ command' = [command EXCEPT ![o].pc = "record"]
    /\ UNCHANGED <<publishing, records, worker, now, crashes>>

(* append_record.                                                          *)
AppendRecord(o) ==
    LET c == command[o] IN
    /\ c.pc = "record"
    /\ records' = Append(records, [action |-> c.action, stage |-> c.stage,
                                   bundle |-> c.bundle, previous |-> c.previous])
    /\ command' = [command EXCEPT ![o] = Idle]
    /\ UNCHANGED <<publishing, pointer, entered, worker, now, crashes>>

OperatorDies(o) ==
    /\ command[o] # Idle
    /\ crashes < MaxCrashes /\ crashes' = crashes + 1
    /\ command' = [command EXCEPT ![o] = Idle]
    /\ UNCHANGED <<publishing, pointer, records, entered, worker, now>>

-----------------------------------------------------------------------------
(* build_image_context: a wheel that passes its golden tests, the registry *)
(* extracted from it and its evidence.  What ends up installed in the      *)
(* running image may be something else.                                    *)
Images == [wheel : {w \in built : install_and_test_wheel(w)}, installed : Codes, core : Cores]

(* The settings a worker is started with: the registry file and the code   *)
(* provider, which may be another one or not be set.  The image sets both  *)
(* for its wheel ("override per deployment if needed").                    *)
Settings == [registry : Defs, provider : {"wheel", "other", "unset"}]
AsBuilt(i, c) == c.registry = i.wheel.defs /\ c.provider = "wheel"

(* resolve_promoted_bundle.                                                *)
resolve_promoted_bundle(s) ==
    IF pointer[s] # None /\ pointer[s].bundle \in bundles THEN pointer[s].bundle ELSE None

Bound(b) == b # None /\ b.wheel # NoWheel

(* _compare_versions: component by component, the shorter padded with 0:   *)
(* negative, zero or positive.                                             *)
compare_versions(left, right) ==
    LET width == Max({Len(left), Len(right)})
        at(v, i) == IF i <= Len(v) THEN v[i] ELSE 0
        differ == {i \in 1..width : at(left, i) # at(right, i)}
    IN  IF differ = {} THEN 0
        ELSE IF at(left, Min(differ)) > at(right, Min(differ)) THEN 1 ELSE -1

(* core_version_satisfies: every clause, of those the grammar has.         *)
core_version_satisfies(installed, clauses) ==
    \A c \in ToSet(clauses) :
        LET cmp == compare_versions(installed, c[2])
        IN  CASE c[1] = "==" -> cmp = 0
              [] c[1] = ">=" -> cmp >= 0
              [] c[1] = "<=" -> cmp <= 0
              [] c[1] = ">"  -> cmp > 0
              [] c[1] = "<"  -> cmp < 0

(* _verify_installed_matches_wheel: every installed file, by its hash in   *)
(* the wheel's RECORD.                                                     *)
InstalledMatchesWheel(i) == i.installed = i.wheel.code

(* verify_feature_artifact: evidence and wheel file are the bundle's, the  *)
(* installed files are the wheel's, and the platform is one it works with. *)
verify_feature_artifact(i, b) ==
    /\ i.wheel = b.wheel
    /\ InstalledMatchesWheel(i) /\ core_version_satisfies(i.core, b.requires)

(* Wrong version: the served definitions are not compared.                 *)
EnforceArtifactOnly(i, c, b) ==
    Bound(b) /\ c.provider # "other" /\ verify_feature_artifact(i, b)

(* _enforce with binding required: the digest of the registry that will be *)
(* served is the bundle's, a provider that is set is the bundle's, and the *)
(* artifact verifies.  The registry is not compared with the wheel's.      *)
enforce_artifact_binding(i, c, b) ==
    /\ Bound(b)
    /\ c.registry = b.defs
    /\ c.provider # "other"
    /\ verify_feature_artifact(i, b)

BuiltIn == "built-in functions"

(* build_registry_and_udfs: a worker of a production environment starts or *)
(* terminates; without a provider it serves the functions of the platform. *)
StartWorker(i, c, s) ==
    LET b == resolve_promoted_bundle(s) IN
    /\ worker = Idle
    /\ enforce_artifact_binding(i, c, b)
    /\ worker' = [pc |-> "serving", stage |-> s, bundle |-> b,
                  code |-> IF c.provider = "unset" THEN BuiltIn ELSE i.installed,
                  registry |-> c.registry, core |-> i.core, as_built |-> AsBuilt(i, c)]
    /\ UNCHANGED <<publishing, governing, now, crashes>>

StopWorker ==
    /\ worker # Idle /\ worker' = Idle
    /\ UNCHANGED <<publishing, governing, now, crashes>>

-----------------------------------------------------------------------------
Unknown == [defs |-> "unknown", wheel |-> NoWheel, requires |-> <<>>]
Digests(s) == bundles \cup {Unknown} \cup
              (IF pointer[s] = None THEN {} ELSE {pointer[s].previous} \ {None})

Publication ==
    \/ \E s \in Source \ {checkout} : Edit(s)
    \/ PublishUnbound
    \/ \E p \in Publishers :
         \/ LoadRegistry(p) \/ WriteWheel(p) \/ ClaimRelease(p) \/ PutBundle(p)
         \/ PublisherDies(p)
         \/ \E w \in built \cup {checkout} : BuildAndTest(p, w)

Governance ==
    \E o \in Operators :
        \/ \E b \in bundles : PromoteShadow(o, b)
        \/ \E b \in bundles, a \in SUBSET Approvers, y \in BOOLEAN : PromoteLive(o, b, a, y)
        \/ \E s \in Stages : \E b \in Digests(s) : Rollback(o, s, b)
        \/ SetPointer(o) \/ AppendRecord(o) \/ OperatorDies(o)

WorkerLife ==
    \/ \E i \in Images, c \in Settings, s \in Stages : StartWorker(i, c, s)
    \/ StopWorker

Next == Publication \/ Governance \/ WorkerLife \/ Tick

Spec == Init /\ [][Next]_vars

-----------------------------------------------------------------------------
Requires == Seq({"==", ">=", "<=", ">", "<"} \X Seq(Nat))
Bundle == [defs : Defs, wheel : Source \cup {NoWheel}, requires : Requires]
Digest == Bundle \cup {Unknown}
Since == {<<>>} \cup {<<d>> : d \in 0..now}
PublisherState ==
    {Idle} \cup [pc : {"build"}, defs : Defs, requires : Requires]
           \cup [pc : {"write", "claim", "verify"}, defs : Defs, requires : Requires,
                 wheel : built]
Pointer == [bundle : Digest, since : Since, previous : Digest \cup {None}]
Command ==
    [pc : {"set", "record"}, action : {"promote", "rollback"}, stage : Stages,
     bundle : Digest, at : {now}, since : Since, previous : Digest \cup {None},
     override : BOOLEAN]
Record == [action : {"promote", "rollback"}, stage : Stages,
           bundle : Digest, previous : Digest \cup {None}]

TypeOK ==
    /\ checkout \in Source /\ built \subseteq Source /\ blobs \subseteq built
    /\ release \in [Versions -> Source \cup {NoWheel}]
    /\ publisher \in [Publishers -> PublisherState]
    /\ bundles \subseteq Bundle
    /\ pointer \in [Stages -> Pointer \cup {None}]
    /\ command \in [Operators -> Command \cup {Idle}]
    /\ records \in Seq(Record)
    /\ worker \in [pc : {"serving"}, stage : Stages, bundle : Bundle,
                   code : Codes \cup {BuiltIn}, registry : Defs, core : Cores,
                   as_built : BOOLEAN] \cup {Idle}
    /\ now \in 0..MaxDays /\ entered \in 0..now
    /\ edits \in 0..MaxEdits /\ publications \in 0..MaxPublications
    /\ crashes \in 0..MaxCrashes

(* A version stands for one wheel, whatever publishers race and die: no    *)
(* two bundles bind different wheels of one version, and every bound wheel *)
(* has passed its tests and can be fetched.                                *)
OneWheelPerVersion ==
    \A b \in bundles : Bound(b) =>
        /\ b.wheel \in blobs /\ release[b.wheel.version] = b.wheel
        /\ <<b.wheel.code, b.wheel.defs>> \in Golden

(* The order of versions: the first component in which they differ         *)
(* decides, and a component that is not there counts as 0.                 *)
Component(v, i) == IF i <= Len(v) THEN v[i] ELSE 0
Later(v, u) ==
    \E i \in 1..(Len(v) + Len(u)) :
        /\ Component(v, i) > Component(u, i)
        /\ \A j \in 1..(i - 1) : Component(v, j) = Component(u, j)
Admits(clause, core) ==
    CASE clause[1] = "==" -> ~Later(core, clause[2]) /\ ~Later(clause[2], core)
      [] clause[1] = ">=" -> ~Later(clause[2], core)
      [] clause[1] = "<=" -> ~Later(core, clause[2])
      [] clause[1] = ">"  -> Later(core, clause[2])
      [] clause[1] = "<"  -> Later(clause[2], core)

(* The chain the artifact verifier documents: the definitions a worker     *)
(* serves are those of the promoted bundle, the code is that of its wheel, *)
(* which is the published one and passed the golden tests on the registry  *)
(* it contains, and the platform is of a version the manifest admits.  In  *)
(* an image that runs with the settings it was built with, the code and    *)
(* the definitions served passed the tests together; with another registry *)
(* file only the definitions are known to be the bundle's, and without a   *)
(* provider the code is the platform's own.                                *)
ServedIsTested ==
    worker # Idle =>
        LET b == worker.bundle IN
        /\ b \in bundles /\ worker.registry = b.defs
        /\ release[b.wheel.version] = b.wheel /\ <<b.wheel.code, b.wheel.defs>> \in Golden
        /\ worker.code \in {b.wheel.code, BuiltIn}
        /\ worker.as_built => <<worker.code, worker.registry>> \in Golden
        /\ \A c \in ToSet(b.requires) : Admits(c, worker.core)

ShadowRollback(c) == c.action = "rollback" /\ c.stage = "shadow"
ShadowRolledBack ==
    \/ \E i \in DOMAIN records : ShadowRollback(records[i])
    \/ \E o \in InHand : ShadowRollback(command[o])
    \/ crashes > 0

BeginsUnsoaked ==
    \E o \in Operators :
        /\ command[o] = Idle /\ command'[o] # Idle
        /\ command'[o].action = "promote" /\ command'[o].stage = "live"
        /\ ~command'[o].override
        /\ ~ /\ Previous("shadow") = command'[o].bundle
             /\ now - entered >= shadow_min_days

(* A bundle promoted to live without an override has been the shadow       *)
(* bundle for the profile's minimum, counted from when it became so;       *)
(* except after a rollback of the shadow pointer (or an operator that died *)
(* and so may have left no record of one), which keeps the old clock.      *)
SoakEnforced == [][BeginsUnsoaked => ShadowRolledBack]_vars

(* The same for every promotion, as promote() documents it: "Promoting to  *)
(* ``live`` enforces the profile's unique-approver count and shadow soak". *)
SoakAlwaysEnforced == [][~BeginsUnsoaked]_vars
=============================================================================
