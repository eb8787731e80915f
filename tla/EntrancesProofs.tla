--------------------------- MODULE EntrancesProofs ---------------------------
(***************************************************************************)
(* What the entrances of the platform guarantee, for any number of         *)
(* publishers, operators, runs, rows, messages and interruptions.          *)
(* Releases: one tested wheel per version, the chain from the promoted     *)
(* bundle to the served code, and the soak.  Raw landing: what a batch job *)
(* is given resolves.  Imports: others see only what is durable.  Scores:  *)
(* a committed score write is settled.                                     *)
(***************************************************************************)
EXTENDS Entrances, WellFoundedInduction, TLAPS

-----------------------------------------------------------------------------
(* Releases: the order of versions.                                        *)

(* A nonempty set of numbers has a least one, and Min is it.               *)
LEMMA MinIsLeast ==
    ASSUME NEW S \in SUBSET Nat, S # {}
    PROVE  Min(S) \in S /\ \A y \in S : Min(S) <= y
  <1> DEFINE R == {ss \in Nat \X Nat : ss[1] < ss[2]}
  <1>1. IsWellFoundedOn(R, Nat)
    BY NatLessThanWellFounded, Zenon DEF OpToRel
  <1>2. PICK x \in S : \A y \in S : ~(<<y, x>> \in R)
    BY <1>1, WFMin
  <1>3. ASSUME NEW y \in S PROVE x <= y
    <2>1. y \in Nat /\ x \in Nat /\ ~(<<y, x>> \in R)
      BY <1>2
    <2>2. <<y, x>> \in Nat \X Nat /\ <<y, x>>[1] = y /\ <<y, x>>[2] = x
      BY <2>1
    <2>3. ~(y < x)
      BY <2>1, <2>2, Zenon
    <2> QED
      BY <2>1, <2>3
  <1> QED
    BY <1>3 DEF Min

(* _compare_versions decides at the first component that differs: it is    *)
(* the order of versions.                                                  *)
LEMMA CompareIsOrder ==
    ASSUME NEW l \in Seq(Nat), NEW r \in Seq(Nat)
    PROVE  /\ compare_versions(l, r) \in {-1, 0, 1}
           /\ compare_versions(l, r) = 1 <=> Later(l, r)
           /\ compare_versions(l, r) = -1 <=> Later(r, l)
  <1> DEFINE width == Max({Len(l), Len(r)})
             a(i) == Component(l, i)
             b(i) == Component(r, i)
             differ == {i \in 1..width : a(i) # b(i)}
  <1>1. /\ Len(l) \in Nat /\ Len(r) \in Nat
        /\ width \in Nat /\ width >= Len(l) /\ width >= Len(r) /\ width <= Len(l) + Len(r)
    BY DEF Max
  <1> HIDE DEF width
  <1>2. \A i \in Nat \ {0} : a(i) \in Nat /\ b(i) \in Nat
    BY <1>1 DEF Component
  <1>3. \A i \in Nat \ {0} : a(i) # b(i) => i \in differ
    BY <1>1 DEF Component
  <1>4. compare_versions(l, r) = IF differ = {} THEN 0
                                 ELSE IF a(Min(differ)) > b(Min(differ)) THEN 1 ELSE -1
    BY DEF compare_versions, Component, width
  <1>d. differ \in SUBSET Nat /\ \A i \in differ : i \in 1..width /\ a(i) # b(i)
    BY <1>1
  <1>5. CASE differ = {}
    <2>1. \A i \in Nat \ {0} : a(i) = b(i)
      BY <1>3, <1>5
    <2>2. \A i \in 1..(Len(l) + Len(r)) : a(i) = b(i) /\ a(i) \in Nat
      BY <1>1, <1>2, <2>1
    <2>3. ~Later(l, r) /\ ~Later(r, l)
      BY <1>1, <2>2 DEF Later
    <2> QED
      BY <1>4, <1>5, <2>3
  <1>6. CASE differ # {}
    <2> DEFINE m == Min(differ)
    <2>1. m \in differ /\ \A y \in differ : m <= y
      BY <1>d, <1>6, MinIsLeast
    <2> HIDE DEF m
    <2>2. m \in 1..(Len(l) + Len(r)) /\ m \in Nat \ {0} /\ a(m) # b(m)
      BY <1>1, <1>d, <2>1
    <2>3. \A j \in 1..(m - 1) : a(j) = b(j)
      <3>1. ASSUME NEW j \in 1..(m - 1), a(j) # b(j) PROVE FALSE
        <4>1. j \in Nat \ {0} /\ j < m
          BY <2>2
        <4>2. j \in differ
          BY <1>3, <3>1, <4>1
        <4> QED
          BY <2>1, <2>2, <4>1, <4>2
      <3> QED
        BY <3>1
    <2>4. ASSUME NEW i \in 1..(Len(l) + Len(r)), a(i) # b(i),
                 \A j \in 1..(i - 1) : a(j) = b(j)
          PROVE  i = m
      <3>1. i \in Nat \ {0} /\ i \in differ
        BY <1>1, <1>3, <2>4
      <3>2. m <= i
        BY <2>1, <3>1
      <3>3. ~(m < i)
        <4>1. ASSUME m < i PROVE FALSE
          <5>1. m \in 1..(i - 1)
            BY <2>2, <3>1, <4>1
          <5> QED
            BY <2>2, <2>4, <5>1
        <4> QED
          BY <4>1
      <3> QED
        BY <2>2, <3>1, <3>2, <3>3
    <2>5. a(m) \in Nat /\ b(m) \in Nat
      BY <1>2, <2>2
    <2>6. Later(l, r) <=> a(m) > b(m)
      <3>1. ASSUME Later(l, r) PROVE a(m) > b(m)
        <4>1. PICK i \in 1..(Len(l) + Len(r)) :
                 a(i) > b(i) /\ \A j \in 1..(i - 1) : a(j) = b(j)
          BY <3>1 DEF Later
        <4>2. i \in Nat \ {0}
          BY <1>1
        <4>3. a(i) # b(i)
          BY <1>2, <4>1, <4>2
        <4> QED
          BY <2>4, <4>1, <4>3
      <3>2. ASSUME a(m) > b(m) PROVE Later(l, r)
        BY <2>2, <2>3, <3>2 DEF Later
      <3> QED
        BY <3>1, <3>2
    <2>7. Later(r, l) <=> b(m) > a(m)
      <3>0. Len(r) + Len(l) = Len(l) + Len(r)
        BY <1>1
      <3>1. ASSUME Later(r, l) PROVE b(m) > a(m)
        <4>1. PICK i \in 1..(Len(l) + Len(r)) :
                 b(i) > a(i) /\ \A j \in 1..(i - 1) : b(j) = a(j)
          BY <3>0, <3>1 DEF Later
        <4>2. i \in Nat \ {0}
          BY <1>1
        <4>3. a(i) # b(i)
          BY <1>2, <4>1, <4>2
        <4> QED
          BY <2>4, <4>1, <4>3
      <3>2. ASSUME b(m) > a(m) PROVE Later(r, l)
        BY <2>2, <2>3, <3>0, <3>2 DEF Later
      <3> QED
        BY <3>1, <3>2
    <2>8. compare_versions(l, r) = IF a(m) > b(m) THEN 1 ELSE -1
      BY <1>4, <1>6 DEF m
    <2> QED
      BY <2>2, <2>5, <2>6, <2>7, <2>8
  <1> QED
    BY <1>5, <1>6

(* core_version_satisfies admits exactly the versions each clause means.   *)
LEMMA SatisfiesIsAdmits ==
    ASSUME NEW core \in Seq(Nat), NEW clauses \in Requires,
           core_version_satisfies(core, clauses)
    PROVE  \A c \in ToSet(clauses) : Admits(c, core)
  <1> SUFFICES ASSUME NEW c \in ToSet(clauses) PROVE Admits(c, core)
    OBVIOUS
  <1>1. c[1] \in {"==", ">=", "<=", ">", "<"} /\ c[2] \in Seq(Nat)
    BY DEF ToSet, Requires
  <1> DEFINE cmp == compare_versions(core, c[2])
  <1>2. /\ cmp \in {-1, 0, 1} /\ (cmp = 1 <=> Later(core, c[2]))
        /\ (cmp = -1 <=> Later(c[2], core))
    BY <1>1, CompareIsOrder
  <1>3. (CASE c[1] = "==" -> cmp = 0
           [] c[1] = ">=" -> cmp >= 0
           [] c[1] = "<=" -> cmp <= 0
           [] c[1] = ">"  -> cmp > 0
           [] c[1] = "<"  -> cmp < 0)
    BY DEF core_version_satisfies
  <1> HIDE DEF cmp
  <1>4. CASE c[1] = "=="
    BY <1>2, <1>3, <1>4 DEF Admits
  <1>5. CASE c[1] = ">="
    BY <1>2, <1>3, <1>5 DEF Admits
  <1>6. CASE c[1] = "<="
    BY <1>2, <1>3, <1>6 DEF Admits
  <1>7. CASE c[1] = ">"
    BY <1>2, <1>3, <1>7 DEF Admits
  <1>8. CASE c[1] = "<"
    BY <1>2, <1>3, <1>8 DEF Admits
  <1> QED
    BY <1>1, <1>4, <1>5, <1>6, <1>7, <1>8

-----------------------------------------------------------------------------
(* Types.                                                                  *)

Busy == [pc : {"write", "claim", "verify"}, defs : Defs, requires : Requires, wheel : built]

PublishingOK ==
    /\ checkout \in Source /\ built \subseteq Source /\ blobs \subseteq built
    /\ release \in [Versions -> Source \cup {NoWheel}]
    /\ publisher \in [Publishers -> PublisherState]
    /\ bundles \subseteq Bundle
    /\ edits \in 0..MaxEdits /\ publications \in 0..MaxPublications
GoverningOK ==
    /\ pointer \in [Stages -> Pointer \cup {None}]
    /\ command \in [Operators -> Command \cup {Idle}]
    /\ records \in Seq(Record)
    /\ now \in 0..MaxDays /\ entered \in 0..now
WorkerOK ==
    worker \in [pc : {"serving"}, stage : Stages, bundle : Bundle,
                code : Codes \cup {BuiltIn}, registry : Defs, core : Cores,
                as_built : BOOLEAN] \cup {Idle}

(* The type invariant, part by part.                                       *)
LEMMA TypeParts ==
    /\ TypeOK <=> PublishingOK /\ GoverningOK /\ WorkerOK /\ crashes \in 0..MaxCrashes
    /\ TypeOK' <=> PublishingOK' /\ GoverningOK' /\ WorkerOK' /\ crashes' \in 0..MaxCrashes
  BY DEF TypeOK, PublishingOK, GoverningOK, WorkerOK

(* The bounds are natural numbers, and a wheel of the store is none.       *)
LEMMA Constants ==
    /\ MaxPublications \in Nat /\ MaxEdits \in Nat /\ MaxDays \in Nat /\ MaxCrashes \in Nat
    /\ requires_core \in [Codes -> Requires]
    /\ \A w \in Source : w # NoWheel /\ w.version \in Versions /\ w.code \in Codes /\ w.defs \in Defs
  <1>1. \A w \in Source : w.version \in Versions /\ w.code \in Codes /\ w.defs \in Defs
    BY DEF Source
  <1>2. \A w \in Source : w.version # 0
    BY <1>1, ReleaseAssumption
  <1>3. NoWheel.version = 0
    BY DEF NoWheel
  <1> QED
    BY <1>1, <1>2, <1>3, ReleaseAssumption DEF Requires

(* The states a publisher may be in when it has a wheel, and when not.     *)
LEMMA PublisherStates ==
    ASSUME PublishingOK, NEW p \in Publishers
    PROVE  /\ publisher[p].pc \in {"write", "claim", "verify"} => publisher[p] \in Busy
           /\ publisher[p].pc = "build" =>
                 publisher[p].defs \in Defs /\ publisher[p].requires \in Requires
  BY DEF PublishingOK, PublisherState, Busy, Idle

(* A publisher that goes on with the wheel it has.                         *)
LEMMA BusyGoesOn ==
    ASSUME PublishingOK, NEW p \in Publishers, NEW step \in {"write", "claim", "verify"},
           publisher[p].pc \in {"write", "claim", "verify"}
    PROVE  /\ [publisher[p] EXCEPT !.pc = step] \in Busy
           /\ [publisher[p] EXCEPT !.pc = step].wheel = publisher[p].wheel
           /\ [publisher[p] EXCEPT !.pc = step].pc = step
  <1>1. publisher[p] \in Busy
    BY PublisherStates
  <1> QED
    BY <1>1 DEF Busy

(* Setting one publisher's state.                                          *)
LEMMA PublisherType ==
    ASSUME PublishingOK, NEW p \in Publishers, NEW q, q \in Busy \/ q = Idle,
           Publisher(p, q), UNCHANGED built
    PROVE  /\ publisher' \in [Publishers -> PublisherState']
           /\ publisher'[p] = q /\ \A r \in Publishers \ {p} : publisher'[r] = publisher[r]
  <1>1. PublisherState' = PublisherState /\ q \in PublisherState
    BY DEF PublisherState, Busy
  <1>2. publisher \in [Publishers -> PublisherState] /\ publisher' = [publisher EXCEPT ![p] = q]
    BY DEF PublishingOK, Publisher
  <1> QED
    BY <1>1, <1>2

(* Publishing keeps its types.                                             *)
LEMMA PublicationTypes ==
    ASSUME TypeOK, Publication
    PROVE  TypeOK'
  <1>0. PublishingOK /\ GoverningOK /\ WorkerOK /\ crashes \in 0..MaxCrashes
    BY TypeParts
  <1>r. /\ UNCHANGED <<governing, worker, now>>
        /\ \/ UNCHANGED crashes
           \/ crashes < MaxCrashes /\ crashes' = crashes + 1
    BY DEF Publication, Edit, PublishUnbound, LoadRegistry, WriteWheel, ClaimRelease,
           PutBundle, PublisherDies, BuildAndTest
  <1>1. crashes' \in 0..MaxCrashes
    BY <1>0, <1>r, Constants
  <1>2. GoverningOK' /\ WorkerOK'
    BY <1>0, <1>r DEF GoverningOK, WorkerOK, governing, Pointer, Command, Record, Since,
                      Digest, Bundle
  <1>3. PublishingOK'
    <2>1. ASSUME NEW x \in Source, Edit(x) PROVE PublishingOK'
      BY <1>0, <2>1, Constants DEF PublishingOK, Edit, PublisherState
    <2>2. CASE PublishUnbound
      <3>1. RegistryBundle(checkout.defs, NoWheel, <<>>) \in Bundle
        BY <1>0, Constants DEF PublishingOK, RegistryBundle, Bundle, Requires
      <3> QED
        BY <1>0, <2>2, <3>1, Constants DEF PublishingOK, PublishUnbound, PublisherState
    <2>3. ASSUME NEW p \in Publishers, LoadRegistry(p) PROVE PublishingOK'
      <3> DEFINE q == [pc |-> "build", defs |-> checkout.defs,
                       requires |-> requires_core[checkout.code]]
      <3>1. q \in PublisherState
        BY <1>0, Constants DEF PublishingOK, PublisherState
      <3>2. publisher' = [publisher EXCEPT ![p] = q]
        BY <2>3 DEF LoadRegistry, Publisher
      <3> HIDE DEF q
      <3>3. publisher' \in [Publishers -> PublisherState]
        BY <1>0, <3>1, <3>2 DEF PublishingOK
      <3>4. PublisherState' = PublisherState
        BY <2>3 DEF PublisherState, LoadRegistry
      <3>5. /\ UNCHANGED <<checkout, built, blobs, release, bundles, edits>>
            /\ publications < MaxPublications /\ publications' = publications + 1
        BY <2>3 DEF LoadRegistry
      <3> QED
        BY <1>0, <3>3, <3>4, <3>5, Constants DEF PublishingOK
    <2>4. ASSUME NEW p \in Publishers, NEW w \in built \cup {checkout}, BuildAndTest(p, w)
          PROVE  PublishingOK'
      <3>1. w \in Source /\ built' \subseteq Source /\ built \subseteq built' /\ w \in built'
        BY <1>0, <2>4 DEF PublishingOK, BuildAndTest
      <3>2. PICK q : /\ publisher' = [publisher EXCEPT ![p] = q]
                     /\ q \in {Idle, [pc |-> "write", defs |-> publisher[p].defs,
                                      requires |-> publisher[p].requires, wheel |-> w]}
        BY <2>4 DEF BuildAndTest, Publisher
      <3>3. publisher[p].defs \in Defs /\ publisher[p].requires \in Requires
        BY <1>0, <2>4, PublisherStates DEF BuildAndTest
      <3>4. q \in PublisherState'
        BY <3>1, <3>2, <3>3 DEF PublisherState
      <3>5. PublisherState \subseteq PublisherState'
        BY <3>1 DEF PublisherState
      <3>6. publisher' \in [Publishers -> PublisherState']
        BY <1>0, <3>2, <3>4, <3>5 DEF PublishingOK
      <3>7. UNCHANGED <<checkout, blobs, release, bundles, edits, publications>>
        BY <2>4 DEF BuildAndTest
      <3> QED
        BY <1>0, <3>1, <3>6, <3>7 DEF PublishingOK
    <2>5. ASSUME NEW p \in Publishers, WriteWheel(p) PROVE PublishingOK'
      <3>1. [publisher[p] EXCEPT !.pc = "claim"] \in Busy /\ publisher[p] \in Busy
        BY <1>0, <2>5, BusyGoesOn, PublisherStates DEF WriteWheel
      <3>2. publisher' \in [Publishers -> PublisherState']
        BY <1>0, <2>5, <3>1, PublisherType DEF WriteWheel
      <3>3. publisher[p].wheel \in built
        BY <3>1 DEF Busy
      <3> QED
        BY <1>0, <2>5, <3>2, <3>3 DEF PublishingOK, WriteWheel
    <2>6. ASSUME NEW p \in Publishers, ClaimRelease(p) PROVE PublishingOK'
      <3>1. [publisher[p] EXCEPT !.pc = "verify"] \in Busy /\ publisher[p] \in Busy
        BY <1>0, <2>6, BusyGoesOn, PublisherStates DEF ClaimRelease
      <3>2. PICK q : Publisher(p, q) /\ q \in {Idle, [publisher[p] EXCEPT !.pc = "verify"]}
        BY <2>6 DEF ClaimRelease
      <3>3. publisher' \in [Publishers -> PublisherState']
        BY <1>0, <2>6, <3>1, <3>2, PublisherType DEF ClaimRelease
      <3>4. publisher[p].wheel \in Source
        BY <1>0, <3>1 DEF Busy, PublishingOK
      <3>5. release' \in [Versions -> Source \cup {NoWheel}]
        BY <1>0, <2>6, <3>4, Constants DEF ClaimRelease, write_if_absent, PublishingOK
      <3> QED
        BY <1>0, <2>6, <3>3, <3>5 DEF PublishingOK, ClaimRelease
    <2>7. ASSUME NEW p \in Publishers, PutBundle(p) PROVE PublishingOK'
      <3>1. publisher[p] \in Busy
        BY <1>0, <2>7, PublisherStates DEF PutBundle
      <3>2. publisher' \in [Publishers -> PublisherState']
        BY <1>0, <2>7, PublisherType DEF PutBundle
      <3>3. RegistryBundle(publisher[p].defs, publisher[p].wheel, publisher[p].requires) \in Bundle
        BY <1>0, <3>1 DEF Busy, Bundle, RegistryBundle, PublishingOK
      <3>4. bundles' \subseteq Bundle
        BY <1>0, <2>7, <3>3 DEF PutBundle, PublishingOK
      <3> QED
        BY <1>0, <2>7, <3>2, <3>4 DEF PublishingOK, PutBundle
    <2>8. ASSUME NEW p \in Publishers, PublisherDies(p) PROVE PublishingOK'
      <3>1. publisher' \in [Publishers -> PublisherState']
        BY <1>0, <2>8, PublisherType DEF PublisherDies
      <3> QED
        BY <1>0, <2>8, <3>1 DEF PublishingOK, PublisherDies
    <2> QED
      BY <2>1, <2>2, <2>3, <2>4, <2>5, <2>6, <2>7, <2>8 DEF Publication
  <1> QED
    BY <1>1, <1>2, <1>3, TypeParts

(* A command's repoint is well typed.                                      *)
LEMMA RepointType ==
    ASSUME GoverningOK, NEW action \in {"promote", "rollback"}, NEW s \in Stages,
           NEW b \in Digest, NEW since \in Since, NEW y \in BOOLEAN
    PROVE  Repoint(action, s, b, since, y) \in Command
  <1>1. Previous(s) \in Digest \cup {None}
    BY DEF GoverningOK, Previous, Pointer
  <1> QED
    BY <1>1 DEF Repoint, Command

(* Governance keeps its types.                                             *)
LEMMA GovernanceTypes ==
    ASSUME TypeOK, Governance
    PROVE  TypeOK'
  <1>0. PublishingOK /\ GoverningOK /\ WorkerOK /\ crashes \in 0..MaxCrashes
    BY TypeParts
  <1>r. /\ UNCHANGED <<publishing, worker, now>>
        /\ \/ UNCHANGED crashes
           \/ crashes < MaxCrashes /\ crashes' = crashes + 1
    BY DEF Governance, PromoteShadow, PromoteLive, Rollback, Begin, SetPointer, AppendRecord,
           OperatorDies
  <1>1. crashes' \in 0..MaxCrashes
    BY <1>0, <1>r, Constants
  <1>2. PublishingOK' /\ WorkerOK'
    BY <1>0, <1>r DEF PublishingOK, WorkerOK, publishing, PublisherState, Bundle
  <1>3. Since' = Since /\ Command' = Command /\ Pointer' = Pointer /\ now' = now
    BY <1>r DEF Since, Command, Pointer
  <1>b. bundles \subseteq Digest /\ Unknown \in Digest
    BY <1>0 DEF PublishingOK, Digest
  <1>n. <<now>> \in Since /\ <<>> \in Since /\ now \in 0..MaxDays
    BY <1>0, Constants DEF Since, GoverningOK
  <1>4. ASSUME NEW o \in Operators, NEW c \in Command, Begin(o, c) PROVE GoverningOK'
    <2>1. command' \in [Operators -> Command \cup {Idle}]
      BY <1>0, <1>4 DEF Begin, GoverningOK
    <2> QED
      BY <1>0, <1>3, <1>4, <2>1 DEF Begin, GoverningOK
  <1>5. ASSUME NEW o \in Operators, NEW b \in bundles, PromoteShadow(o, b) PROVE GoverningOK'
    <2>1. Repoint("promote", "shadow", b, <<now>>, FALSE) \in Command
      BY <1>0, <1>b, <1>n, RepointType DEF Stages
    <2> QED
      BY <1>4, <1>5, <2>1 DEF PromoteShadow
  <1>6. ASSUME NEW o \in Operators, NEW b \in bundles, NEW a \in SUBSET Approvers,
               NEW y \in BOOLEAN, PromoteLive(o, b, a, y)
        PROVE  GoverningOK'
    <2>1. SoakOf(b) \in Since
      BY <1>0, <1>n DEF SoakOf, GoverningOK, Pointer, Stages
    <2>2. Repoint("promote", "live", b, SoakOf(b), y) \in Command
      BY <1>0, <1>b, <2>1, RepointType DEF Stages
    <2> QED
      BY <1>4, <1>6, <2>2 DEF PromoteLive
  <1>7. ASSUME NEW o \in Operators, NEW s \in Stages, NEW b \in Digests(s), Rollback(o, s, b)
        PROVE  GoverningOK'
    <2> DEFINE since == IF s = "shadow" THEN pointer[s].since ELSE <<>>
    <2>1. pointer[s] \in Pointer
      BY <1>0, <1>7 DEF Rollback, GoverningOK
    <2>2. since \in Since
      BY <1>n, <2>1 DEF Pointer
    <2>3. b \in Digest
      BY <1>b, <2>1 DEF Digests, Pointer
    <2> HIDE DEF since
    <2>4. Repoint("rollback", s, b, since, FALSE) \in Command
      BY <1>0, <2>2, <2>3, RepointType
    <2> QED
      BY <1>4, <1>7, <2>4 DEF Rollback, since
  <1>8. ASSUME NEW o \in Operators, SetPointer(o) PROVE GoverningOK'
    <2> DEFINE c == command[o]
    <2>1. c \in Command
      BY <1>0, <1>8 DEF SetPointer, GoverningOK, Idle
    <2>2. [bundle |-> c.bundle, since |-> c.since, previous |-> c.previous] \in Pointer
      BY <2>1 DEF Pointer, Command
    <2>3. pointer' \in [Stages -> Pointer \cup {None}]
      BY <1>0, <1>8, <2>1, <2>2 DEF SetPointer, GoverningOK
    <2>4. [c EXCEPT !.pc = "record"] \in Command
      BY <2>1 DEF Command
    <2>5. command' = [command EXCEPT ![o] = [c EXCEPT !.pc = "record"]]
      BY <1>8 DEF SetPointer
    <2>6. command' \in [Operators -> Command \cup {Idle}]
      BY <1>0, <2>4, <2>5 DEF GoverningOK
    <2>7. entered' \in 0..now
      BY <1>0, <1>8, <1>n, <2>1, Constants DEF SetPointer, GoverningOK, Command
    <2> QED
      BY <1>0, <1>3, <1>8, <2>3, <2>6, <2>7 DEF SetPointer, GoverningOK
  <1>9. ASSUME NEW o \in Operators, AppendRecord(o) PROVE GoverningOK'
    <2> DEFINE c == command[o]
               r == [action |-> c.action, stage |-> c.stage,
                     bundle |-> c.bundle, previous |-> c.previous]
    <2>1. c \in Command
      BY <1>0, <1>9 DEF AppendRecord, GoverningOK, Idle
    <2>2. r \in Record
      BY <2>1 DEF Record, Command
    <2>3. records' = Append(records, r)
      BY <1>9 DEF AppendRecord
    <2> HIDE DEF r
    <2>4. records' \in Seq(Record)
      BY <1>0, <2>2, <2>3 DEF GoverningOK
    <2>5. command' \in [Operators -> Command \cup {Idle}]
      BY <1>0, <1>9 DEF AppendRecord, GoverningOK
    <2> QED
      BY <1>0, <1>3, <1>9, <2>4, <2>5 DEF AppendRecord, GoverningOK
  <1>10. ASSUME NEW o \in Operators, OperatorDies(o) PROVE GoverningOK'
    <2>1. command' \in [Operators -> Command \cup {Idle}]
      BY <1>0, <1>10 DEF OperatorDies, GoverningOK
    <2> QED
      BY <1>0, <1>3, <1>10, <2>1 DEF OperatorDies, GoverningOK
  <1>11. GoverningOK'
    BY <1>5, <1>6, <1>7, <1>8, <1>9, <1>10 DEF Governance
  <1> QED
    BY <1>1, <1>2, <1>11, TypeParts

(* Each step keeps the types.                                              *)
LEMMA TypeStep == TypeOK /\ [Next]_vars => TypeOK'
  <1> SUFFICES ASSUME TypeOK, [Next]_vars PROVE TypeOK'
    OBVIOUS
  <1>0. PublishingOK /\ GoverningOK /\ WorkerOK /\ crashes \in 0..MaxCrashes
    BY TypeParts
  <1>1. CASE Publication
    BY <1>1, PublicationTypes
  <1>2. CASE Governance
    BY <1>2, GovernanceTypes
  <1>3. ASSUME UNCHANGED <<publishing, governing, now, crashes>>, WorkerOK' PROVE TypeOK'
    <2>1. PublishingOK' /\ crashes' \in 0..MaxCrashes
      BY <1>0, <1>3 DEF PublishingOK, publishing, PublisherState
    <2>2. GoverningOK'
      BY <1>0, <1>3 DEF GoverningOK, governing, Pointer, Command, Since
    <2> QED
      BY <1>3, <2>1, <2>2, TypeParts
  <1>4. CASE WorkerLife
    <2>1. ASSUME NEW i \in Images, NEW c \in Settings, NEW s \in Stages, StartWorker(i, c, s)
          PROVE  WorkerOK'
      <3> DEFINE b == resolve_promoted_bundle(s)
      <3>1. b # None /\ b \in Bundle
        BY <1>0, <2>1 DEF StartWorker, enforce_artifact_binding, Bound,
                          resolve_promoted_bundle, PublishingOK
      <3>2. i.installed \in Codes /\ i.core \in Cores
        BY DEF Images
      <3>3. c.registry \in Defs /\ AsBuilt(i, c) \in BOOLEAN
        BY DEF Settings, AsBuilt
      <3>4. worker' = [pc |-> "serving", stage |-> s, bundle |-> b,
                       code |-> IF c.provider = "unset" THEN BuiltIn ELSE i.installed,
                       registry |-> c.registry, core |-> i.core, as_built |-> AsBuilt(i, c)]
        BY <2>1 DEF StartWorker
      <3> HIDE DEF b
      <3>5. worker' \in [pc : {"serving"}, stage : Stages, bundle : Bundle,
                         code : Codes \cup {BuiltIn}, registry : Defs, core : Cores,
                         as_built : BOOLEAN]
        BY <3>1, <3>2, <3>3, <3>4
      <3> QED
        BY <3>5 DEF WorkerOK
    <2>2. StopWorker => WorkerOK'
      BY DEF StopWorker, WorkerOK
    <2>3. WorkerOK'
      BY <1>4, <2>1, <2>2 DEF WorkerLife
    <2>4. UNCHANGED <<publishing, governing, now, crashes>>
      BY <1>4 DEF WorkerLife, StartWorker, StopWorker
    <2> QED
      BY <1>3, <2>3, <2>4
  <1>5. CASE Tick
    <2>1. PublishingOK' /\ crashes' \in 0..MaxCrashes /\ WorkerOK'
      BY <1>0, <1>5 DEF Tick, PublishingOK, publishing, PublisherState, WorkerOK
    <2>2. now \in 0..MaxDays /\ now' = now + 1 /\ now' \in 0..MaxDays
      BY <1>0, <1>5, Constants DEF Tick, GoverningOK
    <2>3. Since \subseteq Since'
      BY <2>2, Constants DEF Since
    <2>4. Pointer \subseteq Pointer'
      BY <2>3 DEF Pointer
    <2>5. \A o \in Operators : command[o] = Idle
      BY <1>5 DEF Tick, InHand
    <2>6. UNCHANGED governing
      BY <1>5 DEF Tick
    <2>7. command' \in [Operators -> Command' \cup {Idle}]
      BY <1>0, <2>5, <2>6 DEF GoverningOK, governing
    <2>8. pointer' \in [Stages -> Pointer' \cup {None}]
      BY <1>0, <2>4, <2>6 DEF GoverningOK, governing
    <2>9. entered' \in 0..now' /\ records' \in Seq(Record)
      BY <1>0, <2>2, <2>6, Constants DEF GoverningOK, governing
    <2>10. GoverningOK'
      BY <2>2, <2>7, <2>8, <2>9 DEF GoverningOK
    <2> QED
      BY <2>1, <2>10, TypeParts
  <1>6. CASE UNCHANGED vars
    <2>1. WorkerOK' /\ UNCHANGED <<publishing, governing, now, crashes>>
      BY <1>0, <1>6 DEF vars, WorkerOK
    <2> QED
      BY <1>3, <2>1
  <1> QED
    BY <1>1, <1>2, <1>4, <1>5, <1>6 DEF Next

(* Every variable keeps its type: a publisher only carries wheels that     *)
(* were built, and pointers, commands and records name bundles.            *)
THEOREM TypeCorrect == Spec => []TypeOK
  <1>1. Init => TypeOK
    <2> SUFFICES ASSUME Init PROVE TypeOK
      OBVIOUS
    <2>1. PublishingOK
      BY ReleaseAssumption, Constants DEF Init, PublishingOK, PublisherState
    <2>2. GoverningOK
      BY Constants DEF Init, GoverningOK
    <2>3. WorkerOK /\ crashes \in 0..MaxCrashes
      BY Constants DEF Init, WorkerOK
    <2> QED
      BY <2>1, <2>2, <2>3, TypeParts
  <1> QED
    BY <1>1, TypeStep, PTL DEF Spec

-----------------------------------------------------------------------------
(* One tested wheel per version.                                           *)

(* What a publisher has established of its wheel at each step: it has      *)
(* passed its tests, then it is in the store.                              *)
PublisherInv ==
    \A p \in Publishers :
        /\ publisher[p].pc \in {"write", "claim", "verify"} =>
              install_and_test_wheel(publisher[p].wheel)
        /\ publisher[p].pc \in {"claim", "verify"} => publisher[p].wheel \in blobs

WheelInv == PublisherInv /\ OneWheelPerVersion

(* Wheels and bundles are never removed, and a claimed version never       *)
(* changes hands.                                                          *)
LEMMA StoreGrows ==
    ASSUME TypeOK, [Next]_vars
    PROVE  /\ blobs \subseteq blobs' /\ bundles \subseteq bundles'
           /\ \A v \in Versions : release[v] # NoWheel => release'[v] = release[v]
  <1>0. release \in [Versions -> Source \cup {NoWheel}]
    BY DEF TypeOK
  <1>1. ASSUME NEW p \in Publishers, ClaimRelease(p)
        PROVE  \A v \in Versions : release[v] # NoWheel => release'[v] = release[v]
    BY <1>0, <1>1 DEF ClaimRelease, write_if_absent
  <1>2. ASSUME NEW p \in Publishers, ClaimRelease(p)
        PROVE  UNCHANGED <<blobs, bundles>>
    BY <1>2 DEF ClaimRelease
  <1>3. ASSUME Publication, \A p \in Publishers : ~ClaimRelease(p)
        PROVE  release' = release /\ blobs \subseteq blobs' /\ bundles \subseteq bundles'
    BY <1>3 DEF Publication, Edit, PublishUnbound, LoadRegistry, WriteWheel,
                PutBundle, PublisherDies, BuildAndTest
  <1>4. Governance \/ WorkerLife \/ Tick \/ UNCHANGED vars => UNCHANGED <<release, blobs, bundles>>
    BY DEF Governance, PromoteShadow, PromoteLive, Rollback, Begin, SetPointer, AppendRecord,
           OperatorDies, WorkerLife, StartWorker, StopWorker, Tick, publishing, vars
  <1> QED
    BY <1>1, <1>2, <1>3, <1>4 DEF Next

(* Each step keeps what the publishers have established.                   *)
LEMMA PublisherStep ==
    ASSUME TypeOK, WheelInv, [Next]_vars
    PROVE  PublisherInv'
  <1> SUFFICES ASSUME NEW p \in Publishers
               PROVE  /\ publisher'[p].pc \in {"write", "claim", "verify"} =>
                            install_and_test_wheel(publisher'[p].wheel)
                      /\ publisher'[p].pc \in {"claim", "verify"} => publisher'[p].wheel \in blobs'
    BY DEF PublisherInv, install_and_test_wheel
  <1>0. PublishingOK /\ DOMAIN publisher = Publishers /\ blobs \subseteq blobs'
    BY TypeParts, StoreGrows DEF PublishingOK
  <1>i. /\ publisher[p].pc \in {"write", "claim", "verify"} =>
              install_and_test_wheel(publisher[p].wheel)
        /\ publisher[p].pc \in {"claim", "verify"} => publisher[p].wheel \in blobs
    BY DEF WheelInv, PublisherInv
  <1>1. CASE publisher'[p] = publisher[p]
    BY <1>0, <1>1, <1>i
  <1>2. CASE publisher'[p] = Idle
    BY <1>2 DEF Idle
  <1>3. CASE LoadRegistry(p)
    <2>1. publisher'[p].pc = "build"
      BY <1>0, <1>3 DEF LoadRegistry, Publisher
    <2> QED
      BY <2>1
  <1>4. ASSUME NEW w, BuildAndTest(p, w), publisher'[p] # Idle
        PROVE  publisher'[p].pc = "write" /\ install_and_test_wheel(publisher'[p].wheel)
    BY <1>0, <1>4 DEF BuildAndTest, Publisher
  <1>5. CASE WriteWheel(p)
    <2>1. publisher'[p] = [publisher[p] EXCEPT !.pc = "claim"] /\ publisher[p].pc = "write"
      BY <1>0, <1>5 DEF WriteWheel, Publisher
    <2>2. publisher'[p].wheel = publisher[p].wheel
      BY <1>0, <2>1, BusyGoesOn
    <2> QED
      BY <1>5, <1>i, <2>1, <2>2 DEF WriteWheel
  <1>6. CASE ClaimRelease(p) /\ publisher'[p] # Idle
    <2>1. publisher'[p] = [publisher[p] EXCEPT !.pc = "verify"] /\ publisher[p].pc = "claim"
      BY <1>0, <1>6 DEF ClaimRelease, Publisher
    <2>2. publisher'[p].wheel = publisher[p].wheel
      BY <1>0, <2>1, BusyGoesOn
    <2> QED
      BY <1>0, <1>i, <2>1, <2>2
  <1>7. ASSUME NEW q \in Publishers, NEW x, Publisher(q, x)
        PROVE  q # p => publisher'[p] = publisher[p]
    BY <1>0, <1>7 DEF Publisher
  <1>8. PutBundle(p) \/ PublisherDies(p) => publisher'[p] = Idle
    BY <1>0 DEF PutBundle, PublisherDies, Publisher
  <1>9. ASSUME NEW q \in Publishers, q # p,
               \/ LoadRegistry(q) \/ WriteWheel(q) \/ ClaimRelease(q) \/ PutBundle(q)
               \/ PublisherDies(q) \/ \E w \in built \cup {checkout} : BuildAndTest(q, w)
        PROVE  publisher'[p] = publisher[p]
    BY <1>7, <1>9 DEF LoadRegistry, WriteWheel, ClaimRelease, PutBundle, PublisherDies,
                      BuildAndTest
  <1>10. \/ Governance \/ WorkerLife \/ Tick \/ UNCHANGED vars
         \/ PublishUnbound \/ \E s \in Source \ {checkout} : Edit(s)
         => publisher' = publisher
    BY DEF Governance, PromoteShadow, PromoteLive, Rollback, Begin, SetPointer, AppendRecord,
           OperatorDies, WorkerLife, StartWorker, StopWorker, Tick, publishing, vars,
           PublishUnbound, Edit
  <1>11. CASE \E w \in built \cup {checkout} : BuildAndTest(p, w)
    BY <1>2, <1>4, <1>11
  <1> QED
    BY <1>1, <1>2, <1>3, <1>5, <1>6, <1>8, <1>9, <1>10, <1>11 DEF Next, Publication

(* A new bundle binds the wheel its version is claimed for.                *)
LEMMA WheelStep ==
    ASSUME TypeOK, WheelInv, [Next]_vars
    PROVE  OneWheelPerVersion'
  <1> SUFFICES ASSUME NEW b \in bundles', Bound(b)
               PROVE  /\ b.wheel \in blobs' /\ release'[b.wheel.version] = b.wheel
                      /\ <<b.wheel.code, b.wheel.defs>> \in Golden
    BY DEF OneWheelPerVersion, Bound
  <1>0. PublishingOK /\ blobs \subseteq blobs' /\ bundles \subseteq Bundle
    BY TypeParts, StoreGrows DEF PublishingOK
  <1>1. CASE b \in bundles
    <2>1. /\ b.wheel \in blobs /\ release[b.wheel.version] = b.wheel
          /\ <<b.wheel.code, b.wheel.defs>> \in Golden /\ b.wheel # NoWheel
      BY <1>1 DEF WheelInv, OneWheelPerVersion, Bound
    <2>2. b.wheel \in Source
      BY <1>0, <1>1, <2>1 DEF Bundle
    <2>3. b.wheel.version \in Versions
      BY <2>2, Constants
    <2> QED
      BY <1>0, <2>1, <2>3, StoreGrows
  <1>2. CASE b \notin bundles
    <2>1. \/ PublishUnbound
          \/ \E p \in Publishers : PutBundle(p)
      BY <1>2 DEF Next, Publication, Edit, LoadRegistry, WriteWheel, ClaimRelease,
           PublisherDies, BuildAndTest, Governance, PromoteShadow, PromoteLive, Rollback,
           Begin, SetPointer, AppendRecord, OperatorDies, WorkerLife, StartWorker,
           StopWorker, Tick, publishing, vars
    <2>2. CASE PublishUnbound
      <3>1. b = RegistryBundle(checkout.defs, NoWheel, <<>>)
        BY <1>2, <2>2 DEF PublishUnbound
      <3> QED
        BY <3>1 DEF RegistryBundle, Bound
    <2>3. ASSUME NEW p \in Publishers, PutBundle(p)
          PROVE  /\ b.wheel \in blobs' /\ release'[b.wheel.version] = b.wheel
                 /\ <<b.wheel.code, b.wheel.defs>> \in Golden
      <3>1. /\ publisher[p].pc = "verify" /\ read_back_verify(publisher[p].wheel)
            /\ b = RegistryBundle(publisher[p].defs, publisher[p].wheel, publisher[p].requires)
        BY <1>2, <2>3 DEF PutBundle
      <3>2. b.wheel = publisher[p].wheel
        BY <3>1 DEF RegistryBundle
      <3>3. install_and_test_wheel(b.wheel)
        BY <3>1, <3>2 DEF WheelInv, PublisherInv
      <3>4. blobs' = blobs /\ release' = release
        BY <2>3 DEF PutBundle
      <3> QED
        BY <3>1, <3>2, <3>3, <3>4 DEF read_back_verify, install_and_test_wheel
    <2> QED
      BY <2>1, <2>2, <2>3
  <1> QED
    BY <1>1, <1>2

(* The wheels, as one fact for the theorems below.                         *)
LEMMA WheelsInvariant == Spec => []WheelInv
  <1>1. Init => WheelInv
    BY DEF Init, WheelInv, PublisherInv, OneWheelPerVersion, Idle
  <1>2. TypeOK /\ WheelInv /\ [Next]_vars => WheelInv'
    BY PublisherStep, WheelStep DEF WheelInv
  <1> QED
    BY <1>1, <1>2, TypeCorrect, PTL DEF Spec

(* A version stands for one wheel, however many publishers race for it and *)
(* die: every bundle binds the wheel its version was claimed for, and that *)
(* wheel has passed its tests and can be fetched.                          *)
THEOREM VersionsAreImmutable == Spec => []OneWheelPerVersion
  <1>1. WheelInv => OneWheelPerVersion
    BY DEF WheelInv
  <1> QED
    BY <1>1, WheelsInvariant, PTL

-----------------------------------------------------------------------------
(* The served code.                                                        *)

(* What enforce_artifact_binding established when the worker started.      *)
ServedInv ==
    worker # Idle =>
        /\ worker.bundle \in bundles /\ Bound(worker.bundle)
        /\ worker.code \in {worker.bundle.wheel.code, BuiltIn}
        /\ worker.registry = worker.bundle.defs
        /\ worker.as_built =>
              /\ worker.code = worker.bundle.wheel.code
              /\ worker.registry = worker.bundle.wheel.defs
        /\ core_version_satisfies(worker.core, worker.bundle.requires)

(* It is a promoted, bound bundle, and stays one.                          *)
LEMMA ServedStep ==
    TypeOK /\ ServedInv /\ [Next]_vars => ServedInv'
  <1> SUFFICES ASSUME TypeOK, ServedInv, [Next]_vars, worker' # Idle
               PROVE  ServedInv'
    BY DEF ServedInv
  <1>0. bundles \subseteq bundles'
    BY StoreGrows
  <1>1. CASE worker' = worker
    BY <1>0, <1>1 DEF ServedInv, Bound
  <1>2. ASSUME NEW i \in Images, NEW c \in Settings, NEW s \in Stages, StartWorker(i, c, s)
        PROVE  ServedInv'
    <2> DEFINE b == resolve_promoted_bundle(s)
    <2>1. enforce_artifact_binding(i, c, b)
      BY <1>2 DEF StartWorker
    <2>2. Bound(b) /\ b \in bundles
      BY <2>1 DEF enforce_artifact_binding, Bound, resolve_promoted_bundle
    <2>3. worker' = [pc |-> "serving", stage |-> s, bundle |-> b,
                     code |-> IF c.provider = "unset" THEN BuiltIn ELSE i.installed,
                     registry |-> c.registry, core |-> i.core, as_built |-> AsBuilt(i, c)]
      BY <1>2 DEF StartWorker
    <2> HIDE DEF b
    <2>4. /\ i.wheel = b.wheel /\ i.installed = i.wheel.code /\ c.registry = b.defs
          /\ core_version_satisfies(i.core, b.requires)
      BY <2>1 DEF enforce_artifact_binding, verify_feature_artifact, InstalledMatchesWheel
    <2>5. /\ worker'.bundle = b /\ worker'.registry = c.registry /\ worker'.core = i.core
          /\ worker'.code = IF c.provider = "unset" THEN BuiltIn ELSE i.installed
          /\ worker'.as_built = AsBuilt(i, c)
      BY <2>3
    <2>6. worker'.as_built => worker'.code = i.installed /\ worker'.registry = i.wheel.defs
      BY <2>5 DEF AsBuilt
    <2> QED
      BY <1>0, <2>2, <2>4, <2>5, <2>6 DEF ServedInv
  <1>3. Publication \/ Governance \/ Tick \/ UNCHANGED vars => worker' = worker
    BY DEF Publication, Edit, PublishUnbound, LoadRegistry, WriteWheel, ClaimRelease,
           PutBundle, PublisherDies, BuildAndTest, Governance, PromoteShadow, PromoteLive,
           Rollback, Begin, SetPointer, AppendRecord, OperatorDies, Tick, vars
  <1>4. ~StopWorker
    BY DEF StopWorker
  <1> QED
    BY <1>1, <1>2, <1>3, <1>4 DEF Next, WorkerLife

(* The chain the artifact verifier documents, for any image, bundle and    *)
(* promotion: what a worker serves are the definitions of the promoted     *)
(* bundle with the code of its published and tested wheel, or the          *)
(* platform's own, on a platform the manifest admits; in an image that     *)
(* runs with its own settings the two were tested together.                *)
THEOREM ServedCodeIsTested == Spec => []ServedIsTested
  <1>1. Init => ServedInv
    BY DEF Init, ServedInv
  <1>2. TypeOK /\ WheelInv /\ ServedInv => ServedIsTested
    <2> SUFFICES ASSUME TypeOK, WheelInv, ServedInv, worker # Idle PROVE ServedIsTested
      BY DEF ServedIsTested
    <2> DEFINE b == worker.bundle
    <2>1. /\ b \in bundles /\ Bound(b) /\ worker.code \in {b.wheel.code, BuiltIn}
          /\ worker.registry = b.defs
          /\ worker.as_built => worker.code = b.wheel.code /\ worker.registry = b.wheel.defs
          /\ core_version_satisfies(worker.core, b.requires)
      BY DEF ServedInv
    <2>2. release[b.wheel.version] = b.wheel /\ <<b.wheel.code, b.wheel.defs>> \in Golden
      BY <2>1 DEF WheelInv, OneWheelPerVersion
    <2>3. worker.core \in Seq(Nat) /\ b.requires \in Requires
      BY ReleaseAssumption DEF TypeOK, Bundle
    <2> HIDE DEF b
    <2>4. \A c \in ToSet(b.requires) : Admits(c, worker.core)
      BY <2>1, <2>3, SatisfiesIsAdmits
    <2> QED
      BY <2>1, <2>2, <2>4 DEF ServedIsTested, b
  <1> QED
    BY <1>1, <1>2, ServedStep, TypeCorrect, WheelsInvariant, PTL DEF Spec

-----------------------------------------------------------------------------
(* The soak.                                                               *)

(* Until a shadow pointer is rolled back, its clock never runs ahead of    *)
(* the bundle: it was set no earlier than the bundle entered shadow.       *)
ClockInv ==
    ~ShadowRolledBack =>
        /\ pointer["shadow"] # None =>
              pointer["shadow"].since # <<>> /\ entered <= pointer["shadow"].since[1]
        /\ \A o \in InHand : command[o].stage = "shadow" => command[o].since = <<now>>


(* How a step changes a command: begun with all it needs, set, recorded or *)
(* dropped by an operator that dies.                                       *)
LEMMA CommandSteps ==
    ASSUME TypeOK, [Next]_vars, NEW o \in Operators
    PROVE  \/ command'[o] = command[o]
           \/ command[o] = Idle /\ now' = now /\ \E b \in bundles :
                 command'[o] = Repoint("promote", "shadow", b, <<now>>, FALSE)
           \/ command[o] = Idle /\ now' = now /\ \E b \in bundles, y \in BOOLEAN :
                 /\ command'[o] = Repoint("promote", "live", b, SoakOf(b), y)
                 /\ y \/ (SoakOf(b) # <<>> /\ now - SoakOf(b)[1] >= shadow_min_days)
           \/ command[o] = Idle /\ now' = now /\ \E s \in Stages, b \in Digest, since \in Since :
                 command'[o] = Repoint("rollback", s, b, since, FALSE)
           \/ SetPointer(o) \/ AppendRecord(o) \/ OperatorDies(o)
  <1>0. DOMAIN command = Operators /\ PublishingOK /\ GoverningOK
    BY TypeParts DEF GoverningOK
  <1>1. Publication \/ WorkerLife \/ Tick \/ UNCHANGED vars => command' = command
    BY DEF Publication, Edit, PublishUnbound, LoadRegistry, WriteWheel, ClaimRelease,
           PutBundle, PublisherDies, BuildAndTest, WorkerLife, StartWorker, StopWorker,
           Tick, vars, governing
  <1>2. ASSUME NEW q \in Operators, NEW c, Begin(q, c)
        PROVE  /\ now' = now /\ q # o => command'[o] = command[o]
               /\ q = o => command[o] = Idle /\ command'[o] = c
    BY <1>0, <1>2 DEF Begin
  <1>3. ASSUME NEW q \in Operators, NEW b \in bundles, PromoteShadow(q, b)
        PROVE  \/ command'[o] = command[o]
               \/ /\ command[o] = Idle /\ now' = now
                  /\ command'[o] = Repoint("promote", "shadow", b, <<now>>, FALSE)
    <2>1. Begin(q, Repoint("promote", "shadow", b, <<now>>, FALSE))
      BY <1>3 DEF PromoteShadow
    <2>2. now' = now
      BY <2>1 DEF Begin
    <2> QED
      BY <1>2, <2>1, <2>2
  <1>4. ASSUME NEW q \in Operators, NEW b \in bundles, NEW a \in SUBSET Approvers,
               NEW y \in BOOLEAN, PromoteLive(q, b, a, y)
        PROVE  \/ command'[o] = command[o]
               \/ /\ command[o] = Idle /\ now' = now
                  /\ command'[o] = Repoint("promote", "live", b, SoakOf(b), y)
                  /\ y \/ (SoakOf(b) # <<>> /\ now - SoakOf(b)[1] >= shadow_min_days)
    <2>1. /\ Begin(q, Repoint("promote", "live", b, SoakOf(b), y))
          /\ y \/ (SoakOf(b) # <<>> /\ now - SoakOf(b)[1] >= shadow_min_days)
      BY <1>4 DEF PromoteLive
    <2>2. now' = now
      BY <2>1 DEF Begin
    <2> QED
      BY <1>2, <2>1, <2>2
  <1>5. ASSUME NEW q \in Operators, NEW s \in Stages, NEW b \in Digests(s), Rollback(q, s, b)
        PROVE  \/ command'[o] = command[o]
               \/ /\ command[o] = Idle /\ now' = now
                  /\ \E d \in Digest, since \in Since :
                        command'[o] = Repoint("rollback", s, d, since, FALSE)
    <2> DEFINE since == IF s = "shadow" THEN pointer[s].since ELSE <<>>
    <2>1. Begin(q, Repoint("rollback", s, b, since, FALSE)) /\ pointer[s] # None
      BY <1>5 DEF Rollback
    <2>2. pointer[s] \in Pointer
      BY <1>0, <2>1 DEF GoverningOK
    <2>3. since \in Since
      BY <2>2 DEF Pointer, Since
    <2>4. b \in Digest
      BY <1>0, <2>2 DEF Digests, Pointer, Digest, PublishingOK
    <2>5. now' = now
      BY <2>1 DEF Begin
    <2> HIDE DEF since
    <2> QED
      BY <1>2, <2>1, <2>3, <2>4, <2>5
  <1>6. ASSUME NEW q \in Operators, q # o, SetPointer(q) \/ AppendRecord(q) \/ OperatorDies(q)
        PROVE  command'[o] = command[o]
    BY <1>0, <1>6 DEF SetPointer, AppendRecord, OperatorDies
  <1>7. CASE Governance
    BY <1>3, <1>4, <1>5, <1>6, <1>7 DEF Governance
  <1> QED
    BY <1>1, <1>7 DEF Next

(* A shadow rollback stays on record: in the command, in the records or    *)
(* behind an operator's death.                                             *)
LEMMA RollbackRemembered ==
    ASSUME TypeOK, [Next]_vars, ShadowRolledBack
    PROVE  ShadowRolledBack'
  <1>0. GoverningOK /\ records \in Seq(Record) /\ crashes \in Nat
    BY TypeParts, Constants DEF GoverningOK
  <1>1. crashes' = crashes \/ crashes' = crashes + 1
    BY DEF Next, Publication, Edit, PublishUnbound, LoadRegistry, WriteWheel, ClaimRelease,
           PutBundle, PublisherDies, BuildAndTest, Governance, PromoteShadow, PromoteLive,
           Rollback, Begin, SetPointer, AppendRecord, OperatorDies, WorkerLife, StartWorker,
           StopWorker, Tick, vars
  <1>2. records' = records \/ \E o \in Operators : AppendRecord(o)
    BY DEF Next, Publication, Edit, PublishUnbound, LoadRegistry, WriteWheel, ClaimRelease,
           PutBundle, PublisherDies, BuildAndTest, Governance, PromoteShadow, PromoteLive,
           Rollback, Begin, SetPointer, OperatorDies, WorkerLife, StartWorker,
           StopWorker, Tick, vars, governing
  <1>a. ASSUME NEW o \in Operators, AppendRecord(o)
        PROVE  /\ \A i \in DOMAIN records : i \in DOMAIN records' /\ records'[i] = records[i]
               /\ ShadowRollback(command[o]) => ShadowRolledBack'
    <2> DEFINE r == [action |-> command[o].action, stage |-> command[o].stage,
                     bundle |-> command[o].bundle, previous |-> command[o].previous]
    <2>1. command[o] \in Command
      BY <1>0, <1>a DEF AppendRecord, GoverningOK, Idle
    <2>2. r \in Record /\ r.action = command[o].action /\ r.stage = command[o].stage
      BY <2>1 DEF Record, Command
    <2>3. records' = Append(records, r)
      BY <1>a DEF AppendRecord
    <2> HIDE DEF r
    <2>4. /\ \A i \in DOMAIN records : i \in DOMAIN records' /\ records'[i] = records[i]
          /\ Len(records) + 1 \in DOMAIN records' /\ records'[Len(records) + 1] = r
      BY <1>0, <2>2, <2>3
    <2> QED
      BY <2>2, <2>4 DEF ShadowRolledBack, ShadowRollback
  <1>3. CASE crashes > 0
    BY <1>0, <1>1, <1>3 DEF ShadowRolledBack
  <1>4. CASE \E i \in DOMAIN records : ShadowRollback(records[i])
    BY <1>2, <1>4, <1>a DEF ShadowRolledBack
  <1>5. ASSUME NEW o \in InHand, ShadowRollback(command[o]) PROVE ShadowRolledBack'
    <2>1. o \in Operators /\ command[o] # Idle
      BY DEF InHand
    <2>2. CASE command'[o] = command[o]
      BY <1>5, <2>1, <2>2 DEF ShadowRolledBack, InHand
    <2>3. CASE SetPointer(o)
      <3>1. command[o] \in Command /\ DOMAIN command = Operators
        BY <1>0, <2>1 DEF GoverningOK
      <3>2. command'[o] = [command[o] EXCEPT !.pc = "record"]
        BY <2>1, <2>3, <3>1 DEF SetPointer
      <3>3. /\ command'[o].action = command[o].action /\ command'[o].stage = command[o].stage
            /\ command'[o].pc = "record"
        BY <3>1, <3>2 DEF Command
      <3>4. command'[o] # Idle
        BY <3>3 DEF Idle
      <3> QED
        BY <1>5, <2>1, <3>3, <3>4 DEF ShadowRolledBack, ShadowRollback, InHand
    <2>4. CASE AppendRecord(o)
      BY <1>5, <1>a, <2>1, <2>4
    <2>5. CASE OperatorDies(o)
      BY <1>0, <2>5 DEF OperatorDies, ShadowRolledBack
    <2> QED
      BY <2>1, <2>2, <2>3, <2>4, <2>5, CommandSteps
  <1> QED
    BY <1>3, <1>4, <1>5 DEF ShadowRolledBack

(* Each step keeps the clock right.                                        *)
LEMMA ClockStep ==
    TypeOK /\ ClockInv /\ [Next]_vars => ClockInv'
  <1> SUFFICES ASSUME TypeOK, ClockInv, [Next]_vars, ~ShadowRolledBack' PROVE ClockInv'
    BY DEF ClockInv
  <1>0. GoverningOK /\ DOMAIN command = Operators /\ ~ShadowRolledBack /\ crashes \in Nat
    BY TypeParts, RollbackRemembered, Constants DEF GoverningOK
  <1>n. now \in Nat /\ entered \in Nat /\ entered <= now
    BY <1>0, Constants DEF GoverningOK
  <1>i. /\ pointer["shadow"] # None =>
              pointer["shadow"].since # <<>> /\ entered <= pointer["shadow"].since[1]
        /\ \A o \in InHand : command[o].stage = "shadow" => command[o].since = <<now>>
    BY <1>0 DEF ClockInv
  <1>1. ASSUME NEW o \in InHand', command'[o].stage = "shadow"
        PROVE  command'[o].since = <<now'>>
    <2>1. o \in Operators /\ command'[o] # Idle
      BY DEF InHand
    <2>2. CASE command'[o] = command[o]
      <3>1. o \in InHand
        BY <2>1, <2>2 DEF InHand
      <3>2. ~Tick
        BY <3>1 DEF Tick
      <3>3. now' = now
        BY <3>2 DEF Next, Publication, Edit, PublishUnbound, LoadRegistry, WriteWheel,
             ClaimRelease, PutBundle, PublisherDies, BuildAndTest, Governance, PromoteShadow,
             PromoteLive, Rollback, Begin, SetPointer, AppendRecord, OperatorDies, WorkerLife,
             StartWorker, StopWorker, vars
      <3> QED
        BY <1>1, <1>i, <2>2, <3>1, <3>3
    <2>3. ASSUME NEW b \in bundles, now' = now,
                 command'[o] = Repoint("promote", "shadow", b, <<now>>, FALSE)
          PROVE  command'[o].since = <<now'>>
      BY <2>3 DEF Repoint
    <2>4. ASSUME NEW b \in bundles, NEW y \in BOOLEAN,
                 command'[o] = Repoint("promote", "live", b, SoakOf(b), y)
          PROVE  FALSE
      BY <1>1, <2>4 DEF Repoint
    <2>5. ASSUME NEW s \in Stages, NEW b \in Digest, NEW since \in Since,
                 command'[o] = Repoint("rollback", s, b, since, FALSE)
          PROVE  FALSE
      <3>1. command'[o].action = "rollback"
        BY <2>5 DEF Repoint
      <3> QED
        BY <1>1, <2>1, <3>1 DEF ShadowRolledBack, ShadowRollback
    <2>6. CASE SetPointer(o)
      <3>1. command[o] \in Command /\ o \in InHand
        BY <1>0, <2>1, <2>6 DEF SetPointer, GoverningOK, Idle, InHand
      <3>2. command'[o] = [command[o] EXCEPT !.pc = "record"] /\ now' = now
        BY <1>0, <2>1, <2>6 DEF SetPointer
      <3>3. command'[o].since = command[o].since /\ command'[o].stage = command[o].stage
        BY <3>1, <3>2 DEF Command
      <3> QED
        BY <1>1, <1>i, <3>1, <3>2, <3>3
    <2>7. CASE AppendRecord(o) \/ OperatorDies(o)
      BY <1>0, <2>1, <2>7 DEF AppendRecord, OperatorDies
    <2> QED
      BY <2>1, <2>2, <2>3, <2>4, <2>5, <2>6, <2>7, CommandSteps
  <1>2. ASSUME pointer'["shadow"] # None
        PROVE  pointer'["shadow"].since # <<>> /\ entered' <= pointer'["shadow"].since[1]
    <2>1. CASE pointer' = pointer /\ entered' = entered
      BY <1>2, <1>i, <2>1
    <2>2. ASSUME NEW o \in Operators, SetPointer(o)
          PROVE  pointer'["shadow"].since # <<>> /\ entered' <= pointer'["shadow"].since[1]
      <3> DEFINE c == command[o]
      <3>1. c \in Command /\ o \in InHand
        BY <1>0, <2>2 DEF SetPointer, GoverningOK, Idle, InHand
      <3>2. DOMAIN pointer = Stages /\ "shadow" \in Stages
        BY <1>0 DEF GoverningOK, Stages
      <3>3. CASE c.stage = "shadow"
        <4>1. pointer'["shadow"].since = c.since
          BY <2>2, <3>2, <3>3 DEF SetPointer
        <4>2. c.since = <<now>> /\ c.at = now
          BY <1>i, <3>1, <3>3 DEF Command
        <4>3. entered' \in {now, entered}
          BY <2>2, <4>2 DEF SetPointer
        <4> QED
          BY <1>n, <4>1, <4>2, <4>3
      <3>4. CASE c.stage # "shadow"
        <4>1. pointer'["shadow"] = pointer["shadow"] /\ entered' = entered
          BY <2>2, <3>2, <3>4 DEF SetPointer
        <4> QED
          BY <1>2, <1>i, <4>1
      <3> QED
        BY <3>3, <3>4
    <2>3. \/ pointer' = pointer /\ entered' = entered
          \/ \E o \in Operators : SetPointer(o)
      BY DEF Next, Publication, Edit, PublishUnbound, LoadRegistry, WriteWheel,
           ClaimRelease, PutBundle, PublisherDies, BuildAndTest, Governance, PromoteShadow,
           PromoteLive, Rollback, Begin, AppendRecord, OperatorDies, WorkerLife,
           StartWorker, StopWorker, Tick, vars, governing
    <2> QED
      BY <2>1, <2>2, <2>3
  <1> QED
    BY <1>1, <1>2 DEF ClockInv

(* A promotion to live that begins without an override is of the bundle    *)
(* that has been in shadow for the profile's minimum, unless a shadow      *)
(* pointer was rolled back before.                                         *)
LEMMA PromotionsAreSoaked ==
    ASSUME TypeOK, ClockInv, [Next]_vars, BeginsUnsoaked
    PROVE  ShadowRolledBack
  <1> SUFFICES ASSUME ~ShadowRolledBack PROVE FALSE
    OBVIOUS
  <1>1. PICK o \in Operators :
           /\ command[o] = Idle /\ command'[o] # Idle
           /\ command'[o].action = "promote" /\ command'[o].stage = "live"
           /\ ~command'[o].override
           /\ ~ /\ Previous("shadow") = command'[o].bundle
                /\ now - entered >= shadow_min_days
    BY DEF BeginsUnsoaked
  <1>2. ~SetPointer(o) /\ ~AppendRecord(o) /\ ~OperatorDies(o)
    BY <1>1 DEF SetPointer, AppendRecord, OperatorDies, Idle
  <1>3. \A b, since : /\ Repoint("promote", "shadow", b, since, FALSE).stage = "shadow"
                      /\ \A s : Repoint("rollback", s, b, since, FALSE).action = "rollback"
    BY DEF Repoint
  <1>4. PICK b \in bundles, y \in BOOLEAN :
           /\ command'[o] = Repoint("promote", "live", b, SoakOf(b), y)
           /\ y \/ (SoakOf(b) # <<>> /\ now - SoakOf(b)[1] >= shadow_min_days)
    BY <1>1, <1>2, <1>3, CommandSteps
  <1>5. command'[o].bundle = b /\ command'[o].override = y
    BY <1>4 DEF Repoint
  <1>6. SoakOf(b) # <<>> /\ now - SoakOf(b)[1] >= shadow_min_days
    BY <1>1, <1>4, <1>5
  <1>7. /\ pointer["shadow"] # None /\ pointer["shadow"].bundle = b
        /\ SoakOf(b) = pointer["shadow"].since
    BY <1>6 DEF SoakOf
  <1>8. Previous("shadow") = command'[o].bundle
    BY <1>5, <1>7 DEF Previous
  <1>9. entered <= SoakOf(b)[1]
    BY <1>7 DEF ClockInv
  <1>10. SoakOf(b)[1] \in Nat
    <2>1. pointer["shadow"] \in Pointer
      BY <1>7 DEF TypeOK, Stages
    <2>2. SoakOf(b) \in Since
      BY <1>7, <2>1 DEF Pointer
    <2>3. PICK d \in 0..now : SoakOf(b) = <<d>>
      BY <1>6, <2>2 DEF Since
    <2> QED
      BY <2>3
  <1>11. now \in Nat /\ entered \in Nat /\ shadow_min_days \in Nat
    BY Constants, ReleaseAssumption DEF TypeOK
  <1>12. now - entered >= shadow_min_days
    BY <1>6, <1>9, <1>10, <1>11
  <1> QED
    BY <1>1, <1>8, <1>12

(* The soak rule holds for any number of operators and commands, except    *)
(* after a rollback of the shadow pointer or an operator's death.          *)
THEOREM SoakIsEnforced == Spec => SoakEnforced
  <1>1. Init => ClockInv
    BY DEF Init, ClockInv, InHand, Stages
  <1>2. TypeOK /\ ClockInv /\ [Next]_vars => [BeginsUnsoaked => ShadowRolledBack]_vars
    BY PromotionsAreSoaked
  <1> QED
    BY <1>1, <1>2, ClockStep, TypeCorrect, PTL DEF Spec, SoakEnforced

-----------------------------------------------------------------------------
(* Raw landing.                                                            *)

(* What a report's metadata says for good: only availability may change.   *)
SameReport(mt, r, m) ==
    /\ mt[r] # L!NoMeta /\ mt[r].ref = r
    /\ mt[r].entity = m.entity
    /\ mt[r].content = m.content /\ mt[r].report_ts = m.report_ts

(* An item's payload is where the metadata of its report says.             *)
Resolves(mt, pl, x) ==
    /\ x.ref \in L!Refs /\ mt[x.ref] # L!NoMeta /\ mt[x.ref].content = x.content
    /\ mt[x.ref].entity = x.entity
    /\ <<x.ref, mt[x.ref].report_ts>> \in DOMAIN pl
AllResolve(mt, pl, items) ==
    \A i \in DOMAIN items :
        items[i].status \in {"written", "duplicate"} => Resolves(mt, pl, items[i])

LandingAt(l) ==
    LET r == landing[l] IN
    /\ r.pc \in {"upsert", "written", "duplicate"} =>
           r.row <= Len(Reports[l]) /\ L!Parses(L!Row(l))
    /\ r.pc = "upsert" /\ r.existing # L!NoMeta =>
           r.existing.ref = L!Row(l).ref /\ SameReport(meta, L!Row(l).ref, r.existing)
    /\ r.pc \in {"written", "duplicate"} => SameReport(meta, L!Row(l).ref, L!MetaOf(l, L!Row(l)))
    /\ AllResolve(meta, payloads, r.items)

PayloadsMatch ==
    \A k \in DOMAIN payloads :
        /\ meta[k[1]] # L!NoMeta /\ meta[k[1]].report_ts = k[2]
        /\ meta[k[1]].content = payloads[k]

LandingInv ==
    /\ PayloadsMatch
    /\ \A r \in L!Refs : meta[r] # L!NoMeta => meta[r].ref = r
    /\ \A l \in Landings : LandingAt(l) /\ AllResolve(meta, payloads, manifests[l].items)
    /\ \A i \in DOMAIN changes : meta[changes[i].ref] # L!NoMeta
    /\ L!AvailabilityAudited

(* A metadata row is one.                                                  *)
LEMMA MetaIsSome == L!NoMeta \notin L!Meta
  <1> SUFFICES ASSUME L!NoMeta \in L!Meta PROVE FALSE
    OBVIOUS
  <1>1. DOMAIN L!NoMeta = {}
    BY DEF L!NoMeta
  <1>2. "ref" \in DOMAIN L!NoMeta
    BY DEF L!Meta
  <1> QED
    BY <1>1, <1>2

(* A row of the input.                                                     *)
LEMMA RowTyped ==
    ASSUME L!TypeOK, NEW l \in Landings, landing[l].row <= Len(Reports[l])
    PROVE  /\ L!Row(l) \in L!Report
           /\ L!Parses(L!Row(l)) => L!Row(l).ref \in L!Refs /\ L!MetaOf(l, L!Row(l)) \in L!Meta
  <1>1. /\ landing[l].row \in 1..Len(Reports[l]) /\ Reports[l] \in Seq(L!Report)
        /\ created_at[l] \in Nat
    BY EntrancesAssumption DEF L!TypeOK, L!Place, L!LandingAssumption
  <1>2. L!Row(l) \in L!Report
    BY <1>1 DEF L!Row
  <1>3. L!Row(l) \in L!Rows
    BY <1>1 DEF L!Row, L!Rows, L!ToSet
  <1>4. L!Parses(L!Row(l)) => L!Row(l).ref \in L!Refs
    BY <1>3 DEF L!Refs
  <1> QED
    BY <1>1, <1>2, <1>4 DEF L!MetaOf, L!Meta, L!Report

(* Where a run starts.                                                     *)
LEMMA StartTyped ==
    ASSUME NEW l \in Landings
    PROVE  L!Start \in L!Place(l)
  <1>1. Len(Reports[l]) \in Nat
    BY EntrancesAssumption DEF L!LandingAssumption
  <1>2. 1 \in 1..Len(Reports[l]) + 1 /\ <<>> \in L!Items
    BY <1>1 DEF L!Items
  <1> QED
    BY <1>2 DEF L!Start, L!Place, L!NoMeta

(* An item of a row.                                                       *)
LEMMA ItemTyped ==
    ASSUME L!TypeOK, NEW l \in Landings, landing[l].row <= Len(Reports[l]),
           NEW status \in {"written", "duplicate", "rejected"}
    PROVE  L!Item(l, L!Row(l), status)
               \in [ref : STRING, entity : STRING, source : STRING, content : STRING,
                    status : {"written", "duplicate", "rejected"}]
  <1>1. L!Row(l) \in L!Report /\ Source_of[l] \in STRING
    BY RowTyped, EntrancesAssumption DEF L!LandingAssumption
  <1> QED
    BY <1>1 DEF L!Item, L!Report

(* What a step adds to the stores leaves what was found there.             *)
MetaKept ==
    /\ \A r \in L!Refs : meta[r] # L!NoMeta =>
           /\ meta'[r] # L!NoMeta /\ meta'[r].ref = meta[r].ref
           /\ meta'[r].entity = meta[r].entity
           /\ meta'[r].content = meta[r].content /\ meta'[r].report_ts = meta[r].report_ts
    /\ DOMAIN payloads \subseteq DOMAIN payloads'

(* Items that resolve go on resolving.                                     *)
LEMMA ResolvesKept ==
    ASSUME MetaKept, NEW items, AllResolve(meta, payloads, items)
    PROVE  AllResolve(meta', payloads', items)
  <1>1. ASSUME NEW x, Resolves(meta, payloads, x) PROVE Resolves(meta', payloads', x)
    BY <1>1 DEF MetaKept, Resolves
  <1> QED
    BY <1>1 DEF AllResolve

(* A step of one run leaves the others where they are.                     *)
LEMMA OtherLandings ==
    ASSUME L!TypeOK, LandingInv, MetaKept, NEW n \in Landings, landing'[n] = landing[n]
    PROVE  LandingAt(n)'
  <1>1. LandingAt(n) /\ landing[n].row \in Nat
    BY EntrancesAssumption DEF LandingInv, L!TypeOK, L!Place, L!LandingAssumption
  <1>2. L!Row(n)' = L!Row(n)
    BY DEF L!Row
  <1>3. landing[n].pc \in {"upsert", "written", "duplicate"} => L!Row(n).ref \in L!Refs
    BY <1>1, RowTyped DEF LandingAt
  <1>4. AllResolve(meta', payloads', landing[n].items)
    BY <1>1, ResolvesKept DEF LandingAt
  <1>5. landing[n].pc \in {"written", "duplicate"} =>
            SameReport(meta', L!Row(n).ref, L!MetaOf(n, L!Row(n)))
    BY <1>1, <1>2, <1>3 DEF LandingAt, SameReport, MetaKept, L!MetaOf
  <1>6. landing[n].pc = "upsert" /\ landing[n].existing # L!NoMeta =>
            landing[n].existing.ref = L!Row(n).ref /\ SameReport(meta', L!Row(n).ref, landing[n].existing)
    BY <1>1, <1>2, <1>3 DEF LandingAt, SameReport, MetaKept
  <1> QED
    BY <1>1, <1>2, <1>4, <1>5, <1>6 DEF LandingAt, L!Parses, L!MetaOf

(* A run moved to the step p of its row.                                   *)
LEMMA MovedLanding ==
    ASSUME L!TypeOK, LandingInv, MetaKept, NEW l \in Landings,
           NEW p \in {"upsert", "written", "duplicate", "add_items", "done", "raised"},
           NEW e \in L!Meta \cup {L!NoMeta},
           landing' = [landing EXCEPT ![l].pc = p, ![l].existing = e],
           p \in {"upsert", "written", "duplicate"} =>
               landing[l].row <= Len(Reports[l]) /\ L!Parses(L!Row(l)),
           p = "upsert" /\ e # L!NoMeta =>
               e.ref = L!Row(l).ref /\ SameReport(meta', L!Row(l).ref, e),
           p \in {"written", "duplicate"} => SameReport(meta', L!Row(l).ref, L!MetaOf(l, L!Row(l)))
    PROVE  /\ DOMAIN landing' = Landings /\ \A n \in Landings : landing'[n] \in L!Place(n)
           /\ \A n \in Landings : LandingAt(n)'
  <1> DEFINE s == [landing[l] EXCEPT !.pc = p, !.existing = e]
  <1>0. landing[l] \in L!Place(l) /\ LandingAt(l)
    BY DEF L!TypeOK, LandingInv
  <1>1. DOMAIN landing' = Landings /\ landing'[l] = s /\ \A n \in Landings : n # l => landing'[n] = landing[n]
    BY DEF L!TypeOK
  <1>2. /\ s.pc = p /\ s.existing = e /\ s.row = landing[l].row /\ s.items = landing[l].items
        /\ s \in L!Place(l)
    BY <1>0 DEF L!Place
  <1> HIDE DEF s
  <1>3. \A n \in Landings : landing'[n] \in L!Place(n)
    BY <1>1, <1>2 DEF L!TypeOK
  <1>4. L!Row(l)' = L!Row(l)
    BY <1>1, <1>2 DEF L!Row
  <1>5. AllResolve(meta', payloads', landing[l].items)
    BY <1>0, ResolvesKept DEF LandingAt
  <1>6. LandingAt(l)'
    BY <1>1, <1>2, <1>4, <1>5 DEF LandingAt, L!Parses, L!MetaOf
  <1>7. ASSUME NEW n \in Landings, n # l PROVE LandingAt(n)'
    BY <1>1, <1>7, OtherLandings
  <1> QED
    BY <1>1, <1>3, <1>6, <1>7

(* A run moved to its next row, or started again.                          *)
LEMMA AtNextRow ==
    ASSUME L!TypeOK, LandingInv, MetaKept, NEW l \in Landings, NEW s \in L!Place(l),
           landing' = [landing EXCEPT ![l] = s], s.pc = "read",
           AllResolve(meta', payloads', s.items)
    PROVE  /\ DOMAIN landing' = Landings /\ \A n \in Landings : landing'[n] \in L!Place(n)
           /\ \A n \in Landings : LandingAt(n)'
  <1>1. DOMAIN landing' = Landings /\ landing'[l] = s /\ \A n \in Landings : n # l => landing'[n] = landing[n]
    BY DEF L!TypeOK
  <1>2. \A n \in Landings : landing'[n] \in L!Place(n)
    BY <1>1 DEF L!TypeOK
  <1>3. LandingAt(l)'
    BY <1>1 DEF LandingAt
  <1>4. ASSUME NEW n \in Landings, n # l PROVE LandingAt(n)'
    BY <1>1, <1>4, OtherLandings
  <1> QED
    BY <1>1, <1>2, <1>3, <1>4

(* The next row, after one that is landed or rejected.                     *)
LEMMA NextRowLanding ==
    ASSUME L!TypeOK, LandingInv, MetaKept, NEW l \in Landings, landing[l].row <= Len(Reports[l]),
           NEW status \in {"written", "duplicate", "rejected"},
           L!NextRow(l, L!Item(l, L!Row(l), status)),
           status # "rejected" => Resolves(meta', payloads', L!Item(l, L!Row(l), status))
    PROVE  /\ DOMAIN landing' = Landings /\ \A n \in Landings : landing'[n] \in L!Place(n)
           /\ \A n \in Landings : LandingAt(n)'
  <1> DEFINE x == L!Item(l, L!Row(l), status)
             items == Append(landing[l].items, x)
             s == [pc |-> "read", row |-> landing[l].row + 1, items |-> items,
                   existing |-> L!NoMeta]
  <1>0. landing[l] \in L!Place(l) /\ LandingAt(l) /\ Len(Reports[l]) \in Nat
    BY EntrancesAssumption DEF L!TypeOK, LandingInv, L!LandingAssumption
  <1>1. landing[l].row + 1 \in 1..Len(Reports[l]) + 1 /\ landing[l].items \in L!Items
    BY <1>0 DEF L!Place
  <1>2. x \in [ref : STRING, entity : STRING, source : STRING, content : STRING,
                status : {"written", "duplicate", "rejected"}] /\ x.status = status
    BY ItemTyped DEF L!Item
  <1>3. AllResolve(meta', payloads', landing[l].items)
    BY <1>0, ResolvesKept DEF LandingAt
  <1>4. landing' = [landing EXCEPT ![l] = s]
    BY DEF L!NextRow
  <1> HIDE DEF x
  <1>5. items \in L!Items /\ AllResolve(meta', payloads', items)
    <2>1. /\ items \in L!Items /\ DOMAIN items = 1..Len(landing[l].items) + 1
          /\ DOMAIN landing[l].items = 1..Len(landing[l].items)
          /\ \A i \in DOMAIN items :
                 items[i] = x \/ (i \in DOMAIN landing[l].items /\ items[i] = landing[l].items[i])
      BY <1>1, <1>2 DEF L!Items
    <2>2. x.status \in {"written", "duplicate"} => Resolves(meta', payloads', x)
      BY <1>2 DEF x
    <2> HIDE DEF items
    <2> QED
      BY <1>3, <2>1, <2>2 DEF AllResolve
  <1> HIDE DEF items
  <1>6. s \in L!Place(l) /\ s.pc = "read" /\ s.items = items
    BY <1>1, <1>5 DEF L!Place
  <1> QED
    BY <1>4, <1>5, <1>6, AtNextRow

(* A rejected row is recorded, or the run stops there.                     *)
LEMMA RejectLanding ==
    ASSUME L!TypeOK, LandingInv, MetaKept, NEW l \in Landings, landing[l].row <= Len(Reports[l]),
           L!Reject(l)
    PROVE  /\ DOMAIN landing' = Landings /\ \A n \in Landings : landing'[n] \in L!Place(n)
           /\ \A n \in Landings : LandingAt(n)'
  <1>1. CASE landing' = [landing EXCEPT ![l].pc = "raised"]
    <2>1. landing[l] \in L!Place(l)
      BY DEF L!TypeOK
    <2>2. /\ landing[l].existing \in L!Meta \cup {L!NoMeta}
          /\ landing' = [landing EXCEPT ![l].pc = "raised", ![l].existing = landing[l].existing]
      BY <1>1, <2>1 DEF L!Place
    <2> QED
      BY <2>2, MovedLanding
  <1>2. CASE L!NextRow(l, L!Item(l, L!Row(l), "rejected"))
    BY <1>2, NextRowLanding
  <1> QED
    BY <1>1, <1>2 DEF L!Reject

(* Audit rows name reports.                                                *)
LEMMA ChangesTyped ==
    ASSUME L!TypeOK, NEW i \in DOMAIN changes
    PROVE  changes[i].ref \in L!Refs
  <1> DEFINE Change == [ref : L!Refs, old : Nat, new : Nat]
  <1>1. changes \in Seq(Change)
    BY DEF L!TypeOK
  <1> HIDE DEF Change
  <1>2. changes[i] \in Change
    BY <1>1
  <1> QED
    BY <1>2 DEF Change

(* One more interruption, within the bound.                                *)
LEMMA LandingInterrupt ==
    ASSUME L!TypeOK, L!Interrupt
    PROVE  interruptions' \in 0..MaxInterruptions
  <1>1. MaxInterruptions \in Nat /\ interruptions \in 0..MaxInterruptions
    BY EntrancesAssumption DEF L!TypeOK, L!LandingAssumption
  <1> QED
    BY <1>1 DEF L!Interrupt

(* Nothing found, nothing lost.                                            *)
LEMMA SameStores == UNCHANGED <<meta, payloads>> => MetaKept
  BY DEF MetaKept

(* The manifests go on resolving.                                          *)
LEMMA ManifestsKept ==
    ASSUME LandingInv, MetaKept, UNCHANGED manifests
    PROVE  \A l \in Landings : AllResolve(meta', payloads', manifests'[l].items)
  BY ResolvesKept DEF LandingInv

(* A step that leaves the stores and the manifests alone.                  *)
LEMMA StoresUntouched ==
    ASSUME L!TypeOK, LandingInv, UNCHANGED <<meta, payloads, changes, manifests>>,
           interruptions' \in 0..MaxInterruptions,
           DOMAIN landing' = Landings, \A n \in Landings : landing'[n] \in L!Place(n),
           \A n \in Landings : LandingAt(n)'
    PROVE  L!TypeOK' /\ LandingInv'
  <1>1. L!TypeOK'
    BY DEF L!TypeOK
  <1>2. \A l \in Landings : AllResolve(meta', payloads', manifests'[l].items)
    BY SameStores, ManifestsKept
  <1>3. L!AvailabilityAudited'
    BY DEF LandingInv, L!AvailabilityAudited, L!LastChange
  <1>4. PayloadsMatch' /\ (\A r \in L!Refs : meta'[r] # L!NoMeta => meta'[r].ref = r)
        /\ \A i \in DOMAIN changes' : meta'[changes'[i].ref] # L!NoMeta
    BY DEF LandingInv, PayloadsMatch
  <1> QED
    BY <1>1, <1>2, <1>3, <1>4 DEF LandingInv

(* Inserting, correcting or leaving alone the metadata of a report.        *)
LEMMA UpsertStep ==
    ASSUME L!TypeOK, LandingInv, NEW l \in Landings, L!Upsert(l)
    PROVE  L!TypeOK' /\ LandingInv'
  <1> DEFINE old == landing[l].existing
             new == L!MetaOf(l, L!Row(l))
             ref == L!Row(l).ref
  <1>0. /\ landing[l].pc = "upsert" /\ landing[l].row <= Len(Reports[l])
        /\ L!Parses(L!Row(l)) /\ UNCHANGED <<payloads, manifests, interruptions>>
        /\ old # L!NoMeta => old.ref = ref /\ SameReport(meta, ref, old)
        /\ landing[l] \in L!Place(l) /\ old \in L!Meta \cup {L!NoMeta}
    BY DEF L!Upsert, L!AtRow, LandingInv, LandingAt, L!TypeOK, L!Place
  <1>1. /\ ref \in L!Refs /\ new \in L!Meta /\ new.ref = ref /\ new # L!NoMeta
        /\ meta \in [L!Refs -> L!Meta \cup {L!NoMeta}]
    BY <1>0, RowTyped, MetaIsSome DEF L!MetaOf, L!TypeOK
  <1> DEFINE Inserted == /\ old = L!NoMeta /\ meta[ref] = L!NoMeta
                         /\ meta' = [meta EXCEPT ![ref] = new]
                         /\ L!ToPut(l, "written") /\ UNCHANGED changes
             Corrected == /\ old # L!NoMeta /\ L!is_availability_correction(old, new)
                          /\ meta' = [meta EXCEPT
                                ![ref].available_at = new.available_at,
                                ![ref].availability_source = new.availability_source]
                          /\ changes' = Append(changes, L!build_availability_change(old, new))
                          /\ L!ToPut(l, "written")
             Known == /\ old # L!NoMeta /\ ~L!raw_meta_conflicts(old, new)
                      /\ L!ToPut(l, "duplicate") /\ UNCHANGED <<meta, changes>>
  <1>2. Inserted \/ Corrected \/ Known \/ (L!Reject(l) /\ UNCHANGED <<meta, changes>>)
    BY <1>1 DEF L!Upsert
  <1>3. ASSUME NEW p \in {"written", "duplicate"}, L!ToPut(l, p)
        PROVE  landing' = [landing EXCEPT ![l].pc = p, ![l].existing = old]
    BY <1>0, <1>3 DEF L!ToPut, L!TypeOK, L!Place
  <1>4. CASE Inserted
    <2>1. /\ meta' \in [L!Refs -> L!Meta \cup {L!NoMeta}] /\ meta'[ref] = new
          /\ \A r \in L!Refs : r # ref => meta'[r] = meta[r]
      BY <1>1, <1>4
    <2>2. MetaKept
      BY <1>0, <1>1, <1>4, <2>1 DEF MetaKept
    <2>3. SameReport(meta', ref, new)
      BY <1>1, <2>1 DEF SameReport
    <2>4. /\ DOMAIN landing' = Landings /\ \A n \in Landings : landing'[n] \in L!Place(n)
          /\ \A n \in Landings : LandingAt(n)'
      BY <1>0, <1>3, <1>4, <2>2, <2>3, MovedLanding
    <2>5. L!TypeOK'
      BY <1>0, <1>4, <2>1, <2>4 DEF L!TypeOK
    <2>6. \A n \in Landings : AllResolve(meta', payloads', manifests'[n].items)
      BY <1>0, <2>2, ManifestsKept
    <2>7. PayloadsMatch'
      <3>1. ASSUME NEW k \in DOMAIN payloads PROVE meta'[k[1]] = meta[k[1]] /\ k[1] \in L!Refs
        BY <1>4, <2>1 DEF LandingInv, PayloadsMatch, L!TypeOK
      <3> QED
        BY <1>0, <3>1 DEF LandingInv, PayloadsMatch
    <2>8. \A i \in DOMAIN changes : changes[i].ref \in L!Refs /\ changes[i].ref # ref
          /\ meta'[changes[i].ref] = meta[changes[i].ref]
      <3>1. changes \in Seq([ref : L!Refs, old : Nat, new : Nat])
        BY DEF L!TypeOK
      <3>2. \A i \in DOMAIN changes : changes[i].ref \in L!Refs
        BY ChangesTyped
      <3>3. \A i \in DOMAIN changes : meta[changes[i].ref] # L!NoMeta
        BY DEF LandingInv
      <3> QED
        BY <1>4, <2>1, <3>2, <3>3
    <2>9. L!AvailabilityAudited' /\ \A i \in DOMAIN changes' : meta'[changes'[i].ref] # L!NoMeta
      BY <1>4, <2>8 DEF LandingInv, L!AvailabilityAudited, L!LastChange
    <2>10. \A r \in L!Refs : meta'[r] # L!NoMeta => meta'[r].ref = r
      BY <1>1, <2>1 DEF LandingInv
    <2> QED
      BY <2>4, <2>5, <2>6, <2>7, <2>9, <2>10 DEF LandingInv
  <1>5. CASE Corrected
    <2> DEFINE row == [meta[ref] EXCEPT !.available_at = new.available_at,
                                        !.availability_source = new.availability_source]
               change == L!build_availability_change(old, new)
    <2>1. /\ meta[ref] \in L!Meta /\ meta[ref].ref = ref
          /\ meta[ref].content = old.content /\ meta[ref].report_ts = old.report_ts
          /\ old.ref = ref /\ old \in L!Meta
          /\ meta[ref].entity = old.entity /\ old.entity = new.entity
          /\ old.content = new.content /\ old.report_ts = new.report_ts
          /\ new.availability_source = "source_provided"
      BY <1>0, <1>1, <1>5 DEF SameReport, L!is_availability_correction, L!raw_meta_conflicts
    <2>2. /\ row \in L!Meta /\ row.ref = ref /\ row.content = meta[ref].content
          /\ row.entity = meta[ref].entity
          /\ row.report_ts = meta[ref].report_ts /\ row.available_at = new.available_at
          /\ row.availability_source = "source_provided"
      BY <1>1, <2>1 DEF L!Meta
    <2>3. /\ change \in [ref : L!Refs, old : Nat, new : Nat]
          /\ change.ref = ref /\ change.new = new.available_at
      BY <1>1, <2>1 DEF L!build_availability_change, L!Meta
    <2>4. /\ changes' = Append(changes, change) /\ meta'[ref] = row
          /\ \A r \in L!Refs : r # ref => meta'[r] = meta[r]
          /\ DOMAIN meta' = L!Refs /\ meta' = [meta EXCEPT ![ref] = row]
      BY <1>1, <1>5
    <2> HIDE DEF row, change
    <2>5. meta' \in [L!Refs -> L!Meta \cup {L!NoMeta}] /\ meta'[ref] # L!NoMeta
      BY <1>1, <2>2, <2>4, MetaIsSome
    <2>6. MetaKept
      BY <1>0, <2>1, <2>2, <2>4, <2>5 DEF MetaKept
    <2>7. SameReport(meta', ref, new)
      BY <2>1, <2>2, <2>4, <2>5 DEF SameReport
    <2>8. /\ DOMAIN landing' = Landings /\ \A n \in Landings : landing'[n] \in L!Place(n)
          /\ \A n \in Landings : LandingAt(n)'
      BY <1>0, <1>3, <1>5, <2>6, <2>7, MovedLanding
    <2>9. L!TypeOK'
      BY <1>0, <2>3, <2>4, <2>5, <2>8 DEF L!TypeOK
    <2>10. \A n \in Landings : AllResolve(meta', payloads', manifests'[n].items)
      BY <1>0, <2>6, ManifestsKept
    <2>11. PayloadsMatch'
      <3>1. ASSUME NEW k \in DOMAIN payloads
            PROVE  /\ meta'[k[1]] # L!NoMeta /\ meta'[k[1]].report_ts = meta[k[1]].report_ts
                   /\ meta'[k[1]].content = meta[k[1]].content
        BY <2>6 DEF LandingInv, PayloadsMatch, L!TypeOK, MetaKept
      <3> QED
        BY <1>0, <3>1 DEF LandingInv, PayloadsMatch
    <2>12. /\ DOMAIN changes' = 1..Len(changes) + 1 /\ DOMAIN changes = 1..Len(changes)
           /\ Len(changes) \in Nat /\ changes'[Len(changes) + 1] = change
           /\ \A i \in DOMAIN changes : changes'[i] = changes[i] /\ changes[i].ref \in L!Refs
      <3>1. changes \in Seq([ref : L!Refs, old : Nat, new : Nat])
        BY DEF L!TypeOK
      <3>2. \A i \in DOMAIN changes : changes[i].ref \in L!Refs
        BY ChangesTyped
      <3> QED
        BY <2>3, <2>4, <3>1, <3>2
    <2>13. ASSUME NEW i \in DOMAIN changes', L!LastChange(i)'
           PROVE  /\ meta'[changes'[i].ref].availability_source = "source_provided"
                  /\ meta'[changes'[i].ref].available_at = changes'[i].new
      <3>1. CASE i = Len(changes) + 1
        BY <2>2, <2>3, <2>4, <2>12, <3>1
      <3>2. CASE i # Len(changes) + 1
        <4>1. i \in DOMAIN changes /\ changes'[i].ref # ref
          BY <2>3, <2>12, <2>13, <3>2 DEF L!LastChange
        <4>2. L!LastChange(i)
          BY <2>12, <2>13, <4>1 DEF L!LastChange
        <4> QED
          BY <2>4, <2>12, <4>1, <4>2 DEF LandingInv, L!AvailabilityAudited
      <3> QED
        BY <3>1, <3>2
    <2>14. \A i \in DOMAIN changes' : meta'[changes'[i].ref] # L!NoMeta
      BY <2>3, <2>4, <2>5, <2>12 DEF LandingInv
    <2>15. \A r \in L!Refs : meta'[r] # L!NoMeta => meta'[r].ref = r
      BY <2>2, <2>4 DEF LandingInv
    <2> QED
      BY <2>8, <2>9, <2>10, <2>11, <2>13, <2>14, <2>15 DEF LandingInv, L!AvailabilityAudited
  <1>6. CASE Known
    <2>1. MetaKept
      BY <1>0, <1>6, SameStores
    <2>2. SameReport(meta', ref, new)
      BY <1>0, <1>6 DEF SameReport, L!raw_meta_conflicts
    <2>3. /\ DOMAIN landing' = Landings /\ \A n \in Landings : landing'[n] \in L!Place(n)
          /\ \A n \in Landings : LandingAt(n)'
      BY <1>0, <1>3, <1>6, <2>1, <2>2, MovedLanding
    <2> QED
      BY <1>0, <1>6, <2>3, StoresUntouched DEF L!TypeOK
  <1>7. CASE L!Reject(l) /\ UNCHANGED <<meta, changes>>
    <2>1. /\ DOMAIN landing' = Landings /\ \A n \in Landings : landing'[n] \in L!Place(n)
          /\ \A n \in Landings : LandingAt(n)'
      BY <1>0, <1>7, SameStores, RejectLanding
    <2> QED
      BY <1>0, <1>7, <2>1, StoresUntouched DEF L!TypeOK
  <1> QED
    BY <1>2, <1>4, <1>5, <1>6, <1>7

(* The payload of a row that passed the check of its metadata.             *)
LEMMA PutStep ==
    ASSUME L!TypeOK, LandingInv, NEW l \in Landings, L!PutPayload(l)
    PROVE  L!TypeOK' /\ LandingInv'
  <1> DEFINE x == L!Row(l)
             status == landing[l].pc
  <1>0. /\ status \in {"written", "duplicate"} /\ landing[l].row <= Len(Reports[l])
        /\ L!Parses(x) /\ SameReport(meta, x.ref, L!MetaOf(l, x))
        /\ UNCHANGED <<meta, changes, manifests>>
    BY DEF L!PutPayload, LandingInv, LandingAt
  <1>1. /\ x \in L!Report /\ x.ref \in L!Refs
        /\ meta[x.ref] # L!NoMeta /\ meta[x.ref].content = x.content
        /\ meta[x.ref].report_ts = x.event_ts /\ meta[x.ref].entity = x.entity
    BY <1>0, RowTyped DEF SameReport, L!MetaOf
  <1>2. CASE /\ payloads' = L!Stored(x) /\ L!NextRow(l, L!Item(l, x, status))
             /\ UNCHANGED interruptions
    <2>1. /\ DOMAIN payloads' = DOMAIN payloads \cup {<<x.ref, x.event_ts>>}
          /\ payloads'[<<x.ref, x.event_ts>>] = x.content
          /\ \A k \in DOMAIN payloads : k # <<x.ref, x.event_ts>> => payloads'[k] = payloads[k]
      BY <1>2 DEF L!Stored, L!At
    <2>2. MetaKept
      BY <1>0, <2>1 DEF MetaKept
    <2>3. Resolves(meta', payloads', L!Item(l, x, status))
      BY <1>0, <1>1, <2>1 DEF Resolves, L!Item
    <2>4. /\ DOMAIN landing' = Landings /\ \A n \in Landings : landing'[n] \in L!Place(n)
          /\ \A n \in Landings : LandingAt(n)'
      BY <1>0, <1>2, <2>2, <2>3, NextRowLanding
    <2>5. DOMAIN payloads' \subseteq L!Refs \X Nat
      BY <1>1, <2>1 DEF L!TypeOK, L!Report
    <2>6. L!TypeOK'
      BY <1>0, <1>2, <2>4, <2>5 DEF L!TypeOK
    <2>7. PayloadsMatch'
      BY <1>0, <1>1, <2>1 DEF LandingInv, PayloadsMatch
    <2>8. \A n \in Landings : AllResolve(meta', payloads', manifests'[n].items)
      BY <1>0, <2>2, ManifestsKept
    <2>9. L!AvailabilityAudited'
      BY <1>0 DEF LandingInv, L!AvailabilityAudited, L!LastChange
    <2> QED
      BY <1>0, <2>4, <2>6, <2>7, <2>8, <2>9 DEF LandingInv
  <1>3. CASE L!Interrupt /\ L!Reject(l) /\ UNCHANGED payloads
    <2>1. /\ DOMAIN landing' = Landings /\ \A n \in Landings : landing'[n] \in L!Place(n)
          /\ \A n \in Landings : LandingAt(n)'
      BY <1>0, <1>3, SameStores, RejectLanding
    <2>2. interruptions' \in 0..MaxInterruptions
      BY <1>3, LandingInterrupt
    <2> QED
      BY <1>0, <1>3, <2>1, <2>2, StoresUntouched
  <1> QED
    BY <1>2, <1>3 DEF L!PutPayload

(* The types and the invariant of the landing runs are kept.               *)
LEMMA LandingStep ==
    L!TypeOK /\ LandingInv /\ [L!Next]_(L!vars) => L!TypeOK' /\ LandingInv'
  <1> SUFFICES ASSUME L!TypeOK, LandingInv, [L!Next]_(L!vars) PROVE L!TypeOK' /\ LandingInv'
    OBVIOUS
  <1> DEFINE Typed == DOMAIN landing' = Landings /\ \A n \in Landings : landing'[n] \in L!Place(n)
             Kept == \A n \in Landings : LandingAt(n)'
  <1>0. interruptions \in 0..MaxInterruptions
    BY DEF L!TypeOK
  <1>1. ASSUME NEW l \in Landings, L!RejectRow(l) PROVE L!TypeOK' /\ LandingInv'
    <2>1. /\ L!Reject(l) /\ landing[l].row <= Len(Reports[l])
          /\ UNCHANGED <<meta, payloads, changes, manifests, interruptions>>
      BY <1>1 DEF L!RejectRow, L!AtRow
    <2>2. Typed /\ Kept
      BY <2>1, SameStores, RejectLanding
    <2> QED
      BY <1>0, <2>1, <2>2, StoresUntouched
  <1>2. ASSUME NEW l \in Landings, L!GetMeta(l) PROVE L!TypeOK' /\ LandingInv'
    <2> DEFINE ref == L!Row(l).ref
    <2>1. /\ landing[l].row <= Len(Reports[l]) /\ L!Parses(L!Row(l))
          /\ landing' = [landing EXCEPT ![l].pc = "upsert", ![l].existing = meta[ref]]
          /\ UNCHANGED <<meta, payloads, changes, manifests, interruptions>>
      BY <1>2 DEF L!GetMeta, L!AtRow, L!Valid
    <2>2. ref \in L!Refs /\ meta[ref] \in L!Meta \cup {L!NoMeta}
          /\ (meta[ref] # L!NoMeta => meta[ref].ref = ref /\ SameReport(meta', ref, meta[ref]))
      BY <2>1, RowTyped DEF L!TypeOK, LandingInv, SameReport
    <2>3. Typed /\ Kept
      BY <2>1, <2>2, SameStores, MovedLanding
    <2> QED
      BY <1>0, <2>1, <2>3, StoresUntouched
  <1>3. ASSUME NEW l \in Landings, L!StoreManifest(l) \/ L!AddItems(l)
        PROVE  L!TypeOK' /\ LandingInv'
    <2>1. PICK p \in {"add_items", "done"} : landing' = [landing EXCEPT ![l].pc = p]
      BY <1>3 DEF L!StoreManifest, L!AddItems
    <2>2. /\ UNCHANGED <<meta, payloads, changes, interruptions>>
          /\ landing[l] \in L!Place(l) /\ LandingAt(l)
          /\ manifests \in [Landings -> [status : {"none", "completed"}, items : L!Items]]
      BY <1>3 DEF L!StoreManifest, L!AddItems, L!TypeOK, LandingInv
    <2>3. /\ landing[l].existing \in L!Meta \cup {L!NoMeta} /\ landing[l].items \in L!Items
          /\ landing' = [landing EXCEPT ![l].pc = p, ![l].existing = landing[l].existing]
      BY <2>1, <2>2 DEF L!Place
    <2>4. Typed /\ Kept
      BY <2>2, <2>3, SameStores, MovedLanding
    <2>5. PICK entry \in [status : {"none", "completed"}, items : L!Items] :
              /\ manifests' = [manifests EXCEPT ![l] = entry]
              /\ entry.items \in {<<>>, landing[l].items}
      <3>1. CASE L!StoreManifest(l)
        <4>1. /\ [status |-> "completed", items |-> <<>>]
                     \in [status : {"none", "completed"}, items : L!Items]
              /\ [status |-> "completed", items |-> <<>>].items = <<>>
          BY DEF L!Items
        <4> QED
          BY <3>1, <4>1 DEF L!StoreManifest
      <3>2. CASE L!AddItems(l)
        <4> DEFINE entry == [manifests[l] EXCEPT !.items = landing[l].items]
        <4>1. /\ entry \in [status : {"none", "completed"}, items : L!Items]
              /\ entry.items = landing[l].items
          BY <2>2, <2>3
        <4>2. manifests' = [manifests EXCEPT ![l] = entry]
          BY <3>2 DEF L!AddItems
        <4> QED
          BY <4>1, <4>2
      <3> QED
        BY <1>3, <3>1, <3>2
    <2>6. manifests' \in [Landings -> [status : {"none", "completed"}, items : L!Items]]
          /\ manifests'[l] = entry /\ \A n \in Landings : n # l => manifests'[n] = manifests[n]
      BY <2>2, <2>5
    <2>7. L!TypeOK'
      BY <2>2, <2>4, <2>6 DEF L!TypeOK
    <2>8. \A n \in Landings : AllResolve(meta, payloads, manifests'[n].items)
      <3>1. AllResolve(meta, payloads, <<>>) /\ AllResolve(meta, payloads, landing[l].items)
        BY <2>2 DEF AllResolve, LandingAt
      <3> QED
        BY <2>5, <2>6, <3>1 DEF LandingInv
    <2>9. L!AvailabilityAudited'
      BY <2>2 DEF LandingInv, L!AvailabilityAudited, L!LastChange
    <2> QED
      BY <2>2, <2>4, <2>7, <2>8, <2>9 DEF LandingInv, PayloadsMatch
  <1>4. ASSUME NEW l \in Landings, L!LandingDies(l) PROVE L!TypeOK' /\ LandingInv'
    <2>1. /\ landing' = [landing EXCEPT ![l] = L!Start] /\ L!Interrupt
          /\ UNCHANGED <<meta, payloads, changes, manifests>>
      BY <1>4 DEF L!LandingDies
    <2>2. L!Start.pc = "read" /\ AllResolve(meta', payloads', L!Start.items)
      BY DEF L!Start, AllResolve
    <2>3. Typed /\ Kept
      BY <2>1, <2>2, SameStores, StartTyped, AtNextRow
    <2> QED
      BY <2>1, <2>3, LandingInterrupt, StoresUntouched
  <1>5. CASE UNCHANGED L!vars
    <2>1. UNCHANGED <<meta, payloads, changes, landing, manifests, interruptions>>
      BY <1>5 DEF L!vars
    <2>2. Typed /\ Kept
      BY <2>1, SameStores, OtherLandings DEF L!TypeOK
    <2> QED
      BY <1>0, <2>1, <2>2, StoresUntouched
  <1> QED
    BY <1>1, <1>2, <1>3, <1>4, <1>5, UpsertStep, PutStep DEF L!Next

(* Raw landing: the invariant holds of the landing runs by themselves.     *)
THEOREM LandingInvariant == L!Spec => [](L!TypeOK /\ LandingInv)
  <1>1. L!Init => L!TypeOK /\ LandingInv
    <2> SUFFICES ASSUME L!Init PROVE L!TypeOK /\ LandingInv
      OBVIOUS
    <2>1. MaxInterruptions \in Nat /\ <<>> \in L!Items
      BY EntrancesAssumption DEF L!LandingAssumption, L!Items
    <2>2. L!TypeOK
      BY <2>1, StartTyped DEF L!Init, L!TypeOK
    <2>3. ASSUME NEW l \in Landings PROVE LandingAt(l) /\ AllResolve(meta, payloads, manifests[l].items)
      <3>1. landing[l] = L!Start /\ manifests[l].items = <<>>
        BY DEF L!Init
      <3> QED
        BY <3>1 DEF LandingAt, L!Start, AllResolve
    <2>4. DOMAIN changes = {} /\ DOMAIN payloads = {} /\ \A r \in L!Refs : meta[r] = L!NoMeta
      BY DEF L!Init
    <2> QED
      BY <2>2, <2>3, <2>4 DEF LandingInv, PayloadsMatch, L!AvailabilityAudited
  <1> QED
    BY <1>1, LandingStep, PTL DEF L!Spec

(* A landed item of a stored manifest resolves to its content.             *)
LEMMA EligibleResolves ==
    ASSUME L!TypeOK, LandingInv, NEW l \in Landings, NEW d,
           NEW x \in L!EligibleItems(l, d), d \subseteq {"written", "duplicate"}
    PROVE  /\ x \in L!EligibleItems(l, {"written", "duplicate"})
           /\ L!load(x.ref) = x.content /\ meta[x.ref].entity = x.entity
  <1>1. x \in L!ToSet(manifests[l].items) /\ x.status \in {"written", "duplicate"}
    BY DEF L!EligibleItems
  <1>2. PICK i \in DOMAIN manifests[l].items : x = manifests[l].items[i]
    BY <1>1 DEF L!ToSet
  <1>3. Resolves(meta, payloads, x)
    BY <1>1, <1>2 DEF LandingInv, AllResolve
  <1>4. /\ meta[x.ref] # L!NoMeta /\ <<x.ref, meta[x.ref].report_ts>> \in DOMAIN payloads
        /\ payloads[<<x.ref, meta[x.ref].report_ts>>] = x.content
        /\ meta[x.ref].entity = x.entity
    BY <1>3 DEF Resolves, LandingInv, PayloadsMatch
  <1>5. L!load(x.ref) = x.content
    BY <1>4 DEF L!load
  <1> QED
    BY <1>1, <1>4, <1>5 DEF L!EligibleItems

(* What the invariant says of the items of a batch job.                    *)
LEMMA LandingResolves == L!TypeOK /\ LandingInv => L!JobItemsResolve
  <1> SUFFICES ASSUME L!TypeOK, LandingInv, NEW b \in L!JobItems,
                      NEW p \in b.source_refs, NEW q \in b.source_refs
               PROVE  /\ p[1] = q[1] => p = q
                      /\ \E l \in Landings : \E x \in L!EligibleItems(l, {"written", "duplicate"}) :
                             /\ <<x.source, x.ref>> = p /\ x.entity = b.entity
                             /\ L!load(x.ref) = x.content /\ meta[x.ref].entity = b.entity
    BY DEF L!JobItemsResolve
  <1>1. ASSUME NEW l \in Landings, NEW d \in BOOLEAN, b \in L!manifest_batch_items(l, d)
        PROVE  /\ p = q
               /\ \E x \in L!EligibleItems(l, {"written", "duplicate"}) :
                      /\ <<x.source, x.ref>> = p /\ x.entity = b.entity
                      /\ L!load(x.ref) = x.content /\ meta[x.ref].entity = b.entity
    <2> DEFINE statuses == IF d THEN {"written", "duplicate"} ELSE {"written"}
    <2>1. PICK x \in L!EligibleItems(l, statuses) :
              b = [entity |-> x.entity, source_refs |-> {<<x.source, x.ref>>}]
      BY <1>1 DEF L!manifest_batch_items
    <2>2. statuses \subseteq {"written", "duplicate"}
      OBVIOUS
    <2> HIDE DEF statuses
    <2>3. /\ x \in L!EligibleItems(l, {"written", "duplicate"})
          /\ L!load(x.ref) = x.content /\ meta[x.ref].entity = x.entity
      BY <2>1, <2>2, EligibleResolves
    <2> QED
      BY <2>1, <2>3
  <1>2. ASSUME NEW m \in SUBSET Landings, b \in L!multi_manifest_batch_items(m)
        PROVE  /\ p[1] = q[1] => p = q
               /\ \E l \in Landings : \E x \in L!EligibleItems(l, {"written", "duplicate"}) :
                      /\ <<x.source, x.ref>> = p /\ x.entity = b.entity
                      /\ L!load(x.ref) = x.content /\ meta[x.ref].entity = b.entity
    <2> DEFINE found == UNION {L!EligibleItems(l, {"written", "duplicate"}) : l \in m}
    <2>1. /\ \A x, y \in found : x.entity = y.entity /\ x.source = y.source => x.ref = y.ref
          /\ \E e \in {x.entity : x \in found} :
                 b = [entity |-> e,
                      source_refs |-> {<<x.source, x.ref>> : x \in {y \in found : y.entity = e}}]
      BY <1>2 DEF L!multi_manifest_batch_items
    <2>2. PICK x \in found, y \in found :
              /\ p = <<x.source, x.ref>> /\ q = <<y.source, y.ref>>
              /\ x.entity = b.entity /\ y.entity = b.entity
      <3> HIDE DEF found
      <3> QED
        BY <2>1
    <2>3. PICK l \in m : x \in L!EligibleItems(l, {"written", "duplicate"})
      OBVIOUS
    <2>4. L!load(x.ref) = x.content /\ meta[x.ref].entity = x.entity
      BY <2>3, EligibleResolves
    <2> QED
      BY <2>1, <2>2, <2>3, <2>4
  <1>3. \/ \E l \in Landings, d \in BOOLEAN : b \in L!manifest_batch_items(l, d)
        \/ \E m \in SUBSET Landings : b \in L!multi_manifest_batch_items(m)
    BY DEF L!JobItems
  <1> QED
    BY <1>1, <1>2, <1>3

-----------------------------------------------------------------------------
(* Imports.                                                                *)

(* What is known of a run at each of its steps.                            *)
RowsWritten(m) ==
    LET r == run[m] IN
    /\ r.all_written \subseteq imported
    /\ r.pc \in {"append", "online"} =>
           r.new \subseteq I!Group(m) /\ I!Group(m) \subseteq imported \cup r.new
    /\ r.pc = "online" => r.new \subseteq imported
    /\ \A i \in 1..Len(Groups[m]) :
           /\ ~r.rows_failed /\ (i < r.group \/ r.pc \in {"emit", "store"}) =>
                  Groups[m][i] \subseteq imported
           /\ outcome[m] \notin {"none", "rows_failed"} => Groups[m][i] \subseteq imported
RunKind(m) ==
    LET r == run[m] IN
    /\ Kind[m] = "backfill" /\ r.pc \in {"partition", "append", "online"} =>
           I!Group(m) \subseteq evidence
    /\ r.rows_failed => Kind[m] = "backfill"
    /\ r.pc = "emit" => Kind[m] # "backfill"
ImportInv ==
    /\ topic \cup served \subseteq imported
    /\ \A x \in imported :
           x \in evidence \/ \E m \in Runs : Kind[m] # "backfill" /\ x \in I!Candidates(m)
    /\ \A m \in Runs : RowsWritten(m) /\ RunKind(m)

(* A row of the input gives candidates.                                    *)
LEMMA GroupIsCandidate ==
    ASSUME NEW m \in Runs
    PROVE  /\ Groups[m] \in Seq(SUBSET I!Candidates(m)) /\ Len(Groups[m]) \in Nat \ {0}
           /\ \A i \in 1..Len(Groups[m]) : Groups[m][i] \subseteq I!Candidates(m)
           /\ \A x \in I!Candidates(m) : \E i \in 1..Len(Groups[m]) : x \in Groups[m][i]
  <1>1. Groups[m] \in Seq(SUBSET I!Candidates(m)) /\ Groups[m] # <<>>
    BY EntrancesAssumption DEF I!ImportAssumption
  <1>2. Len(Groups[m]) \in Nat \ {0} /\ DOMAIN Groups[m] = 1..Len(Groups[m])
    BY <1>1
  <1>3. \A x \in I!Candidates(m) : \E i \in 1..Len(Groups[m]) : x \in Groups[m][i]
    BY <1>2 DEF I!Candidates, I!ToSet
  <1> QED
    BY <1>1, <1>2, <1>3

(* The group in hand.                                                      *)
LEMMA GroupInHand ==
    ASSUME I!TypeOK, NEW m \in Runs
    PROVE  run[m].group \in 1..Len(Groups[m]) /\ I!Group(m) \subseteq I!Candidates(m)
  BY GroupIsCandidate DEF I!TypeOK, I!Place, I!Group

(* A fresh run is well typed.                                              *)
LEMMA BeginTyped ==
    ASSUME NEW m \in Runs
    PROVE  I!Begin(m) \in I!Place(m)
  <1>1. 1 \in 1..Len(Groups[m])
    <2>1. Len(Groups[m]) \in Nat \ {0}
      BY GroupIsCandidate
    <2> QED
      BY <2>1
  <1> QED
    BY <1>1 DEF I!Begin, I!Place

(* A step of one run leaves the others where they are.                     *)
LEMMA OtherRuns ==
    ASSUME I!TypeOK, ImportInv, NEW m \in Runs, NEW n \in Runs, n # m,
           run'[n] = run[n], outcome'[n] = outcome[n],
           imported \subseteq imported', evidence \subseteq evidence'
    PROVE  RowsWritten(n)' /\ RunKind(n)'
  <1>1. RowsWritten(n) /\ RunKind(n) /\ I!Group(n)' = I!Group(n)
    BY DEF ImportInv, I!Group
  <1>2. RowsWritten(n)'
    BY <1>1 DEF RowsWritten
  <1>3. RunKind(n)'
    BY <1>1 DEF RunKind
  <1> QED
    BY <1>2, <1>3

(* The next row, after one that is written or that fails.                  *)
LEMMA NextRowKept ==
    ASSUME I!TypeOK, ImportInv, NEW m \in Runs, NEW failed \in BOOLEAN, I!NextRow(m, failed),
           failed => Kind[m] = "backfill",
           ~failed => run[m].pc = "online",
           UNCHANGED <<imported, topic, evidence, outcome>>
    PROVE  /\ DOMAIN run' = Runs /\ \A n \in Runs : run'[n] \in I!Place(n)
           /\ \A n \in Runs : RowsWritten(n)' /\ RunKind(n)'
  <1> DEFINE r == run[m]
             goes_on == r.group < Len(Groups[m])
             p == IF goes_on THEN I!Begin(m).pc
                  ELSE IF Kind[m] = "backfill" THEN "store" ELSE "emit"
             g == IF goes_on THEN r.group + 1 ELSE r.group
             b == r.rows_failed \/ failed
             s == [r EXCEPT !.pc = p, !.group = g, !.rows_failed = b]
  <1>0. Len(Groups[m]) \in Nat \ {0} /\ r \in I!Place(m) /\ RowsWritten(m) /\ RunKind(m)
        /\ r.group \in 1..Len(Groups[m])
    BY GroupIsCandidate DEF I!TypeOK, ImportInv, I!Place
  <1>1. DOMAIN run' = Runs /\ run'[m] = s /\ \A n \in Runs : n # m => run'[n] = run[n]
    BY DEF I!NextRow, I!TypeOK
  <1>2. /\ p \in {"persist", "partition", "emit", "store"} /\ g \in 1..Len(Groups[m])
        /\ b \in BOOLEAN
    BY <1>0 DEF I!Begin, I!Place
  <1>a. /\ s.pc = p /\ s.group = g /\ s.rows_failed = b
        /\ s.new = r.new /\ s.all_written = r.all_written /\ s \in I!Place(m)
    <2> HIDE DEF p, g, b
    <2> QED
      BY <1>0, <1>2 DEF I!Place
  <1>3. \A n \in Runs : run'[n] \in I!Place(n)
    BY <1>1, <1>a DEF I!TypeOK
  <1>4. RowsWritten(m)'
    <2>1. ASSUME NEW i \in 1..Len(Groups[m]), ~b,
                 i < g \/ p \in {"emit", "store"}
          PROVE  Groups[m][i] \subseteq imported
      <3>1. ~failed /\ ~r.rows_failed /\ r.pc = "online"
        BY <1>0, <2>1 DEF I!Place
      <3>2. Groups[m][r.group] \subseteq imported
        BY <1>0, <3>1 DEF RowsWritten, I!Group
      <3>3. i < r.group \/ i = r.group
        BY <1>0, <1>2, <2>1 DEF I!Begin, I!Place
      <3> QED
        BY <1>0, <3>1, <3>2, <3>3 DEF RowsWritten
    <2> HIDE DEF s, p, g, b
    <2> QED
      BY <1>0, <1>1, <1>2, <1>a, <2>1 DEF RowsWritten
  <1>5. RunKind(m)'
    <2>1. Kind[m] = "backfill" => p \in {"persist", "store"}
      BY <1>0 DEF I!Begin, I!Place
    <2>2. b => Kind[m] = "backfill"
      BY <1>0 DEF RunKind, I!Place
    <2> HIDE DEF s, p, g, b
    <2> QED
      BY <1>1, <1>2, <1>a, <2>1, <2>2 DEF RunKind
  <1>6. ASSUME NEW n \in Runs, n # m PROVE RowsWritten(n)' /\ RunKind(n)'
    BY <1>1, <1>6, OtherRuns
  <1> QED
    BY <1>1, <1>3, <1>4, <1>5, <1>6

(* A run started again knows nothing, and needs nothing.                   *)
LEMMA BegunKept ==
    ASSUME I!TypeOK, ImportInv, NEW m \in Runs,
           run' = [run EXCEPT ![m] = I!Begin(m)], UNCHANGED <<imported, evidence, outcome>>
    PROVE  /\ DOMAIN run' = Runs /\ \A n \in Runs : run'[n] \in I!Place(n)
           /\ \A n \in Runs : RowsWritten(n)' /\ RunKind(n)'
  <1>1. DOMAIN run' = Runs /\ run'[m] = I!Begin(m) /\ \A n \in Runs : n # m => run'[n] = run[n]
    BY DEF I!TypeOK
  <1>2. \A n \in Runs : run'[n] \in I!Place(n)
    BY <1>1, BeginTyped DEF I!TypeOK
  <1>3. RowsWritten(m)'
    <2>1. /\ I!Begin(m).all_written = {} /\ I!Begin(m).group = 1
          /\ I!Begin(m).pc \in {"persist", "partition"}
      BY DEF I!Begin
    <2>2. RowsWritten(m)
      BY DEF ImportInv
    <2> QED
      BY <1>1, <2>1, <2>2 DEF RowsWritten
  <1>4. RunKind(m)'
    BY <1>1 DEF RunKind, I!Begin
  <1>5. ASSUME NEW n \in Runs, n # m PROVE RowsWritten(n)' /\ RunKind(n)'
    BY <1>1, <1>5, OtherRuns
  <1> QED
    BY <1>1, <1>2, <1>3, <1>4, <1>5

(* A run that reports is done, and no rows are missing unless it says so.  *)
LEMMA EndKept ==
    ASSUME I!TypeOK, ImportInv, NEW m \in Runs,
           NEW what \in {"rows_failed", "propagation_failed", "completed"}, I!End(m, what),
           run[m].pc \in {"emit", "store"}, what # "rows_failed" => ~run[m].rows_failed,
           UNCHANGED <<imported, evidence>>
    PROVE  /\ DOMAIN run' = Runs /\ \A n \in Runs : run'[n] \in I!Place(n)
           /\ outcome' \in [Runs -> {"none", "rows_failed", "propagation_failed", "completed"}]
           /\ \A n \in Runs : RowsWritten(n)' /\ RunKind(n)'
  <1> DEFINE r == run[m]
             s == [r EXCEPT !.pc = "done"]
  <1>0. r \in I!Place(m) /\ RowsWritten(m) /\ RunKind(m)
    BY DEF I!TypeOK, ImportInv
  <1>1. DOMAIN run' = Runs /\ run'[m] = s /\ \A n \in Runs : n # m => run'[n] = run[n]
    BY DEF I!End, I!TypeOK
  <1>2. /\ s.pc = "done" /\ s.group = r.group /\ s.rows_failed = r.rows_failed
        /\ s.new = r.new /\ s.all_written = r.all_written /\ s \in I!Place(m)
    BY <1>0 DEF I!Place
  <1>3. /\ outcome' \in [Runs -> {"none", "rows_failed", "propagation_failed", "completed"}]
        /\ outcome'[m] = what /\ \A n \in Runs : n # m => outcome'[n] = outcome[n]
    BY DEF I!End, I!TypeOK
  <1>4. \A n \in Runs : run'[n] \in I!Place(n)
    BY <1>1, <1>2 DEF I!TypeOK
  <1>5. RowsWritten(m)' /\ RunKind(m)'
    <2> HIDE DEF s
    <2>1. RowsWritten(m)'
      BY <1>0, <1>1, <1>2, <1>3 DEF RowsWritten
    <2>2. RunKind(m)'
      BY <1>0, <1>1, <1>2, <1>3 DEF RunKind
    <2> QED
      BY <2>1, <2>2
  <1>6. ASSUME NEW n \in Runs, n # m PROVE RowsWritten(n)' /\ RunKind(n)'
    BY <1>1, <1>3, <1>6, OtherRuns
  <1> QED
    BY <1>1, <1>3, <1>4, <1>5, <1>6

(* A step that moves one run within a row.                                 *)
LEMMA MovedKept ==
    ASSUME I!TypeOK, ImportInv, NEW m \in Runs, NEW s \in I!Place(m),
           DOMAIN run' = Runs, run'[m] = s, \A n \in Runs : n # m => run'[n] = run[n],
           s.group = run[m].group, s.rows_failed = run[m].rows_failed,
           s.all_written \subseteq imported',
           s.pc \in {"append", "online"} =>
               s.new \subseteq I!Group(m) /\ I!Group(m) \subseteq imported' \cup s.new,
           s.pc = "online" => s.new \subseteq imported',
           s.pc \in {"emit", "store"} => run[m].pc \in {"emit", "store"},
           Kind[m] = "backfill" /\ s.pc \in {"partition", "append", "online"} =>
               I!Group(m) \subseteq evidence',
           s.pc = "emit" => Kind[m] # "backfill",
           imported \subseteq imported', evidence \subseteq evidence', UNCHANGED outcome
    PROVE  /\ \A n \in Runs : run'[n] \in I!Place(n)
           /\ \A n \in Runs : RowsWritten(n)' /\ RunKind(n)'
  <1>1. I!Group(m)' = I!Group(m) /\ RowsWritten(m) /\ RunKind(m)
    BY DEF I!Group, ImportInv
  <1>2. \A n \in Runs : run'[n] \in I!Place(n)
    BY DEF I!TypeOK
  <1>3. RowsWritten(m)'
    BY <1>1 DEF RowsWritten
  <1>4. RunKind(m)'
    BY <1>1 DEF RunKind
  <1>5. ASSUME NEW n \in Runs, n # m PROVE RowsWritten(n)' /\ RunKind(n)'
    BY <1>5, OtherRuns
  <1> QED
    BY <1>2, <1>3, <1>4, <1>5

(* The types and the invariant of the imports are kept.                    *)
LEMMA ImportStep ==
    I!TypeOK /\ ImportInv /\ [I!Next]_(I!vars) => I!TypeOK' /\ ImportInv'
  <1> SUFFICES ASSUME I!TypeOK, ImportInv, [I!Next]_(I!vars) PROVE I!TypeOK' /\ ImportInv'
    OBVIOUS
  <1>c. MaxInterruptions \in Nat
    BY EntrancesAssumption DEF I!ImportAssumption
  <1> DEFINE Typed == DOMAIN run' = Runs /\ \A n \in Runs : run'[n] \in I!Place(n)
             Kept == \A n \in Runs : RowsWritten(n)' /\ RunKind(n)'
  <1>1. ASSUME NEW m \in Runs, I!PersistSources(m) PROVE I!TypeOK' /\ ImportInv'
    <2> DEFINE s == [run[m] EXCEPT !.pc = "partition"]
    <2>1. /\ DOMAIN run' = Runs /\ run'[m] = s /\ \A n \in Runs : n # m => run'[n] = run[n]
          /\ run[m] \in I!Place(m) /\ run[m].pc = "persist"
          /\ evidence' = evidence \cup I!Group(m)
          /\ UNCHANGED <<imported, served, topic, outcome, failures>>
      BY <1>1 DEF I!PersistSources, I!Goto, I!TypeOK
    <2>2. /\ s \in I!Place(m) /\ s.pc = "partition" /\ s.group = run[m].group
          /\ s.rows_failed = run[m].rows_failed /\ s.all_written = run[m].all_written
      BY <2>1 DEF I!Place
    <2>3. s.all_written \subseteq imported
      BY <2>2 DEF ImportInv, RowsWritten
    <2> HIDE DEF s
    <2>4. Typed /\ Kept
      BY <2>1, <2>2, <2>3, MovedKept
    <2>5. I!TypeOK'
      BY <2>1, <2>4 DEF I!TypeOK
    <2> QED
      BY <2>1, <2>4, <2>5 DEF ImportInv
  <1>2. ASSUME NEW m \in Runs, I!Partition(m) PROVE I!TypeOK' /\ ImportInv'
    <2> DEFINE s == [run[m] EXCEPT !.new = I!Group(m) \ imported, !.pc = "append"]
    <2>1. /\ DOMAIN run' = Runs /\ run'[m] = s /\ \A n \in Runs : n # m => run'[n] = run[n]
          /\ run[m] \in I!Place(m) /\ run[m].pc = "partition"
          /\ UNCHANGED <<imported, served, topic, evidence, outcome, failures>>
      BY <1>2 DEF I!Partition, I!TypeOK
    <2>2. /\ s \in I!Place(m) /\ s.pc = "append" /\ s.group = run[m].group
          /\ s.rows_failed = run[m].rows_failed /\ s.all_written = run[m].all_written
          /\ s.new = I!Group(m) \ imported
      <3>1. I!Group(m) \ imported \in SUBSET I!Candidates(m)
        BY GroupInHand
      <3> QED
        BY <2>1, <3>1 DEF I!Place
    <2>3. s.all_written \subseteq imported
      BY <2>2 DEF ImportInv, RowsWritten
    <2>4. Kind[m] = "backfill" => I!Group(m) \subseteq evidence
      BY <2>1 DEF ImportInv, RunKind
    <2> HIDE DEF s
    <2>5. Typed /\ Kept
      BY <2>1, <2>2, <2>3, <2>4, MovedKept
    <2>6. I!TypeOK'
      BY <2>1, <2>5 DEF I!TypeOK
    <2> QED
      BY <2>1, <2>5, <2>6 DEF ImportInv
  <1>3. ASSUME NEW m \in Runs, I!AppendRows(m) PROVE I!TypeOK' /\ ImportInv'
    <2> DEFINE s == [run[m] EXCEPT !.all_written = @ \cup run[m].new, !.pc = "online"]
    <2>1. /\ DOMAIN run' = Runs /\ run'[m] = s /\ \A n \in Runs : n # m => run'[n] = run[n]
          /\ run[m] \in I!Place(m) /\ run[m].pc = "append"
          /\ imported' = imported \cup run[m].new
          /\ UNCHANGED <<served, topic, evidence, outcome, failures>>
      BY <1>3 DEF I!AppendRows, I!TypeOK
    <2>2. /\ s \in I!Place(m) /\ s.pc = "online" /\ s.group = run[m].group
          /\ s.rows_failed = run[m].rows_failed /\ s.new = run[m].new
          /\ s.all_written = run[m].all_written \cup run[m].new
      BY <2>1 DEF I!Place
    <2>3. /\ run[m].all_written \subseteq imported /\ run[m].new \subseteq I!Group(m)
          /\ I!Group(m) \subseteq imported \cup run[m].new
          /\ Kind[m] = "backfill" => I!Group(m) \subseteq evidence
      BY <2>1 DEF ImportInv, RowsWritten, RunKind
    <2> HIDE DEF s
    <2>4. Typed /\ Kept
      BY <2>1, <2>2, <2>3, MovedKept
    <2>5. I!TypeOK'
      BY <2>1, <2>4 DEF I!TypeOK
    <2>6. \A x \in imported' :
              x \in evidence' \/ \E k \in Runs : Kind[k] # "backfill" /\ x \in I!Candidates(k)
      <3>1. I!Group(m) \subseteq I!Candidates(m)
        BY GroupInHand
      <3> QED
        BY <2>1, <2>3, <3>1 DEF ImportInv
    <2> QED
      BY <2>1, <2>4, <2>5, <2>6 DEF ImportInv
  <1>4. ASSUME NEW m \in Runs, I!WriteOnline(m) PROVE I!TypeOK' /\ ImportInv'
    <2>1. /\ run[m].pc = "online" /\ I!NextRow(m, FALSE)
          /\ served' \subseteq served \cup run[m].new
          /\ UNCHANGED <<imported, topic, evidence, outcome, failures>>
      BY <1>4 DEF I!WriteOnline
    <2>2. Typed /\ Kept
      BY <2>1, NextRowKept
    <2>3. run[m].new \subseteq imported
      BY <2>1 DEF ImportInv, RowsWritten
    <2>4. I!TypeOK'
      BY <2>1, <2>2 DEF I!TypeOK
    <2> QED
      BY <2>1, <2>2, <2>3, <2>4 DEF ImportInv
  <1>5. ASSUME NEW m \in Runs, I!RowFails(m) PROVE I!TypeOK' /\ ImportInv'
    <2>1. /\ Kind[m] = "backfill" /\ I!NextRow(m, TRUE)
          /\ failures' \in 0..MaxInterruptions
          /\ UNCHANGED <<imported, served, topic, evidence, outcome>>
      <3>1. /\ Kind[m] = "backfill" /\ I!NextRow(m, TRUE)
            /\ failures < MaxInterruptions /\ failures' = failures + 1
            /\ UNCHANGED <<imported, served, topic, evidence, outcome>>
        BY <1>5 DEF I!RowFails, I!Interrupt
      <3>2. failures' \in 0..MaxInterruptions
        BY <1>c, <3>1 DEF I!TypeOK
      <3> QED
        BY <3>1, <3>2
    <2>2. Typed /\ Kept
      BY <2>1, NextRowKept
    <2>3. I!TypeOK'
      BY <2>1, <2>2 DEF I!TypeOK
    <2> QED
      BY <2>1, <2>2, <2>3 DEF ImportInv
  <1>6. ASSUME NEW m \in Runs, I!EmitUpdates(m) PROVE I!TypeOK' /\ ImportInv'
    <2> DEFINE s == [run[m] EXCEPT !.pc = "store"]
    <2>1. /\ DOMAIN run' = Runs /\ run'[m] = s /\ \A n \in Runs : n # m => run'[n] = run[n]
          /\ run[m] \in I!Place(m) /\ run[m].pc = "emit"
          /\ topic' \subseteq topic \cup run[m].all_written
          /\ UNCHANGED <<imported, served, evidence, outcome, failures>>
      BY <1>6 DEF I!EmitUpdates, I!Updates, I!Goto, I!TypeOK
    <2>2. /\ s \in I!Place(m) /\ s.pc = "store" /\ s.group = run[m].group
          /\ s.rows_failed = run[m].rows_failed /\ s.all_written = run[m].all_written
      BY <2>1 DEF I!Place
    <2>3. run[m].all_written \subseteq imported
      BY DEF ImportInv, RowsWritten
    <2> HIDE DEF s
    <2>4. Typed /\ Kept
      BY <2>1, <2>2, <2>3, MovedKept
    <2>5. I!TypeOK'
      BY <2>1, <2>4 DEF I!TypeOK
    <2> QED
      BY <2>1, <2>3, <2>4, <2>5 DEF ImportInv
  <1>7. ASSUME NEW m \in Runs, I!EmitFails(m) PROVE I!TypeOK' /\ ImportInv'
    <2>1. /\ run[m].pc = "emit" /\ topic' \subseteq topic \cup run[m].all_written
          /\ failures' \in 0..MaxInterruptions /\ UNCHANGED <<imported, served, evidence>>
      <3>1. /\ run[m].pc = "emit" /\ failures < MaxInterruptions /\ failures' = failures + 1
            /\ topic' \in {topic, topic \cup (run[m].all_written \cap Reactive)}
            /\ UNCHANGED <<imported, served, evidence>>
        BY <1>7 DEF I!EmitFails, I!Updates, I!Interrupt
      <3>2. failures' \in 0..MaxInterruptions
        BY <1>c, <3>1 DEF I!TypeOK
      <3> QED
        BY <3>1, <3>2
    <2>2. run[m].all_written \subseteq imported /\ ~run[m].rows_failed
      BY <2>1 DEF ImportInv, RowsWritten, RunKind, I!TypeOK, I!Place
    <2>3. CASE run' = [run EXCEPT ![m] = I!Begin(m)] /\ UNCHANGED outcome
      <3>1. Typed /\ Kept
        BY <2>1, <2>3, BegunKept
      <3>2. I!TypeOK'
        BY <2>1, <2>3, <3>1 DEF I!TypeOK
      <3> QED
        BY <2>1, <2>2, <3>1, <3>2 DEF ImportInv
    <2>4. CASE I!End(m, "propagation_failed")
      <3>1. Typed /\ Kept
            /\ outcome' \in [Runs -> {"none", "rows_failed", "propagation_failed", "completed"}]
        BY <2>1, <2>2, <2>4, EndKept
      <3>2. I!TypeOK'
        BY <2>1, <3>1 DEF I!TypeOK
      <3> QED
        BY <2>1, <2>2, <3>1, <3>2 DEF ImportInv
    <2> QED
      BY <1>7, <2>3, <2>4 DEF I!EmitFails
  <1>8. ASSUME NEW m \in Runs, I!StoreOutcome(m) PROVE I!TypeOK' /\ ImportInv'
    <2> DEFINE what == IF run[m].rows_failed THEN "rows_failed" ELSE "completed"
    <2>1. /\ run[m].pc = "store" /\ I!End(m, what) /\ UNCHANGED <<imported, served, topic, evidence, failures>>
      BY <1>8 DEF I!StoreOutcome
    <2>2. what \in {"rows_failed", "completed"} /\ (what # "rows_failed" => ~run[m].rows_failed)
      OBVIOUS
    <2> HIDE DEF what
    <2>3. Typed /\ Kept
          /\ outcome' \in [Runs -> {"none", "rows_failed", "propagation_failed", "completed"}]
      BY <2>1, <2>2, EndKept
    <2>4. I!TypeOK'
      BY <2>1, <2>3 DEF I!TypeOK
    <2> QED
      BY <2>1, <2>3, <2>4 DEF ImportInv
  <1>9. ASSUME NEW m \in Runs, I!RunDies(m) PROVE I!TypeOK' /\ ImportInv'
    <2>1. /\ run' = [run EXCEPT ![m] = I!Begin(m)] /\ failures' \in 0..MaxInterruptions
          /\ UNCHANGED <<imported, served, topic, evidence, outcome>>
      BY <1>9, <1>c DEF I!RunDies, I!Interrupt, I!TypeOK
    <2>2. Typed /\ Kept
      BY <2>1, BegunKept
    <2>3. I!TypeOK'
      BY <2>1, <2>2 DEF I!TypeOK
    <2> QED
      BY <2>1, <2>2, <2>3 DEF ImportInv
  <1>10. CASE UNCHANGED I!vars
    BY <1>10 DEF I!vars, I!TypeOK, ImportInv, RowsWritten, RunKind, I!Group
  <1> QED
    BY <1>1, <1>2, <1>3, <1>4, <1>5, <1>6, <1>7, <1>8, <1>9, <1>10 DEF I!Next, I!Step

(* Imports: the invariant holds of the import runs by themselves.          *)
THEOREM ImportsInvariant == I!Spec => [](I!TypeOK /\ ImportInv)
  <1>1. I!Init => I!TypeOK /\ ImportInv
    <2> SUFFICES ASSUME I!Init PROVE I!TypeOK /\ ImportInv
      OBVIOUS
    <2>1. MaxInterruptions \in Nat
      BY EntrancesAssumption DEF I!ImportAssumption
    <2>2. I!TypeOK
      BY <2>1, BeginTyped DEF I!Init, I!TypeOK
    <2>3. ASSUME NEW m \in Runs PROVE RowsWritten(m) /\ RunKind(m)
      <3>1. run[m] = I!Begin(m) /\ outcome[m] = "none"
        BY DEF I!Init
      <3>2. RowsWritten(m)
        BY <3>1 DEF RowsWritten, I!Begin
      <3>3. RunKind(m)
        BY <3>1 DEF RunKind, I!Begin
      <3> QED
        BY <3>2, <3>3
    <2> QED
      BY <2>2, <2>3 DEF I!Init, ImportInv
  <1> QED
    BY <1>1, ImportStep, PTL DEF I!Spec

(* What the invariant says to the outside.                                 *)
LEMMA ImportsDurable == I!TypeOK /\ ImportInv => I!DurableFirst
  <1> SUFFICES ASSUME I!TypeOK, ImportInv PROVE I!DurableFirst
    OBVIOUS
  <1>1. ASSUME NEW m \in Runs, outcome[m] \notin {"none", "rows_failed"}
        PROVE  I!Candidates(m) \subseteq imported
    BY <1>1, GroupIsCandidate DEF ImportInv, RowsWritten
  <1> QED
    BY <1>1 DEF ImportInv, I!DurableFirst

-----------------------------------------------------------------------------
(* Scores of outside models.                                               *)

(* What the score writer materializes is a record.                         *)
LEMMA ScoreRecord ==
    ASSUME NEW s \in Writes, NEW f \in DOMAIN Scores[s]
    PROVE  /\ Scores[s][f] \in Nat /\ W!ResultOf(s, f) \in W!Record
           /\ W!ResultOf(s, f).data_ts = Scores[s][f]
           /\ f \in W!Features
  <1>1. Scores[s][f] \in Nat
    BY EntrancesAssumption DEF W!ScoresAssumption
  <1> QED
    BY <1>1 DEF W!ResultOf, W!Record, W!NoTs, W!NoFp, W!NoAv, W!Features

(* "No record" is none.                                                    *)
LEMMA ScoreNotAbsent == Absent \notin W!Record
  BY EntrancesAssumption DEF W!ScoresAssumption

(* The guard on records of scores: the one with the later date is kept.    *)
LEMMA ScoreGuard ==
    ASSUME NEW r \in W!Record, NEW c \in W!Record \cup {Absent}, NEW d,
           d = IF W!D9_SCRIPT(r, c) \in W!WRITE_OUTCOMES THEN r ELSE c
    PROVE  /\ d \in W!Record /\ d.data_ts >= r.data_ts
           /\ c # Absent => d.data_ts >= c.data_ts
  <1>1. CASE c = Absent
    BY <1>1, ScoreNotAbsent DEF W!D9_SCRIPT, W!WRITE_OUTCOMES, W!Record
  <1>2. CASE c # Absent
    <2>1. /\ W!LuaArgs(r).dts = r.data_ts /\ W!LuaArgs(r).max = r.data_ts
          /\ W!LuaArgs(c).dts = c.data_ts /\ W!LuaArgs(c).max = c.data_ts
          /\ W!LuaArgs(r).fp = W!LuaArgs(c).fp
      BY <1>2 DEF W!LuaArgs, W!Record
    <2>2. c \in W!Record /\ r.data_ts \in Nat /\ c.data_ts \in Nat
      BY <1>2 DEF W!Record
    <2>3. CASE r.data_ts > c.data_ts
      <3>1. W!D9_SCRIPT(r, c) = "written"
        BY <1>2, <2>1, <2>2, <2>3 DEF W!D9_SCRIPT
      <3> QED
        BY <2>2, <2>3, <3>1 DEF W!WRITE_OUTCOMES
    <2>4. CASE ~(r.data_ts > c.data_ts)
      <3>1. W!D9_SCRIPT(r, c) \in W!WRITE_OUTCOMES => r.data_ts = c.data_ts
        BY <1>2, <2>1, <2>2, <2>4 DEF W!D9_SCRIPT, W!WRITE_OUTCOMES
      <3> QED
        BY <2>2, <2>4, <3>1
    <2> QED
      BY <2>3, <2>4
  <1> QED
    BY <1>1, <1>2

(* The message in hand.                                                    *)
LEMMA ScoreCur ==
    ASSUME W!TypeOK, pc # "poll"
    PROVE  position \in 1..Len(scoreTopic) /\ W!Cur \in Writes
  BY DEF W!TypeOK, W!Cur

(* Served scores: a feature never loses its date.                          *)
LEMMA ScoresKept ==
    ASSUME W!TypeOK, [W!Next]_(W!vars), NEW s \in Writes, NEW f \in DOMAIN Scores[s],
           online[f] # Absent, online[f].data_ts >= Scores[s][f]
    PROVE  online'[f] # Absent /\ online'[f].data_ts >= Scores[s][f]
  <1>0. f \in W!Features /\ Scores[s][f] \in Nat
    BY ScoreRecord
  <1>1. CASE online' = online
    BY <1>1
  <1>2. ASSUME NEW g \in W!Features, W!WriteOnline(g), online' # online
        PROVE  online'[f] # Absent /\ online'[f].data_ts >= Scores[s][f]
    <2>1. pc = "write_online" /\ g \in DOMAIN Scores[W!Cur] /\ W!Cur \in Writes
      BY <1>2, ScoreCur DEF W!WriteOnline, W!TypeOK
    <2>2. W!ResultOf(W!Cur, g) \in W!Record
      BY <2>1, ScoreRecord
    <2>3. /\ online \in [W!Features -> W!Record \cup {Absent}]
          /\ online' = [online EXCEPT ![g] = W!ResultOf(W!Cur, g)]
          /\ W!D9_SCRIPT(W!ResultOf(W!Cur, g), online[g]) \in W!WRITE_OUTCOMES
      BY <1>2 DEF W!WriteOnline, W!TypeOK
    <2>4. online[g] # Absent => W!ResultOf(W!Cur, g).data_ts >= online[g].data_ts
      BY <2>2, <2>3, ScoreGuard
    <2>5. online[f].data_ts \in Nat /\ W!ResultOf(W!Cur, g).data_ts \in Nat
      BY <1>0, <2>2, <2>3 DEF W!Record
    <2>6. CASE f = g
      <3>1. online'[f] = W!ResultOf(W!Cur, g)
        BY <1>0, <2>3, <2>6
      <3> QED
        BY <1>0, <2>2, <2>4, <2>5, <2>6, <3>1, ScoreNotAbsent
    <2>7. CASE f # g
      BY <1>0, <2>3, <2>7
    <2> QED
      BY <2>6, <2>7
  <1>3. online' = online \/ \E g \in W!Features : W!WriteOnline(g)
    BY DEF W!Next, W!vars, W!write_model_scores, W!Poll, W!PublishOffline, W!DeadLetter,
           W!Commit, W!Crash
  <1> QED
    BY <1>1, <1>2, <1>3

(* The types are kept.                                                     *)
LEMMA ScoreTypes == W!TypeOK /\ [W!Next]_(W!vars) => W!TypeOK'
  <1> SUFFICES ASSUME W!TypeOK, [W!Next]_(W!vars) PROVE W!TypeOK'
    OBVIOUS
  <1>c. MaxInterruptions \in Nat
    BY EntrancesAssumption DEF W!ScoresAssumption
  <1>1. ASSUME NEW s \in Writes, W!write_model_scores(s) PROVE W!TypeOK'
    <2>1. scoreTopic' \in Seq(Writes) /\ Len(scoreTopic') = Len(scoreTopic) + 1
      BY <1>1 DEF W!write_model_scores, W!TypeOK
    <2>2. pc # "poll" => W!Cur' = W!Cur
      <3>1. ASSUME pc # "poll" PROVE scoreTopic'[position] = scoreTopic[position]
        BY <1>1, <3>1, ScoreCur DEF W!write_model_scores, W!TypeOK
      <3> QED
        BY <1>1, <3>1 DEF W!Cur, W!write_model_scores
    <2> QED
      BY <1>1, <2>1, <2>2 DEF W!write_model_scores, W!TypeOK
  <1>2. CASE W!Poll
    <2>1. scoreTopic' = scoreTopic /\ position' \in 1..Len(scoreTopic) /\ committed' \in 0..position'
      BY <1>2 DEF W!Poll, W!TypeOK
    <2>2. W!Cur' = scoreTopic[position + 1] /\ W!Cur' \in Writes
      BY <1>2, <2>1 DEF W!Poll, W!TypeOK, W!Cur
    <2>3. /\ pc' \in {"write_online", "publish", "dead_letter", "commit"}
          /\ pending' \subseteq IF pc' = "write_online" THEN DOMAIN Scores[W!Cur'] ELSE {}
      BY <1>2, <2>2 DEF W!Poll, W!AfterOnline
    <2> QED
      BY <1>2, <2>1, <2>3 DEF W!Poll, W!TypeOK
  <1>3. ASSUME NEW f \in W!Features, W!WriteOnline(f) PROVE W!TypeOK'
    <2>1. pc = "write_online" /\ f \in DOMAIN Scores[W!Cur] /\ W!Cur \in Writes
      BY <1>3, ScoreCur DEF W!WriteOnline, W!TypeOK
    <2>2. W!ResultOf(W!Cur, f) \in W!Record
      BY <2>1, ScoreRecord
    <2>3. online' \in [W!Features -> W!Record \cup {Absent}]
      BY <1>3, <2>2 DEF W!WriteOnline, W!TypeOK
    <2>4. W!Cur' = W!Cur
      BY <1>3 DEF W!WriteOnline, W!Cur
    <2>5. /\ pc' \in {"poll", "write_online", "publish", "commit"}
          /\ pending' \subseteq IF pc' = "write_online" THEN DOMAIN Scores[W!Cur'] ELSE {}
      BY <1>3, <2>4 DEF W!WriteOnline, W!TypeOK, W!AfterOnline, W!Fault, W!Return
    <2>6. /\ faults' \in Nat /\ restarts' \in Nat
          /\ faults' + restarts' <= MaxInterruptions
      BY <1>c, <1>3 DEF W!WriteOnline, W!Fault, W!TypeOK
    <2>7. scoreTopic' = scoreTopic /\ position' = position /\ committed' = committed
          /\ offline' = offline /\ dlq' = dlq
      BY <1>3 DEF W!WriteOnline
    <2> QED
      BY <2>1, <2>3, <2>5, <2>6, <2>7 DEF W!TypeOK
  <1>4. CASE W!PublishOffline
    <2>1. W!Cur \in Writes
      BY <1>4, ScoreCur DEF W!PublishOffline
    <2> QED
      BY <1>c, <1>4, <2>1 DEF W!PublishOffline, W!Fault, W!Return, W!TypeOK
  <1>5. CASE W!DeadLetter
    <2>1. W!Cur \in Writes
      BY <1>5, ScoreCur DEF W!DeadLetter
    <2> QED
      BY <1>c, <1>5, <2>1 DEF W!DeadLetter, W!Fault, W!Return, W!TypeOK
  <1>6. CASE W!Commit
    BY <1>6 DEF W!Commit, W!Return, W!TypeOK
  <1>7. CASE W!Crash
    BY <1>c, <1>7 DEF W!Crash, W!Return, W!TypeOK
  <1>8. CASE UNCHANGED W!vars
    BY <1>8 DEF W!vars, W!TypeOK, W!Cur
  <1> QED
    BY <1>1, <1>2, <1>3, <1>4, <1>5, <1>6, <1>7, <1>8 DEF W!Next

(* How far the writer has come with the message in hand: what ScoresSettled*)
(* needs, as long as no call has failed.                                   *)
ScoreServed(s, f) == online[f] # Absent /\ online[f].data_ts >= Scores[s][f]
ScoreReached ==
    /\ pc = "write_online" =>
          /\ W!Cur \in scores_online \ Unusable /\ pending # {}
          /\ \A f \in DOMAIN Scores[W!Cur] \ pending : ScoreServed(W!Cur, f)
    /\ pc = "publish" =>
          /\ W!Cur \in scores_offline \ Unusable
          /\ W!Cur \in scores_online => W!Covered(W!Cur)
    /\ pc = "dead_letter" => W!Cur \in Unusable
    /\ pc = "commit" => W!Settled(W!Cur)
ScoreInv ==
    faults = 0 =>
        /\ \A o \in 1..committed : W!Settled(scoreTopic[o])
        /\ position = committed + (IF pc = "poll" THEN 0 ELSE 1)
        /\ ScoreReached

(* Settled stays settled.                                                  *)
LEMMA SettledScoreKept ==
    ASSUME W!TypeOK, [W!Next]_(W!vars), NEW s \in Writes
    PROVE  /\ W!Settled(s) => W!Settled(s)'
           /\ W!Covered(s) => W!Covered(s)'
           /\ \A f \in DOMAIN Scores[s] : ScoreServed(s, f) => ScoreServed(s, f)'
  <1>1. offline \subseteq offline' /\ dlq \subseteq dlq'
    BY DEF W!Next, W!vars, W!write_model_scores, W!Poll, W!WriteOnline, W!PublishOffline,
           W!DeadLetter, W!Commit, W!Crash
  <1>2. \A f \in DOMAIN Scores[s] : ScoreServed(s, f) => ScoreServed(s, f)'
    BY ScoresKept DEF ScoreServed
  <1>3. W!Covered(s) => W!Covered(s)'
    BY <1>2 DEF W!Covered, ScoreServed
  <1> QED
    BY <1>1, <1>2, <1>3 DEF W!Settled

(* The messages of the topic stay, and with it the one in hand until the   *)
(* writer polls again.                                                     *)
LEMMA ScoreTopicKept ==
    ASSUME W!TypeOK, [W!Next]_(W!vars)
    PROVE  /\ Len(scoreTopic') >= Len(scoreTopic)
           /\ \A o \in 1..Len(scoreTopic) : scoreTopic'[o] = scoreTopic[o]
  <1>1. CASE scoreTopic' = scoreTopic
    BY <1>1 DEF W!TypeOK
  <1>2. CASE \E s \in Writes : W!write_model_scores(s)
    BY <1>2 DEF W!write_model_scores, W!TypeOK
  <1> QED
    BY <1>1, <1>2 DEF W!Next, W!vars, W!Poll, W!WriteOnline, W!PublishOffline,
           W!DeadLetter, W!Commit, W!Crash

(* Each step keeps the invariant.                                          *)
LEMMA ScoreStep ==
    W!TypeOK /\ W!TypeOK' /\ ScoreInv /\ [W!Next]_(W!vars) => ScoreInv'
  <1> SUFFICES ASSUME W!TypeOK, W!TypeOK', ScoreInv, [W!Next]_(W!vars), faults' = 0
               PROVE  /\ \A o \in 1..committed' : W!Settled(scoreTopic[o])'
                      /\ position' = committed' + (IF pc' = "poll" THEN 0 ELSE 1)
                      /\ ScoreReached'
    BY Zenon DEF ScoreInv
  <1>1. faults = 0 /\ faults \in Nat /\ ~W!Fault
    <2>1. faults \in Nat /\ (faults' = faults \/ faults' = faults + 1)
      BY DEF W!TypeOK, W!Next, W!vars, W!write_model_scores, W!Poll, W!WriteOnline, W!PublishOffline,
           W!DeadLetter, W!Commit, W!Crash, W!Fault
    <2> QED
      BY <2>1 DEF W!Fault
  <1>2. /\ \A o \in 1..committed : W!Settled(scoreTopic[o])
        /\ position = committed + (IF pc = "poll" THEN 0 ELSE 1)
        /\ ScoreReached
    BY <1>1 DEF ScoreInv
  <1>3. /\ position \in Nat /\ committed \in Nat /\ committed <= position
        /\ position <= Len(scoreTopic) /\ Len(scoreTopic) \in Nat
        /\ \A o \in 1..Len(scoreTopic) : scoreTopic[o] \in Writes
    BY DEF W!TypeOK
  <1>4. \A o \in 1..committed : W!Settled(scoreTopic[o])'
    <2> SUFFICES ASSUME NEW o \in 1..committed PROVE W!Settled(scoreTopic[o])'
      OBVIOUS
    <2>1. o \in 1..Len(scoreTopic) /\ scoreTopic'[o] = scoreTopic[o] /\ scoreTopic[o] \in Writes
      BY <1>3, ScoreTopicKept
    <2>2. W!Settled(scoreTopic[o])
      BY <1>2
    <2> QED
      BY <2>1, <2>2, SettledScoreKept DEF W!Settled, W!Covered
  <1>5. pc # "poll" => /\ W!Cur \in Writes /\ position \in 1..Len(scoreTopic)
                       /\ position' = position => W!Cur' = W!Cur
    BY ScoreCur, ScoreTopicKept DEF W!Cur
  <1>6. CASE UNCHANGED <<position, committed, pc, pending, online, offline, dlq>>
    <2>1. ScoreReached'
      BY <1>2, <1>5, <1>6 DEF ScoreReached, ScoreServed, W!Settled, W!Covered
    <2> QED
      BY <1>2, <1>4, <1>6, <2>1
  <1>7. CASE W!Poll
    <2>1. pc = "poll" /\ position' = position + 1 /\ committed' = committed /\ pc' # "poll"
      BY <1>7 DEF W!Poll, W!AfterOnline
    <2>2. W!Cur' = scoreTopic[position + 1] /\ W!Cur' \in Writes
      BY <1>3, <1>7, <2>1 DEF W!Poll, W!Cur
    <2>3. DOMAIN Scores[W!Cur'] # {}
      BY <2>2, EntrancesAssumption DEF W!ScoresAssumption
    <2>4. ScoreReached'
      BY <1>7, <2>2, <2>3 DEF ScoreReached, W!Poll, W!AfterOnline, W!Settled
    <2> QED
      BY <1>2, <1>3, <1>4, <2>1, <2>4
  <1>8. ASSUME NEW f \in W!Features, W!WriteOnline(f)
        PROVE  position' = committed' + (IF pc' = "poll" THEN 0 ELSE 1)
               /\ committed' = committed /\ ScoreReached'
    <2>1. /\ pc = "write_online" /\ f \in pending /\ pending' = pending \ {f}
          /\ pc' = IF pending = {f} THEN W!AfterOnline(W!Cur) ELSE pc
          /\ online' = IF W!D9_SCRIPT(W!ResultOf(W!Cur, f), online[f]) \in W!WRITE_OUTCOMES
                       THEN [online EXCEPT ![f] = W!ResultOf(W!Cur, f)] ELSE online
          /\ position' = position /\ committed' = committed /\ offline' = offline /\ dlq' = dlq
      BY <1>1, <1>8 DEF W!WriteOnline
    <2>2. W!Cur' = W!Cur /\ W!Cur \in Writes /\ f \in DOMAIN Scores[W!Cur] /\ pc' # "poll"
      BY <1>5, <2>1 DEF W!TypeOK, W!AfterOnline
    <2>3. ScoreServed(W!Cur, f)'
      <3>1. /\ W!ResultOf(W!Cur, f) \in W!Record
            /\ W!ResultOf(W!Cur, f).data_ts = Scores[W!Cur][f]
        BY <2>2, ScoreRecord
      <3>2. online \in [W!Features -> W!Record \cup {Absent}]
        BY DEF W!TypeOK
      <3>3. online'[f] = IF W!D9_SCRIPT(W!ResultOf(W!Cur, f), online[f]) \in W!WRITE_OUTCOMES
                         THEN W!ResultOf(W!Cur, f) ELSE online[f]
        BY <2>1, <3>2
      <3>4. online'[f] \in W!Record /\ online'[f].data_ts >= Scores[W!Cur][f]
        BY <3>1, <3>2, <3>3, ScoreGuard
      <3> QED
        BY <2>2, <3>4, ScoreNotAbsent DEF ScoreServed
    <2>4. \A g \in DOMAIN Scores[W!Cur] \ pending : ScoreServed(W!Cur, g)'
      BY <1>2, <2>1, <2>2, SettledScoreKept DEF ScoreReached
    <2>5. \A g \in DOMAIN Scores[W!Cur] \ pending' : ScoreServed(W!Cur, g)'
      BY <2>1, <2>3, <2>4
    <2>6. pending' = {} => W!Covered(W!Cur)'
      BY <2>2, <2>5 DEF W!Covered, ScoreServed
    <2>7. ScoreReached'
      <3>1. CASE pending = {f}
        <4>1. W!Covered(W!Cur)' /\ W!Cur \notin Unusable
          BY <1>2, <2>1, <2>6, <3>1 DEF ScoreReached
        <4> QED
          BY <2>1, <2>2, <3>1, <4>1 DEF ScoreReached, W!AfterOnline, W!Settled, W!Covered
      <3>2. CASE pending # {f}
        <4>1. pending' # {} /\ pc' = "write_online"
          BY <2>1, <3>2
        <4> QED
          BY <1>2, <2>1, <2>2, <2>5, <4>1 DEF ScoreReached, ScoreServed
      <3> QED
        BY <3>1, <3>2
    <2> QED
      BY <1>2, <2>1, <2>2, <2>7
  <1>9. CASE W!PublishOffline
    <2>1. /\ pc = "publish" /\ pc' = "commit" /\ offline' = offline \cup {W!Cur}
          /\ UNCHANGED <<position, committed, online, dlq>>
      BY <1>1, <1>9 DEF W!PublishOffline
    <2>2. W!Settled(W!Cur)' /\ W!Cur' = W!Cur
      BY <1>2, <1>5, <2>1 DEF ScoreReached, W!Settled, W!Covered
    <2> QED
      BY <1>2, <1>4, <2>1, <2>2 DEF ScoreReached, W!Settled, W!Covered
  <1>10. CASE W!DeadLetter
    <2>1. /\ pc = "dead_letter" /\ pc' = "commit" /\ dlq' = dlq \cup {W!Cur}
          /\ UNCHANGED <<position, committed, online, offline>>
      BY <1>1, <1>10 DEF W!DeadLetter
    <2>2. W!Settled(W!Cur)' /\ W!Cur' = W!Cur
      BY <1>2, <1>5, <2>1 DEF ScoreReached, W!Settled, W!Covered
    <2> QED
      BY <1>2, <1>4, <2>1, <2>2 DEF ScoreReached, W!Settled, W!Covered
  <1>11. CASE W!Commit
    <2>1. /\ pc = "commit" /\ pc' = "poll" /\ committed' = position
          /\ UNCHANGED <<scoreTopic, position, online, offline, dlq>>
      BY <1>11 DEF W!Commit, W!Return
    <2>2. position = committed + 1 /\ W!Settled(scoreTopic[position])
      BY <1>2, <2>1 DEF ScoreReached, W!Cur
    <2>3. \A o \in 1..position : W!Settled(scoreTopic[o])'
      BY <1>2, <1>3, <2>1, <2>2 DEF W!Settled, W!Covered
    <2> QED
      BY <1>3, <2>1, <2>3 DEF ScoreReached
  <1>12. CASE W!Crash
    BY <1>3, <1>4, <1>12 DEF W!Crash, W!Return, ScoreReached
  <1> QED
    BY <1>4, <1>6, <1>7, <1>8, <1>9, <1>10, <1>11, <1>12 DEF W!Next, W!vars, W!write_model_scores

(* The types and the invariant hold of the score writer by itself.         *)
LEMMA ScoresInvariant == W!Spec => [](W!TypeOK /\ ScoreInv)
  <1>1. W!Init => W!TypeOK /\ ScoreInv
    <2> SUFFICES ASSUME W!Init PROVE W!TypeOK /\ ScoreInv
      OBVIOUS
    <2>1. W!TypeOK
      BY EntrancesAssumption DEF W!Init, W!TypeOK, W!ScoresAssumption
    <2> QED
      BY <2>1 DEF W!Init, ScoreInv, ScoreReached
  <1>2. W!TypeOK /\ ScoreInv /\ [W!Next]_(W!vars) => (W!TypeOK /\ ScoreInv)'
    BY ScoreTypes, ScoreStep
  <1> QED
    BY <1>1, <1>2, PTL DEF W!Spec

-----------------------------------------------------------------------------
(* The four side by side.                                                  *)

(* Each part, seen by itself, goes through a behaviour of its own           *)
(* specification: a step about another part leaves its variables alone.    *)
LEMMA EachPartByItself == EntrancesSpec => Spec /\ L!Spec /\ I!Spec /\ W!Spec
  <1>1. EntrancesInit => Init /\ L!Init /\ I!Init /\ W!Init
    BY DEF EntrancesInit
  <1>2. [EntrancesNext]_partVars =>
            [Next]_vars /\ [L!Next]_(L!vars) /\ [I!Next]_(I!vars) /\ [W!Next]_(W!vars)
    BY DEF EntrancesNext, ReleaseNext, LandingNext, ImportNext, ScoresNext, partVars, vars,
           landingVars, importVars, scoreVars, L!vars, I!vars, W!vars
  <1> QED
    BY <1>1, <1>2, PTL DEF EntrancesSpec, Spec, L!Spec, I!Spec, W!Spec

(* Raw landing: an item of a batch job over landed manifests binds each    *)
(* source once, and each of its references resolves to the content the     *)
(* manifest lists, however runs race, fail or die.                         *)
THEOREM JobItemsAlwaysResolve == EntrancesSpec => []JobItemsResolve
  <1>1. L!TypeOK /\ LandingInv => JobItemsResolve
    BY LandingResolves DEF JobItemsResolve
  <1> QED
    BY <1>1, EachPartByItself, LandingInvariant, PTL

(* Raw landing: an availability the source gave is never replaced by a     *)
(* mere ingestion time, and its last correction is the one in the audit.   *)
THEOREM AvailabilityAlwaysAudited == EntrancesSpec => []AvailabilityAudited
  <1>1. LandingInv => AvailabilityAudited
    BY DEF LandingInv, AvailabilityAudited
  <1> QED
    BY <1>1, EachPartByItself, LandingInvariant, PTL

(* Imports: what is announced or served is in history, what a backfill     *)
(* put there has its raw report stored, and a run that reported without    *)
(* failed rows has put all its rows there.                                 *)
THEOREM ImportsAreDurableFirst == EntrancesSpec => []DurableFirst
  <1>1. I!TypeOK /\ ImportInv => DurableFirst
    BY ImportsDurable DEF DurableFirst
  <1> QED
    BY <1>1, EachPartByItself, ImportsInvariant, PTL

(* Model scores: as long as no call failed, a score write behind the       *)
(* committed offset is covered by what is served and by history, or is in  *)
(* the dead letters, whatever crashes and repeats came between.            *)
THEOREM ScoresAreSettled == EntrancesSpec => []ScoresSettled
  <1>1. W!TypeOK /\ ScoreInv => ScoresSettled
    BY DEF W!TypeOK, ScoreInv, ScoresSettled, W!ScoresSettled
  <1> QED
    BY <1>1, EachPartByItself, ScoresInvariant, PTL
=============================================================================
