----------------------------- MODULE Propagation -----------------------------
(***************************************************************************)
(* Reactive propagation for one entity.  Every durable offline write of a  *)
(* feature that others react to is announced on fp.feature-updates.  The   *)
(* propagation worker observes announcements into an in-memory debounce    *)
(* store and holds their offsets; a flush drains the store, recomputes     *)
(* each dependent from offline history, appends it, announces it in turn,  *)
(* and then commits the held offsets.                                      *)
(*                                                                         *)
(* `wave_ts` is the calc_ts of the latest wave.  A row computed after that *)
(* wave began carries wave_ts + 1.  Dates and availabilities of rows are   *)
(* times of the same clock: a row may be dated, or become available, after *)
(* it was computed, and then the point-in-time reads pass over it.         *)
(***************************************************************************)
EXTENDS Integers, FiniteSets, Sequences, SequencesExt, Functions

CONSTANTS
    Base,            \* features written by the emitters
    Derived,         \* dependents, in the order of their names (a sequence)
    Deps,            \* dependent -> sequence of edges
    Version,         \* feature -> its version in the registry
    Skipping,        \* dependents no wave recomputes: models, as the daemon has
                     \* no runner, and those that raise deterministically
    Rows,            \* what the emitters may write
    Epoch,           \* the time at the start
    Ticks,           \* how much later than the one before a wave may begin
    Delays,          \* how long before it is written a row may have been computed
    Round,           \* PROPAGATION_FOREVER_ROUND
    Poisoned,        \* whether one message that does not parse is published
    MaxUpdates,
    MaxInterruptions \* bound on crashes and failing calls together

Dependents == ToSet(Derived)
Features == Base \cup Dependents
NoPin == 0
NoLimit == -1
Unknown == 0         \* an available_at that is not known
\* max_age: max_input_age_seconds of a required edge; an optional edge is never
\* too old, its dependent is computed all the same
Edge == [feature : Features, version : Nat, reactive : BOOLEAN, max_age : Nat \cup {NoLimit}]
Poison == "poison"
\* trusted: the source provided the available_at
Row == [feature : Base, version : Nat, data_ts : Nat, value : STRING,
        available_at : Nat, trusted : BOOLEAN]

ASSUME PropagationAssumption ==
    /\ Derived \in Seq(Dependents) /\ IsInjective(Derived)
    /\ Base \cap Dependents = {} /\ Poison \notin Features
    /\ Deps \in [Dependents -> Seq(Edge)] /\ Version \in [Features -> Nat \ {0}]
    \* the registry's validator: a pin is the version the registry has, no cycles
    /\ \A d \in Dependents : Deps[d] # <<>> /\ \A i \in DOMAIN Deps[d] :
           LET x == Deps[d][i] IN x.version \in {NoPin, Version[x.feature]} /\ x.feature # d
    /\ Skipping \subseteq Dependents
    /\ Rows \subseteq Row /\ \A w \in Rows : w.trusted => w.available_at # Unknown
    /\ Epoch \in Nat /\ Ticks \subseteq Nat \ {0} /\ Delays \subseteq Nat
    /\ Round \in Nat \ {0} /\ Poisoned \in BOOLEAN
    /\ {MaxUpdates, MaxInterruptions} \subseteq Nat

VARIABLES
    topic, position, committed,   \* fp.feature-updates, one partition
    pc,
    debounce,                     \* pending dependents, in order of insertion
    pending,                      \* held offsets of this round
    unit,                         \* inputs read so far for the dependent in hand
    history,                      \* feature -> rows in row_id order
    dlq,                          \* offsets dead-lettered
    wave_ts,
    updates, crashes, faults

broker == <<topic, position, committed>>
local  == <<pc, debounce, pending, unit>>
bounds == <<updates, crashes, faults>>
vars   == <<broker, local, history, dlq, wave_ts, bounds>>

IsPoison(o) == topic[o].feature = Poison
poisonEvent == [feature |-> Poison, version |-> 0, row |-> <<>>]

-----------------------------------------------------------------------------
(* features_with_reactive_dependents: the emit gate.                       *)
Triggers ==
    {f \in Features : \E d \in Dependents : \E i \in DOMAIN Deps[d] :
        Deps[d][i].feature = f /\ Deps[d][i].reactive}

(* plan_recompute_wave: direct dependents over reactive edges whose pin,   *)
(* if any, is the announced version.                                       *)
plan_recompute_wave(e) ==
    {d \in Dependents : \E i \in DOMAIN Deps[d] :
        LET x == Deps[d][i] IN
        x.feature = e.feature /\ x.reactive /\ x.version \in {NoPin, e.version}}

(* The members of S in the order of their names, which the plan sorts by.  *)
Places(S, n) == {k \in 1..n : Derived[k] \in S}
InOrder(S) ==
    [i \in 1..Cardinality(Places(S, Len(Derived))) |->
        Derived[CHOOSE k \in Places(S, Len(Derived)) : Cardinality(Places(S, k)) = i]]

(* DebounceStore.observe: a dependent that is pending already coalesces.   *)
observe(pend, candidates) == pend \o InOrder(candidates \ ToSet(pend))

(* is_pit_eligible, with the safety gap of 0 the daemon uses: neither      *)
(* dated nor available after t; a row whose availability is not known is   *)
(* available when it was computed.                                         *)
Effective(r) == IF r.available_at = Unknown THEN r.calc_ts ELSE r.available_at
Visible(r, t) == r.data_ts <= t /\ Effective(r) <= t

(* get_pit: the latest row of the registry's version that the wave may     *)
(* see.                                                                    *)
NotLater(r, s) == r.data_ts < s.data_ts \/ (r.data_ts = s.data_ts /\ r.calc_ts <= s.calc_ts)

Eligible(f) ==
    {i \in DOMAIN history[f] :
        history[f][i].version = Version[f] /\ Visible(history[f][i], wave_ts)}

Newest(f, S) ==
    {i \in S : \A j \in S :
        /\ NotLater(history[f][j], history[f][i])
        /\ NotLater(history[f][i], history[f][j]) => j <= i}

get_pit(f) == history[f][CHOOSE i \in Newest(f, Eligible(f)) : TRUE]

(* _edge_is_stale: an input that is older than the edge allows.            *)
Fresh(x, data_ts) == x.max_age = NoLimit \/ wave_ts <= data_ts + x.max_age

(* compute_dependent_from_offline: as old as its oldest input and          *)
(* available with its last one; a value stands for the values it was       *)
(* computed from, and `from` holds the rest of the input fingerprint, the  *)
(* dates of the inputs.                                                    *)
Computed(d, rows) ==
    LET ts == {rows[i].data_ts : i \in DOMAIN rows}
        av == {rows[i].available_at : i \in DOMAIN rows}
    IN  [data_ts |-> CHOOSE t \in ts : \A u \in ts : t <= u,
         value |-> [i \in DOMAIN rows |-> rows[i].value],
         from |-> [i \in DOMAIN rows |-> rows[i].data_ts],
         available_at |-> IF Unknown \in av THEN Unknown
                          ELSE CHOOSE t \in av : \A u \in av : u <= t,
         trusted |-> Unknown \notin av /\ \A i \in DOMAIN rows : rows[i].trusted,
         calc_ts |-> wave_ts, version |-> Version[d]]

(* partition_new_results: a row agrees on all but calc_ts; an availability *)
(* tells rows apart only where the source provided both.                   *)
Agree(h, r) ==
    /\ h.data_ts = r.data_ts /\ h.value = r.value /\ h.version = r.version /\ h.from = r.from
    /\ h.trusted /\ r.trusted => h.available_at = r.available_at
Known(f, r) == \E i \in DOMAIN history[f] : Agree(history[f][i], r)

-----------------------------------------------------------------------------
Init ==
    /\ topic = <<>> /\ position = 0 /\ committed = 0
    /\ pc = "poll" /\ debounce = <<>> /\ pending = <<>> /\ unit = <<>>
    /\ history = [f \in Features |-> <<>>]
    /\ dlq = {} /\ wave_ts = Epoch
    /\ updates = 0 /\ crashes = 0 /\ faults = 0

event(f, v, r) == [feature |-> f, version |-> v, row |-> r]

(* emit_feature_updates by an emitter (offline writer, batch worker,       *)
(* import): the row is durable, then announced if anything reacts to it.   *)
(* The row may have been computed before or after the latest wave began;   *)
(* an announcement may be repeated by a redelivered emitter.               *)
Announce(w, c) ==
    LET f == w.feature
        r == [data_ts |-> w.data_ts, value |-> w.value, from |-> <<>>,
              available_at |-> w.available_at, trusted |-> w.trusted,
              calc_ts |-> c, version |-> w.version]
    IN  /\ updates < MaxUpdates
        /\ updates' = updates + 1
        /\ history' = IF Known(f, r) THEN history ELSE [history EXCEPT ![f] = Append(@, r)]
        /\ topic' = IF f \in Triggers THEN Append(topic, event(f, w.version, r)) ELSE topic
        /\ UNCHANGED <<position, committed, local, dlq, wave_ts, crashes, faults>>

(* A message that does not deserialize or names an unknown source.         *)
PublishPoison ==
    /\ Poisoned /\ \A o \in DOMAIN topic : ~IsPoison(o)
    /\ topic' = Append(topic, poisonEvent)
    /\ UNCHANGED <<position, committed, local, history, dlq, wave_ts, bounds>>

(* The process dies or is stopped; its successor polls from the commit.    *)
Crash ==
    /\ crashes + faults < MaxInterruptions
    /\ crashes' = crashes + 1
    /\ pc' = "poll" /\ debounce' = <<>> /\ pending' = <<>> /\ unit' = <<>>
    /\ position' = committed
    /\ UNCHANGED <<topic, committed, history, dlq, wave_ts, updates, faults>>

(* Wrong version: the offset is committed when the update is observed.     *)
CommitOnObserve ==
    LET o == position + 1 IN
    /\ pc = "poll" /\ Len(pending) < Round
    /\ position < Len(topic) /\ ~IsPoison(o)
    /\ position' = o /\ committed' = o
    /\ debounce' = observe(debounce, plan_recompute_wave(topic[o]))
    /\ UNCHANGED <<topic, pc, pending, unit, history, dlq, wave_ts, bounds>>

(* process_next and handle_feature_updated.                                *)
Observe ==
    LET o == position + 1 IN
    /\ pc = "poll" /\ Len(pending) < Round
    /\ position < Len(topic) /\ ~IsPoison(o)
    /\ position' = o
    /\ debounce' = observe(debounce, plan_recompute_wave(topic[o]))
    /\ pending' = Append(pending, o)
    /\ UNCHANGED <<topic, committed, pc, unit, history, dlq, wave_ts, bounds>>

(* process_next and _dead_letter: commit after the acknowledgement, and    *)
(* with it everything before; a failed publish may have been delivered.    *)
DeadLetter ==
    LET o == position + 1 IN
    /\ pc = "poll" /\ Len(pending) < Round
    /\ position < Len(topic) /\ IsPoison(o)
    /\ position' = o
    /\ \/ dlq' = dlq \cup {o} /\ committed' = o /\ UNCHANGED faults
       \/ /\ crashes + faults < MaxInterruptions /\ faults' = faults + 1
          /\ dlq' \in {dlq, dlq \cup {o}} /\ UNCHANGED committed
    /\ UNCHANGED <<topic, local, history, wave_ts, updates, crashes>>

(* Wrong version: a flush waits for a full round of updates.               *)
FlushWhenFull ==
    /\ pc = "poll" /\ Len(pending) = Round
    /\ pc' = "wave" /\ \E n \in Ticks : wave_ts' = wave_ts + n
    /\ UNCHANGED <<broker, debounce, pending, unit, history, dlq, bounds>>

(* flush: execute_wave drains the debounce store.                          *)
BeginWave ==
    /\ pc = "poll" /\ pending # <<>>
    /\ pc' = "wave" /\ \E n \in Ticks : wave_ts' = wave_ts + n
    /\ UNCHANGED <<broker, debounce, pending, unit, history, dlq, bounds>>

NextUnit == pc' = "wave" /\ debounce' = Tail(debounce) /\ unit' = <<>>

(* A model without a runner is skipped, a deterministic error counted.     *)
SkipUnit ==
    /\ pc = "wave" /\ debounce # <<>>
    /\ Head(debounce) \in Skipping
    /\ NextUnit
    /\ UNCHANGED <<broker, pending, history, dlq, wave_ts, bounds>>

(* One get_pit per edge, in the order of the edges; nothing eligible: the  *)
(* unit is skipped.                                                        *)
ReadInput ==
    LET d == Head(debounce) IN
    /\ pc = "wave" /\ debounce # <<>> /\ d \notin Skipping
    /\ Len(unit) < Len(Deps[d])
    /\ LET f == Deps[d][Len(unit) + 1].feature
       IN  IF Eligible(f) = {} THEN NextUnit
           ELSE unit' = Append(unit, get_pit(f)) /\ UNCHANGED <<pc, debounce>>
    /\ UNCHANGED <<broker, pending, history, dlq, wave_ts, bounds>>

(* wave_failed: flush returns, nothing is committed, and the next round    *)
(* starts with a new debounce store and nothing held.                      *)
WaveFails ==
    /\ crashes + faults < MaxInterruptions /\ faults' = faults + 1
    /\ pc' = "poll" /\ debounce' = <<>> /\ pending' = <<>> /\ unit' = <<>>

ComputedUnit == Len(unit) = Len(Deps[Head(debounce)])
AllFresh == \A i \in DOMAIN unit : Fresh(Deps[Head(debounce)][i], unit[i].data_ts)

(* ComputeCore: an input that is too old and required: the unit is         *)
(* skipped, and its updates are committed with the others.                 *)
SkipStale ==
    /\ pc = "wave" /\ debounce # <<>> /\ Head(debounce) \notin Skipping /\ ComputedUnit
    /\ ~AllFresh
    /\ NextUnit
    /\ UNCHANGED <<broker, pending, history, dlq, wave_ts, bounds>>

(* partition_new_results and append_many.                                  *)
AppendRow ==
    LET d == Head(debounce)
        r == Computed(d, unit)
    IN  /\ pc = "wave" /\ debounce # <<>> /\ d \notin Skipping /\ ComputedUnit /\ AllFresh
        /\ \/ /\ history' = IF Known(d, r) THEN history
                            ELSE [history EXCEPT ![d] = Append(@, r)]
              /\ pc' = "emit" /\ UNCHANGED <<debounce, pending, unit, faults>>
           \/ WaveFails /\ UNCHANGED history
        /\ UNCHANGED <<broker, dlq, wave_ts, updates, crashes>>

(* Wrong version: a recomputed feature is not announced.                   *)
NoChaining ==
    /\ pc = "emit"
    /\ NextUnit
    /\ UNCHANGED <<broker, pending, history, dlq, wave_ts, bounds>>

(* emit_feature_updates for the recomputed result, new or not.             *)
Chain ==
    LET d == Head(debounce)
        out == IF d \in Triggers
               THEN Append(topic, event(d, Version[d], Computed(d, unit)))
               ELSE topic
    IN  /\ pc = "emit"
        /\ \/ topic' = out /\ NextUnit /\ UNCHANGED <<pending, faults>>
           \/ topic' \in {topic, out} /\ WaveFails
        /\ UNCHANGED <<position, committed, history, dlq, wave_ts, updates, crashes>>

(* flush: the held offsets, one commit after the other.                    *)
CommitHeld ==
    /\ pc = "wave" /\ debounce = <<>>
    /\ committed' = Head(pending)
    /\ pending' = Tail(pending)
    /\ pc' = IF Len(pending) = 1 THEN "poll" ELSE "wave"
    /\ UNCHANGED <<topic, position, debounce, unit, history, dlq, wave_ts, bounds>>

-----------------------------------------------------------------------------
Step ==
    \/ Observe \/ DeadLetter \/ SkipUnit \/ ReadInput \/ SkipStale
    \/ AppendRow \/ Chain \/ CommitHeld

CalcTimes == {c \in 0..wave_ts + 1 : wave_ts + 1 - c \in Delays}

Next ==
    \/ \E w \in Rows, c \in CalcTimes : Announce(w, c)
    \/ PublishPoison \/ Crash \/ Step \/ BeginWave

Spec == Init /\ [][Next]_vars

(* _main --forever: a round ends after PROPAGATION_FOREVER_ROUND polls,    *)
(* idle ones counted, so a flush happens although nothing more arrives.    *)
FairSpec == Spec /\ WF_vars(Step) /\ WF_vars(BeginWave)

-----------------------------------------------------------------------------
IsSeq(s) == Len(s) \in Nat /\ s = [i \in 1..Len(s) |-> s[i]]
IsRow(r) == {r.data_ts, r.version, r.calc_ts, r.available_at} \subseteq Nat

TypeOK ==
    /\ IsSeq(topic) /\ IsSeq(unit) /\ pending \in Seq(1..position)
    /\ debounce \in Seq(Dependents) /\ IsInjective(debounce)
    /\ position \in 0..Len(topic) /\ committed \in 0..position
    /\ pc \in {"poll", "wave", "emit"}
    /\ dlq \subseteq 1..Len(topic)
    /\ wave_ts \in Nat /\ {crashes, faults} \subseteq Nat
    /\ DOMAIN history = Features
    /\ \A f \in Features :
           /\ IsSeq(history[f])
           /\ \A r \in ToSet(history[f]) : IsRow(r) /\ r.calc_ts <= wave_ts + 1

Computable(d) == d \notin Skipping

Announces(o, f) == topic[o].feature = f /\ topic[o].version = Version[f]

(* The dependent has been recomputed from the announced row or from one    *)
(* that replaced it.                                                       *)
CoveredBy(d, f, r) ==
    \E h \in ToSet(history[d]), j \in DOMAIN Deps[d] : \E k, s \in ToSet(history[f]) :
        /\ Deps[d][j].feature = f
        /\ k.data_ts = r.data_ts /\ k.value = r.value /\ k.version = Version[f]
        /\ NotLater(k, s) /\ s.version = Version[f]
        /\ h.from[j] = s.data_ts /\ h.value[j] = s.value

(* What history holds of the row that o announced could be read from the   *)
(* moment it was computed.  The worker sees a row that is dated in the     *)
(* future, or becomes available later, only if something else makes it     *)
(* look again.                                                             *)
RowOf(o, k) ==
    /\ k.data_ts = topic[o].row.data_ts /\ k.value = topic[o].row.value
    /\ k.version = topic[o].version
Present(r) == Visible(r, r.calc_ts)
OnTime(o) == \A k \in ToSet(history[topic[o].feature]) : RowOf(o, k) => Present(k)

(* d, all of whose inputs have been announced, on time, and are not too    *)
(* old by now, has been recomputed from o.                                 *)
RecomputedFor(d, o) ==
    /\ Computable(d) /\ OnTime(o)
    /\ \A j \in DOMAIN Deps[d] : \E p \in 1..o :
           /\ Announces(p, Deps[d][j].feature) /\ OnTime(p)
           /\ Fresh(Deps[d][j], topic[p].row.data_ts)
    => CoveredBy(d, topic[o].feature, topic[o].row)

Recomputed(o) ==
    \/ IsPoison(o) /\ o \in dlq
    \/ /\ ~IsPoison(o)
       /\ topic[o].version = Version[topic[o].feature] =>
              \A d \in plan_recompute_wave(topic[o]) : RecomputedFor(d, o)

(* An update behind the committed offset has been recomputed: a crash      *)
(* loses none of the updates that were only held in memory.  Two things    *)
(* void it: a failed wave (the next flush commits past it) and a dead      *)
(* letter (its commit covers the held offsets before it).                  *)
HeldUntilRecomputed ==
    (faults = 0 /\ dlq = {}) => \A o \in 1..committed : Recomputed(o)

AtRest ==
    /\ pc = "poll" /\ pending = <<>> /\ position = Len(topic)

Current(f) == {r \in ToSet(history[f]) : r.version = Version[f]}
LatestOf(f) == {s \in Current(f) : \A r \in Current(f) : Present(r) => NotLater(r, s)}

(* d can be recomputed, and an update of any input it still misses, or has *)
(* only just got, makes it so: an input that is not reactive does not.     *)
Ready(d) ==
    \A j \in DOMAIN Deps[d] :
        LET x == Deps[d][j] IN
        IF x.reactive THEN \E r \in Current(x.feature) : Present(r) /\ Fresh(x, r.data_ts)
        ELSE history[d] # <<>> /\ x.max_age = NoLimit

(* A crash between append_many and the announcement is repaired when the   *)
(* updates are delivered again, by recomputing; an input that has become   *)
(* too old meanwhile prevents that, and the appended row stays             *)
(* unannounced.                                                            *)
Unlimited(g) == \A i \in DOMAIN Deps[g] : Deps[g][i].max_age = NoLimit
AnnouncedAgain(d) ==
    \/ crashes = 0
    \/ \A j \in DOMAIN Deps[d] :
           Deps[d][j].reactive /\ Deps[d][j].feature \in Dependents => Unlimited(Deps[d][j].feature)

(* A row of d, and none has a later date, was computed from a row of every *)
(* reactive input that no row it had to see is later than.  Among rows of  *)
(* that date it need not be the last: a value that returns under the date  *)
(* it had is not appended again.                                           *)
UpToDate(d) ==
    \E r \in ToSet(history[d]) :
        /\ \A h \in ToSet(history[d]) : h.data_ts <= r.data_ts
        /\ \A j \in DOMAIN Deps[d] : Deps[d][j].reactive =>
               \E s \in LatestOf(Deps[d][j].feature) :
                   r.from[j] = s.data_ts /\ r.value[j] = s.value

(* When everything announced has been handled, every dependent that can be *)
(* recomputed is up to date: chains, diamonds, late and corrected rows     *)
(* included.  Rows that could not be read when they were computed, and     *)
(* inputs that are too old, are left behind.                               *)
CaughtUp ==
    (AtRest /\ faults = 0 /\ (dlq = {} \/ crashes = 0)) =>
        \A d \in Dependents : Computable(d) /\ Ready(d) /\ AnnouncedAgain(d) => UpToDate(d)

(* Propagation ends: whatever was announced is handled, even when waves    *)
(* announce new rows themselves, and the worker commits everything.        *)
PropagationEnds == (topic # <<>>) ~> (AtRest \/ faults > 0)
=============================================================================
