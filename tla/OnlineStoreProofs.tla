-------------------------- MODULE OnlineStoreProofs --------------------------
(***************************************************************************)
(* What the online store guarantees for any number of serving keys,        *)
(* writers, results and write_many calls.                                  *)
(***************************************************************************)
EXTENDS OnlineStore, TLAPS

-----------------------------------------------------------------------------
(* Facts about the guard itself.                                           *)

(* The freshness tuple of a result is a pair of naturals.                  *)
LEMMA GuardTupleType ==
    ASSUME NEW r \in ResultType
    PROVE  /\ guard_tuple(r) \in Nat \X Nat
           /\ guard_tuple(r)[1] \in Nat /\ guard_tuple(r)[2] \in Nat
  BY DEF guard_tuple, ResultType, NoTs

(* The order of freshness tuples is a total preorder.                      *)
LEMMA TupleOrder ==
    ASSUME NEW s \in Nat \X Nat, NEW t \in Nat \X Nat, NEW u \in Nat \X Nat
    PROVE  /\ TupleLeq(s, s)
           /\ TupleLeq(s, t) /\ TupleLeq(t, u) => TupleLeq(s, u)
           /\ TupleLess(s, t) /\ TupleLeq(t, u) => TupleLess(s, u)
           /\ TupleLess(s, t) \/ TupleLess(t, s) \/ s = t
  BY DEF TupleLeq, TupleLess

(* The value the guard leaves under a key is at least as fresh as the      *)
(* value offered and as the value held before.                             *)
Guarded(r, c) == IF D9_SCRIPT(r, c) \in WRITE_OUTCOMES THEN r ELSE c

(* write under the guard never loses freshness: what was offered and what  *)
(* was held are both at most as fresh as what is left.                     *)
LEMMA GuardKeepsFreshest ==
    ASSUME NEW r \in ResultType, NEW c \in ResultType \cup {Absent}
    PROVE  /\ Guarded(r, c) # Absent
           /\ TupleLeq(guard_tuple(r), guard_tuple(Guarded(r, c)))
           /\ c # Absent => TupleLeq(guard_tuple(c), guard_tuple(Guarded(r, c)))
           /\ D9_SCRIPT(r, c) = "skipped_stale"
                 => c # Absent /\ TupleLess(guard_tuple(r), guard_tuple(c))
  <1>1. CASE c = Absent
    <2>1. r # Absent
      BY OnlineStoreAssumption
    <2>2. guard_tuple(r) \in Nat \X Nat
      BY GuardTupleType
    <2> QED
      BY <1>1, <2>1, <2>2, TupleOrder DEF Guarded, D9_SCRIPT, WRITE_OUTCOMES
  <1>2. CASE c # Absent
    <2>1. c \in ResultType /\ r # Absent
      BY <1>2, OnlineStoreAssumption
    <2> DEFINE s == guard_tuple(r)
               t == guard_tuple(c)
    <2>2. s \in Nat \X Nat /\ t \in Nat \X Nat
      BY <2>1, GuardTupleType
    <2>3. /\ TupleLeq(s, s) /\ TupleLeq(t, t)
          /\ TupleLess(s, t) \/ TupleLess(t, s) \/ s = t
      BY <2>2, TupleOrder
    <2>4. /\ TupleLess(t, s) => ~TupleLess(s, t) /\ s # t
          /\ TupleLess(s, t) => s # t
      BY <2>2 DEF TupleLess
    <2> HIDE DEF s, t
    <2>5. /\ TupleLess(s, t) => D9_SCRIPT(r, c) = "skipped_stale"
          /\ TupleLess(t, s) => D9_SCRIPT(r, c) = "written"
          /\ s = t => D9_SCRIPT(r, c) \in {"written_recompute", "noop"}
      <3>1. /\ s = <<LuaArgs(r).dts, LuaArgs(r).max>> /\ LuaArgs(r).dts \in Nat
            /\ t = <<LuaArgs(c).dts, LuaArgs(c).max>> /\ LuaArgs(c).dts \in Nat
            /\ LuaArgs(r).max \in Nat /\ LuaArgs(c).max \in Nat
        BY <2>1 DEF s, t, LuaArgs, guard_tuple, ResultType, NoTs
      <3> QED
        BY <1>2, <3>1 DEF D9_SCRIPT, TupleLess
    <2>6. CASE TupleLess(t, s)
      BY <2>1, <2>3, <2>4, <2>5, <2>6 DEF Guarded, WRITE_OUTCOMES, TupleLeq, s, t
    <2>7. CASE TupleLess(s, t)
      BY <1>2, <2>3, <2>5, <2>7 DEF Guarded, WRITE_OUTCOMES, TupleLeq, s, t
    <2>8. CASE s = t
      BY <1>2, <2>1, <2>3, <2>5, <2>8 DEF Guarded, WRITE_OUTCOMES, TupleLeq, s, t
    <2> QED
      BY <2>3, <2>6, <2>7, <2>8
  <1> QED
    BY <1>1, <1>2

(* The outcome is one of the four the code names.                          *)
LEMMA DecideType ==
    ASSUME NEW r, NEW c
    PROVE  D9_SCRIPT(r, c) \in Outcomes
  BY DEF D9_SCRIPT, Outcomes

(* The script the server runs and the function the in-memory store calls   *)
(* decide alike on every result and every record, not only on those of     *)
(* the checked instance, as long as equal instants of availability are     *)
(* written alike.                                                          *)
THEOREM TwinsDecideAlike ==
    \A r \in ResultType, c \in ResultType \cup {Absent} :
        SpelledAlike(r, c) => D9_SCRIPT(r, c) = decide_write(r, c)
  <1> SUFFICES ASSUME NEW r \in ResultType, NEW c \in ResultType \cup {Absent},
                      SpelledAlike(r, c)
               PROVE  D9_SCRIPT(r, c) = decide_write(r, c)
    OBVIOUS
  <1>1. CASE c = Absent
    BY <1>1 DEF D9_SCRIPT, decide_write
  <1>2. CASE c # Absent
    <2>1. c \in ResultType
      BY <1>2
    <2>2. /\ guard_tuple(r) = <<LuaArgs(r).dts, LuaArgs(r).max>>
          /\ guard_tuple(c) = <<LuaArgs(c).dts, LuaArgs(c).max>>
          /\ LuaArgs(r).dts \in Nat /\ LuaArgs(r).max \in Nat
          /\ LuaArgs(c).dts \in Nat /\ LuaArgs(c).max \in Nat
          /\ LuaArgs(r).fp = r.input_fingerprint
          /\ LuaArgs(c).fp = c.input_fingerprint
          /\ LuaArgs(r).av = trusted_available_at(r)
      BY <2>1 DEF LuaArgs, guard_tuple, ResultType, NoTs
    <2>3. LuaCurAv(c) = trusted_available_at(c)
      BY DEF LuaCurAv, trusted_available_at
    <2>4. AvailabilityCorrected(r, c) <=>
            /\ trusted_available_at(r) # NoAv /\ trusted_available_at(c) # NoAv
            /\ trusted_available_at(r) # trusted_available_at(c)
      BY <1>2, <2>1
      DEF AvailabilityCorrected, SpelledAlike, trusted_available_at
    <2> QED
      BY <1>2, <2>2, <2>3, <2>4 DEF D9_SCRIPT, decide_write, TupleLess
  <1> QED
    BY <1>1, <1>2

-----------------------------------------------------------------------------
(* The behaviour of the store under concurrent writers.                    *)

(* Every variable keeps its type.                                          *)
THEOREM TypeCorrect == Spec => []TypeOK
  <1>1. Init => TypeOK
    BY OnlineStoreAssumption DEF Init, TypeOK, NoJob, NoOutcome
  <1>2. TypeOK /\ [Next]_vars => TypeOK'
    <2> SUFFICES ASSUME TypeOK, [Next]_vars PROVE TypeOK'
      OBVIOUS
    <2> USE DEF TypeOK
    <2>1. ASSUME NEW w \in Writers, NEW j \in Jobs, BeginWriteMany(w, j)
          PROVE  TypeOK'
      BY <2>1, OnlineStoreAssumption DEF BeginWriteMany, Jobs, NoOutcome
    <2>2. ASSUME NEW w \in Writers, NEW k \in Keys, Write(w, k)
          PROVE  TypeOK'
      <3>1. job[w][k] \in Results
        BY <2>2 DEF Write, Todo, Targets
      <3>2. D9_SCRIPT(job[w][k], store[k]) \in Outcomes
        BY DecideType
      <3> QED
        BY <2>2, <3>1, <3>2 DEF Write
    <2>3. ASSUME NEW w \in Writers, Replay(w)
          PROVE  TypeOK'
      BY <2>3 DEF Replay, NoOutcome
    <2>4. ASSUME NEW w \in Writers, EndWriteMany(w)
          PROVE  TypeOK'
      BY <2>4 DEF EndWriteMany, aggregate_online_status, Outcomes
    <2>5. ASSUME NEW w \in Writers, Release(w)
          PROVE  TypeOK'
      BY <2>5 DEF Release, NoJob, NoOutcome
    <2>6. CASE UNCHANGED vars
      BY <2>6 DEF vars
    <2> QED
      BY <2>1, <2>2, <2>3, <2>4, <2>5, <2>6 DEF Next
  <1> QED
    BY <1>1, <1>2, PTL DEF Spec

(* Whatever the store holds, at any time: the two versions agree on it.    *)
THEOREM TwinsAlwaysAgree == Spec => []TwinsAgree
  <1>1. TypeOK => TwinsAgree
    BY TwinsDecideAlike, OnlineStoreAssumption DEF TypeOK, TwinsAgree
  <1> QED
    BY <1>1, TypeCorrect, PTL

(* What any step does to the store: under each key it keeps the record or  *)
(* puts a result there that is at least as fresh.                          *)
StoreStep(k) ==
    \/ store'[k] = store[k]
    \/ /\ store'[k] \in Results
       /\ store[k] # Absent =>
             TupleLeq(guard_tuple(store[k]), guard_tuple(store'[k]))

(* A write leaves the store as the guard says and at least as fresh as     *)
(* the value it offered.                                                   *)
LEMMA WriteEffect ==
    ASSUME TypeOK, NEW w \in Writers, NEW k \in Keys, Write(w, k)
    PROVE  /\ job[w][k] \in Results
           /\ store' = [store EXCEPT ![k] = Guarded(job[w][k], store[k])]
           /\ store'[k] # Absent
           /\ TupleLeq(guard_tuple(job[w][k]), guard_tuple(store'[k]))
           /\ StoreStep(k)
           /\ D9_SCRIPT(job[w][k], store[k]) = "skipped_stale" =>
                 TupleLess(guard_tuple(job[w][k]), guard_tuple(store'[k]))
  <1>1. job[w][k] \in Results
    BY DEF Write, Todo, Targets, TypeOK
  <1>2. job[w][k] \in ResultType /\ store[k] \in ResultType \cup {Absent}
    BY <1>1, OnlineStoreAssumption DEF TypeOK
  <1>3. store' = [store EXCEPT ![k] = Guarded(job[w][k], store[k])]
    BY DEF Write, Guarded, TypeOK
  <1>4. store'[k] = Guarded(job[w][k], store[k])
    BY <1>3 DEF TypeOK
  <1>5. /\ Guarded(job[w][k], store[k]) # Absent
        /\ TupleLeq(guard_tuple(job[w][k]), guard_tuple(Guarded(job[w][k], store[k])))
        /\ store[k] # Absent =>
             TupleLeq(guard_tuple(store[k]), guard_tuple(Guarded(job[w][k], store[k])))
        /\ D9_SCRIPT(job[w][k], store[k]) = "skipped_stale" =>
             /\ store[k] # Absent
             /\ TupleLess(guard_tuple(job[w][k]), guard_tuple(store[k]))
    BY <1>2, GuardKeepsFreshest
  <1>6. D9_SCRIPT(job[w][k], store[k]) = "skipped_stale" =>
             Guarded(job[w][k], store[k]) = store[k]
    BY DEF Guarded, WRITE_OUTCOMES
  <1>7. Guarded(job[w][k], store[k]) \in {job[w][k], store[k]}
    BY DEF Guarded
  <1> QED
    BY <1>1, <1>3, <1>4, <1>5, <1>6, <1>7 DEF StoreStep

(* Every step of the system treats a serving key in one of two ways: it    *)
(* leaves the record alone, or it is one guarded write to it.              *)
LEMMA NextStoreStep ==
    ASSUME TypeOK, [Next]_vars, NEW k \in Keys
    PROVE  StoreStep(k)
  <1>1. ASSUME NEW w \in Writers, NEW l \in Keys, Write(w, l)
        PROVE  StoreStep(k)
    <2>1. StoreStep(l) /\ store' = [store EXCEPT ![l] = Guarded(job[w][l], store[l])]
      BY <1>1, WriteEffect
    <2> QED
      BY <2>1 DEF StoreStep, TypeOK
  <1>2. ASSUME store' = store
        PROVE  StoreStep(k)
    BY <1>2 DEF StoreStep
  <1> QED
    BY <1>1, <1>2
    DEF Next, vars, BeginWriteMany, Replay, EndWriteMany, Release

(* Freshness, once reached, is kept by every step.                         *)
LEMMA FresherKept ==
    ASSUME TypeOK, [Next]_vars, NEW k \in Keys, NEW r \in Results, Fresher(k, r)
    PROVE  Fresher(k, r)'
  <1>1. StoreStep(k)
    BY NextStoreStep
  <1>2. /\ store[k] # Absent
        /\ TupleLeq(guard_tuple(r), guard_tuple(store[k]))
    BY DEF Fresher
  <1>3. CASE store'[k] = store[k]
    BY <1>2, <1>3 DEF Fresher
  <1>4. CASE /\ store'[k] \in Results
             /\ TupleLeq(guard_tuple(store[k]), guard_tuple(store'[k]))
    <2>1. /\ r \in ResultType /\ store[k] \in ResultType /\ store'[k] \in ResultType
          /\ store'[k] # Absent
      BY <1>2, <1>4, OnlineStoreAssumption DEF TypeOK
    <2>2. /\ guard_tuple(r) \in Nat \X Nat /\ guard_tuple(store[k]) \in Nat \X Nat
          /\ guard_tuple(store'[k]) \in Nat \X Nat
      BY <2>1, GuardTupleType
    <2>3. TupleLeq(guard_tuple(r), guard_tuple(store'[k]))
      BY <1>2, <1>4, <2>2, TupleOrder
    <2> QED
      BY <2>1, <2>3 DEF Fresher
  <1> QED
    BY <1>1, <1>2, <1>3, <1>4 DEF StoreStep

(* No value that reached the guard is ever fresher than what the store     *)
(* holds under its key, whatever the writers do.                           *)
THEOREM LatestAlwaysWins == Spec => []LatestWins
  <1>1. Init => LatestWins
    BY DEF Init, LatestWins
  <1>2. TypeOK /\ LatestWins /\ [Next]_vars => LatestWins'
    <2> SUFFICES ASSUME TypeOK, LatestWins, [Next]_vars,
                        NEW p \in offered'
                 PROVE  Fresher(p[1], p[2])'
      BY DEF LatestWins
    <2>1. CASE p \in offered
      <3>1. p[1] \in Keys /\ p[2] \in Results /\ Fresher(p[1], p[2])
        BY <2>1 DEF LatestWins, TypeOK
      <3> QED
        BY <3>1, FresherKept
    <2>2. CASE p \notin offered
      <3>1. PICK w \in Writers, k \in Keys : Write(w, k) /\ p = <<k, job[w][k]>>
        BY <2>2 DEF Next, vars, BeginWriteMany, Write, Replay, EndWriteMany, Release
      <3>2. store'[k] # Absent /\ TupleLeq(guard_tuple(job[w][k]), guard_tuple(store'[k]))
        BY <3>1, WriteEffect
      <3> QED
        BY <3>1, <3>2 DEF Fresher
    <2> QED
      BY <2>1, <2>2
  <1> QED
    BY <1>1, <1>2, TypeCorrect, PTL DEF Spec

(* The store implements the register whose freshness never goes back:      *)
(* every guarded write is an acceptance or leaves the register alone, and  *)
(* every other step leaves it alone.                                       *)
THEOREM StoreImplementsRegister == Spec => ImplementsLatestRegister
  <1>1. Init => Latest!RegInit
    BY DEF Init, Latest!RegInit
  <1>2. TypeOK /\ [Next]_vars => [Latest!RegNext]_store
    <2> SUFFICES ASSUME TypeOK, [Next]_vars, store' # store
                 PROVE  Latest!RegNext
      OBVIOUS
    <2>1. PICK w \in Writers, k \in Keys : Write(w, k)
      BY DEF Next, vars, BeginWriteMany, Replay, EndWriteMany, Release
    <2>2. /\ job[w][k] \in Results
          /\ store' = [store EXCEPT ![k] = Guarded(job[w][k], store[k])]
          /\ StoreStep(k)
      BY <2>1, WriteEffect
    <2>3. /\ Guarded(job[w][k], store[k]) = job[w][k]
          /\ store'[k] = job[w][k] /\ store'[k] # store[k]
      BY <2>2 DEF Guarded, TypeOK
    <2>4. store[k] # Absent =>
             TupleLeq(guard_tuple(store[k]), guard_tuple(job[w][k]))
      BY <2>2, <2>3 DEF StoreStep
    <2>5. Latest!Accept(k, job[w][k])
      BY <2>2, <2>3, <2>4
      DEF Latest!Accept, Latest!TupleLeq, Latest!TupleLess, Latest!guard_tuple,
          Latest!NoTs, TupleLeq, TupleLess, guard_tuple, NoTs
    <2> QED
      BY <2>2, <2>5 DEF Latest!RegNext
  <1> QED
    BY <1>1, <1>2, TypeCorrect, PTL DEF Spec, ImplementsLatestRegister, Latest!RegSpec

(* Offering again what the store holds changes nothing and says so.        *)
THEOREM ReplaysAreNoops == Spec => ReplayIsNoop
  <1> DEFINE A == \A w \in Writers, k \in Keys :
          (/\ outcome[w][k] = "none" /\ outcome'[w][k] # "none"
           /\ job[w][k] = store[k])
             => outcome'[w][k] = "noop" /\ store' = store
  <1>1. TypeOK /\ [Next]_vars => [A]_vars
    <2> SUFFICES ASSUME TypeOK, Next, NEW w \in Writers, NEW k \in Keys,
                        outcome[w][k] = "none", outcome'[w][k] # "none",
                        job[w][k] = store[k]
                 PROVE  outcome'[w][k] = "noop" /\ store' = store
      OBVIOUS
    <2>1. Write(w, k)
      BY DEF Next, BeginWriteMany, Write, Replay, EndWriteMany, Release,
             NoOutcome, TypeOK
    <2>2. job[w][k] \in Results /\ job[w][k] # Absent
      BY <2>1 DEF Write, Todo, Targets, TypeOK
    <2>3. job[w][k] \in ResultType
      BY <2>2, OnlineStoreAssumption
    <2>4. guard_tuple(job[w][k]) \in Nat \X Nat
      BY <2>3, GuardTupleType
    <2>5. ~TupleLess(guard_tuple(job[w][k]), guard_tuple(job[w][k]))
      BY <2>4 DEF TupleLess
    <2>6. D9_SCRIPT(job[w][k], store[k]) = "noop"
      BY <2>2, <2>3 DEF D9_SCRIPT, LuaArgs, LuaCurAv, trusted_available_at, ResultType
    <2> QED
      BY <2>1, <2>6 DEF Write, WRITE_OUTCOMES, TypeOK
  <1> QED
    BY <1>1, TypeCorrect, PTL DEF Spec, ReplayIsNoop

-----------------------------------------------------------------------------
(* The strengthening ReportTruthful needs: each single outcome is true of  *)
(* the store, and a report is the aggregate of a finished call.            *)
OutcomesTrue ==
    \A w \in Writers, k \in Keys :
        job[w][k] # Absent /\ outcome[w][k] # "none" =>
            /\ Fresher(k, job[w][k])
            /\ outcome[w][k] = "skipped_stale" =>
                  TupleLess(guard_tuple(job[w][k]), guard_tuple(store[k]))

ReportsAreAggregates ==
    \A w \in Writers :
        report[w] # "none" =>
            /\ Targets(w) # {}
            /\ Todo(w) = {}
            /\ report[w] = aggregate_online_status({outcome[w][k] : k \in Targets(w)})

(* A key that holds something strictly fresher than a result goes on       *)
(* holding such a thing: a "skipped_stale" outcome stays true.             *)
LEMMA StrictlyFresherKept ==
    ASSUME TypeOK, [Next]_vars, NEW k \in Keys, NEW r \in Results,
           store[k] # Absent, TupleLess(guard_tuple(r), guard_tuple(store[k]))
    PROVE  TupleLess(guard_tuple(r), guard_tuple(store'[k]))
  <1>1. StoreStep(k)
    BY NextStoreStep
  <1>2. CASE store'[k] = store[k]
    BY <1>2
  <1>3. CASE /\ store'[k] \in Results
             /\ TupleLeq(guard_tuple(store[k]), guard_tuple(store'[k]))
    <2>1. r \in ResultType /\ store[k] \in ResultType /\ store'[k] \in ResultType
      BY <1>3, OnlineStoreAssumption DEF TypeOK
    <2>2. /\ guard_tuple(r) \in Nat \X Nat /\ guard_tuple(store[k]) \in Nat \X Nat
          /\ guard_tuple(store'[k]) \in Nat \X Nat
      BY <2>1, GuardTupleType
    <2> QED
      BY <1>3, <2>2, TupleOrder
  <1> QED
    BY <1>1, <1>2, <1>3 DEF StoreStep

(* Each key's outcome, as write_many keeps it until it aggregates, stays   *)
(* true of the store under every step.                                     *)
LEMMA OutcomesStayTrue ==
    TypeOK /\ OutcomesTrue /\ [Next]_vars => OutcomesTrue'
  <1> SUFFICES ASSUME TypeOK, OutcomesTrue, [Next]_vars,
                      NEW w \in Writers, NEW k \in Keys,
                      job'[w][k] # Absent, outcome'[w][k] # "none"
               PROVE  /\ Fresher(k, job[w][k])'
                      /\ outcome'[w][k] = "skipped_stale" =>
                           TupleLess(guard_tuple(job'[w][k]), guard_tuple(store'[k]))
    BY DEF OutcomesTrue
  <1>1. CASE Write(w, k)
    <2>1. job' = job /\ outcome'[w][k] = D9_SCRIPT(job[w][k], store[k])
      BY <1>1 DEF Write, TypeOK
    <2> QED
      BY <1>1, <2>1, WriteEffect DEF Fresher
  <1>2. CASE ~Write(w, k)
    <2>1. outcome'[w][k] = outcome[w][k] /\ job'[w][k] = job[w][k]
      <3>1. ASSUME NEW v \in Writers, NEW j \in Jobs, BeginWriteMany(v, j)
            PROVE  outcome'[w][k] = outcome[w][k] /\ job'[w][k] = job[w][k]
        BY <3>1 DEF BeginWriteMany, NoOutcome, TypeOK
      <3>2. ASSUME NEW v \in Writers, NEW l \in Keys, Write(v, l)
            PROVE  outcome'[w][k] = outcome[w][k] /\ job'[w][k] = job[w][k]
        BY <1>2, <3>2 DEF Write, TypeOK
      <3>3. ASSUME NEW v \in Writers, Replay(v) \/ Release(v) \/ EndWriteMany(v)
            PROVE  outcome'[w][k] = outcome[w][k] /\ job'[w][k] = job[w][k]
        BY <3>3 DEF Replay, Release, EndWriteMany, NoOutcome, NoJob, TypeOK
      <3>4. CASE UNCHANGED vars
        BY <3>4 DEF vars
      <3> QED
        BY <3>1, <3>2, <3>3, <3>4 DEF Next
    <2>2. job[w][k] \in Results
      BY <2>1 DEF TypeOK
    <2>3. /\ Fresher(k, job[w][k])
          /\ outcome[w][k] = "skipped_stale" =>
               TupleLess(guard_tuple(job[w][k]), guard_tuple(store[k]))
      BY <2>1 DEF OutcomesTrue
    <2>4. \A r \in Results : Fresher(k, r) => Fresher(k, r)'
      BY FresherKept
    <2>5. outcome[w][k] = "skipped_stale" =>
               TupleLess(guard_tuple(job[w][k]), guard_tuple(store'[k]))
      BY <2>2, <2>3, StrictlyFresherKept DEF Fresher
    <2> QED
      BY <2>1, <2>2, <2>3, <2>4, <2>5 DEF Fresher
  <1> QED
    BY <1>1, <1>2

(* A report is, and stays, the aggregate of the outcomes of all keys of    *)
(* the call.                                                               *)
LEMMA ReportsStayAggregates ==
    TypeOK /\ ReportsAreAggregates /\ [Next]_vars => ReportsAreAggregates'
  <1> SUFFICES ASSUME TypeOK, ReportsAreAggregates, [Next]_vars,
                      NEW w \in Writers, report'[w] # "none"
               PROVE  /\ Targets(w)' # {}
                      /\ Todo(w)' = {}
                      /\ report'[w] = aggregate_online_status(
                                         {outcome'[w][k] : k \in Targets(w)'})
    BY DEF ReportsAreAggregates
  <1>1. CASE EndWriteMany(w)
    <2>1. job' = job /\ outcome' = outcome /\ Todo(w) = {} /\ job[w] # NoJob
      BY <1>1 DEF EndWriteMany
    <2>2. Targets(w) # {}
      BY <2>1 DEF Targets, NoJob, TypeOK
    <2>3. Targets(w)' = Targets(w) /\ Todo(w)' = Todo(w)
      BY <2>1 DEF Targets, Todo
    <2>4. report'[w] = aggregate_online_status({outcome[w][k] : k \in Targets(w)})
      BY <1>1 DEF EndWriteMany, TypeOK
    <2> QED
      BY <2>1, <2>2, <2>3, <2>4
  <1>2. CASE ~EndWriteMany(w)
    <2>1. report'[w] = report[w] /\ job'[w] = job[w] /\ outcome'[w] = outcome[w]
      <3>1. ASSUME NEW v \in Writers, NEW j \in Jobs, BeginWriteMany(v, j)
            PROVE  report'[w] = report[w] /\ job'[w] = job[w] /\ outcome'[w] = outcome[w]
        BY <3>1 DEF BeginWriteMany, TypeOK
      <3>2. ASSUME NEW v \in Writers, NEW l \in Keys, Write(v, l)
            PROVE  report'[w] = report[w] /\ job'[w] = job[w] /\ outcome'[w] = outcome[w]
        <4>1. CASE v = w
          BY <3>2, <4>1 DEF Write, ReportsAreAggregates
        <4>2. CASE v # w
          BY <3>2, <4>2 DEF Write, TypeOK
        <4> QED
          BY <4>1, <4>2
      <3>3. ASSUME NEW v \in Writers, Replay(v) \/ Release(v)
            PROVE  report'[w] = report[w] /\ job'[w] = job[w] /\ outcome'[w] = outcome[w]
        BY <3>3 DEF Replay, Release, TypeOK
      <3>4. ASSUME NEW v \in Writers, EndWriteMany(v)
            PROVE  report'[w] = report[w] /\ job'[w] = job[w] /\ outcome'[w] = outcome[w]
        <4>1. v # w
          BY <1>2, <3>4
        <4>2. job' = job /\ outcome' = outcome
          BY <3>4 DEF EndWriteMany
        <4>3. report'[w] = report[w]
          <5>1. \E x : report' = [report EXCEPT ![v] = x]
            BY <3>4, Zenon DEF EndWriteMany
          <5> QED
            BY <4>1, <5>1 DEF TypeOK
        <4> QED
          BY <4>2, <4>3
      <3>5. CASE UNCHANGED vars
        BY <3>5 DEF vars
      <3> QED
        BY <3>1, <3>2, <3>3, <3>4, <3>5 DEF Next
    <2>2. Targets(w)' = Targets(w) /\ Todo(w)' = Todo(w)
      BY <2>1 DEF Targets, Todo
    <2>3. /\ Targets(w) # {} /\ Todo(w) = {}
          /\ report[w] = aggregate_online_status({outcome[w][k] : k \in Targets(w)})
      BY <2>1 DEF ReportsAreAggregates
    <2> QED
      BY <2>1, <2>2, <2>3
  <1> QED
    BY <1>1, <1>2

(* What write_many reports stays true of the store for as long as the      *)
(* caller holds the report, however the other writers interleave.          *)
THEOREM ReportsAreTruthful == Spec => []ReportTruthful
  <1>1. Init => OutcomesTrue /\ ReportsAreAggregates
    BY DEF Init, OutcomesTrue, ReportsAreAggregates, NoJob, NoOutcome
  <1>2. TypeOK /\ OutcomesTrue /\ ReportsAreAggregates => ReportTruthful
    <2> SUFFICES ASSUME TypeOK, OutcomesTrue, ReportsAreAggregates,
                        NEW w \in Writers, report[w] # "none"
                 PROVE
          /\ report[w] = "written" =>
                \E k \in Targets(w) :
                    outcome[w][k] \in WRITE_OUTCOMES /\ Fresher(k, job[w][k])
          /\ report[w] = "skipped_stale" =>
                /\ \A k \in Targets(w) : outcome[w][k] \notin WRITE_OUTCOMES
                /\ \E k \in Targets(w) :
                      TupleLess(guard_tuple(job[w][k]), guard_tuple(store[k]))
          /\ report[w] = "noop" =>
                \A k \in Targets(w) :
                    outcome[w][k] = "noop" /\ Fresher(k, job[w][k])
      BY DEF ReportTruthful
    <2> DEFINE O == {outcome[w][k] : k \in Targets(w)}
    <2>1. report[w] = aggregate_online_status(O)
      BY DEF ReportsAreAggregates
    <2>2. \A k \in Targets(w) :
            /\ outcome[w][k] \in O /\ outcome[w][k] \in Outcomes
            /\ Fresher(k, job[w][k])
            /\ outcome[w][k] = "skipped_stale" =>
                  TupleLess(guard_tuple(job[w][k]), guard_tuple(store[k]))
      <3> TAKE k \in Targets(w)
      <3>1. k \in Keys /\ job[w][k] # Absent
        BY DEF Targets
      <3>2. Todo(w) = {}
        BY DEF ReportsAreAggregates
      <3>3. outcome[w][k] # "none"
        BY <3>2 DEF Todo
      <3>4. outcome[w][k] \in O
        OBVIOUS
      <3>5. outcome[w][k] \in Outcomes
        BY <3>1, <3>3 DEF TypeOK
      <3> QED
        BY <3>1, <3>3, <3>4, <3>5 DEF OutcomesTrue
    <2>3. \A o \in O : \E k \in Targets(w) : o = outcome[w][k]
      OBVIOUS
    <2> HIDE DEF O
    <2>4. CASE report[w] = "written"
      <3>1. PICK o \in O : o \in WRITE_OUTCOMES
        BY <2>1, <2>4 DEF aggregate_online_status
      <3> QED
        BY <2>2, <2>3, <2>4, <3>1
    <2>5. CASE report[w] = "skipped_stale"
      <3>1. O \cap WRITE_OUTCOMES = {} /\ "skipped_stale" \in O
        BY <2>1, <2>5 DEF aggregate_online_status
      <3> QED
        BY <2>2, <2>3, <2>5, <3>1
    <2>6. CASE report[w] = "noop"
      <3>1. O \cap WRITE_OUTCOMES = {} /\ "skipped_stale" \notin O
        BY <2>1, <2>6 DEF aggregate_online_status
      <3> QED
        BY <2>2, <2>6, <3>1 DEF Outcomes, WRITE_OUTCOMES
    <2> QED
      BY <2>4, <2>5, <2>6
  <1> QED
    BY <1>1, <1>2, OutcomesStayTrue, ReportsStayAggregates, TypeCorrect, PTL DEF Spec
=============================================================================
