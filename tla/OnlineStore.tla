----------------------------- MODULE OnlineStore -----------------------------
(***************************************************************************)
(* The online feature store and the processes that write to it at the same *)
(* time: online workers, guarded batch refreshes, the model-score writer,  *)
(* direct computes.  Each holds a set of freshly computed results, at most *)
(* one per serving key, and hands them to write_many, which writes them    *)
(* one by one: one guarded write is atomic (a Lua script on the server),   *)
(* write_many is not, and may stop half way with an exception.  The same   *)
(* results may be offered again any number of times (replays).             *)
(***************************************************************************)
EXTENDS WriteGuard

CONSTANTS Keys,      \* serving keys (entity, view, feature, versions)
          Results,   \* the results the writers may hold
          Writers,
          MaxCalls   \* bound on the number of write_many calls

ASSUME OnlineStoreAssumption ==
    /\ Results \subseteq ResultType
    /\ Absent \notin ResultType
    /\ MaxCalls \in Nat

VARIABLES
    store,     \* serving key -> record or Absent
    job,       \* writer -> (serving key -> result or Absent) of its call
    outcome,   \* writer -> (serving key -> outcome so far, or "none")
    report,    \* writer -> what the last call told the request status
    calls,     \* number of write_many calls so far
    offered    \* history: every (key, result) that reached the guard

vars == <<store, job, outcome, report, calls, offered>>

NoJob == [k \in Keys |-> Absent]
NoOutcome == [k \in Keys |-> "none"]

Targets(w) == {k \in Keys : job[w][k] # Absent}
Todo(w)    == {k \in Targets(w) : outcome[w][k] = "none"}

Init ==
    /\ store = [k \in Keys |-> Absent]
    /\ job = [w \in Writers |-> NoJob]
    /\ outcome = [w \in Writers |-> NoOutcome]
    /\ report = [w \in Writers |-> "none"]
    /\ calls = 0
    /\ offered = {}

-----------------------------------------------------------------------------
(* write_many is called with results for some of the serving keys.         *)
BeginWriteMany(w, j) ==
    /\ job[w] = NoJob
    /\ calls < MaxCalls
    /\ calls' = calls + 1
    /\ job' = [job EXCEPT ![w] = j]
    /\ outcome' = [outcome EXCEPT ![w] = NoOutcome]
    /\ report' = [report EXCEPT ![w] = "none"]
    /\ UNCHANGED <<store, offered>>

(* Wrong version: the outcome is decided, the value stored regardless.     *)
BlindWrite(w, k) ==
    /\ k \in Todo(w)
    /\ store' = [store EXCEPT ![k] = job[w][k]]
    /\ outcome' = [outcome EXCEPT ![w][k] = D9_SCRIPT(job[w][k], store[k])]
    /\ offered' = offered \cup {<<k, job[w][k]>>}
    /\ UNCHANGED <<job, report, calls>>

(* One guarded write: decide against what is stored now, store, report.    *)
Write(w, k) ==
    LET d == D9_SCRIPT(job[w][k], store[k])
    IN  /\ k \in Todo(w)
        /\ store' = IF d \in WRITE_OUTCOMES
                    THEN [store EXCEPT ![k] = job[w][k]] ELSE store
        /\ outcome' = [outcome EXCEPT ![w][k] = d]
        /\ offered' = offered \cup {<<k, job[w][k]>>}
        /\ UNCHANGED <<job, report, calls>>

(* An exception or a crash ends write_many: what was written stays, and    *)
(* the redelivered message makes the same call again from its start.       *)
Replay(w) ==
    /\ outcome[w] # NoOutcome
    /\ outcome' = [outcome EXCEPT ![w] = NoOutcome]
    /\ report' = [report EXCEPT ![w] = "none"]
    /\ UNCHANGED <<store, job, calls, offered>>

(* Every result was offered: the caller aggregates the outcomes.           *)
EndWriteMany(w) ==
    /\ job[w] # NoJob
    /\ Todo(w) = {}
    /\ report[w] = "none"
    /\ report' = [report EXCEPT ![w] =
            aggregate_online_status({outcome[w][k] : k \in Targets(w)})]
    /\ UNCHANGED <<store, job, outcome, calls, offered>>

(* The caller is done with the call, or died in it for good.               *)
Release(w) ==
    /\ job[w] # NoJob
    /\ job' = [job EXCEPT ![w] = NoJob]
    /\ outcome' = [outcome EXCEPT ![w] = NoOutcome]
    /\ report' = [report EXCEPT ![w] = "none"]
    /\ UNCHANGED <<store, calls, offered>>

Jobs == [Keys -> Results \cup {Absent}] \ {NoJob}

Next ==
    \E w \in Writers :
        \/ \E j \in Jobs : BeginWriteMany(w, j)
        \/ \E k \in Keys : Write(w, k)
        \/ Replay(w)
        \/ EndWriteMany(w)
        \/ Release(w)

Spec == Init /\ [][Next]_vars

-----------------------------------------------------------------------------
TypeOK ==
    /\ store \in [Keys -> Results \cup {Absent}]
    /\ job \in [Writers -> [Keys -> Results \cup {Absent}]]
    /\ outcome \in [Writers -> [Keys -> Outcomes \cup {"none"}]]
    /\ report \in [Writers -> Outcomes \cup {"none"}]
    /\ calls \in 0..MaxCalls
    /\ offered \subseteq Keys \X Results

Fresher(k, r) == store[k] # Absent /\ TupleLeq(guard_tuple(r), guard_tuple(store[k]))

(* No fresher value is ever lost: whatever was offered to the guard, by    *)
(* whichever writer and in whichever order, the store holds something at   *)
(* least as fresh under that key.                                          *)
LatestWins == \A p \in offered : Fresher(p[1], p[2])

(* What write_many reports is still true of the store when the caller puts *)
(* it in the request status, although other writers have been writing      *)
(* since: "written" means that a value of the call entered the store,      *)
(* "skipped_stale" that none did and the store is strictly fresher under   *)
(* some key, "noop" that every key already held the value's freshness.     *)
ReportTruthful ==
    \A w \in Writers :
        LET T == Targets(w) IN
        /\ report[w] = "written" =>
              \E k \in T : outcome[w][k] \in WRITE_OUTCOMES /\ Fresher(k, job[w][k])
        /\ report[w] = "skipped_stale" =>
              /\ \A k \in T : outcome[w][k] \notin WRITE_OUTCOMES
              /\ \E k \in T : TupleLess(guard_tuple(job[w][k]), guard_tuple(store[k]))
        /\ report[w] = "noop" =>
              \A k \in T : outcome[w][k] = "noop" /\ Fresher(k, job[w][k])

(* The Lua script and the Python function decide alike on every record the *)
(* store can hold and every result a writer may offer, as long as one      *)
(* instant of availability is not given in two UTC offsets: the script     *)
(* compares ISO texts and takes the second for a correction.               *)
TwinsAgree ==
    \A k \in Keys, r \in Results : SpelledAlike(r, store[k]) =>
        D9_SCRIPT(r, store[k]) = decide_write(r, store[k])

(* Offering again what is already stored is a noop and leaves the store    *)
(* alone, so a replay without interleaved writes changes nothing.          *)
ReplayIsNoop ==
    [][\A w \in Writers, k \in Keys :
          (/\ outcome[w][k] = "none" /\ outcome'[w][k] # "none"
           /\ job[w][k] = store[k])
             => outcome'[w][k] = "noop" /\ store' = store]_vars

(* The store is a register whose freshness never goes back.                *)
Latest == INSTANCE LatestRegister WITH reg <- store
ImplementsLatestRegister == Latest!RegSpec
=============================================================================
