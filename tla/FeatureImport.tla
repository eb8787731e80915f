---------------------------- MODULE FeatureImport ----------------------------
(***************************************************************************)
(* Feature rows brought into history without the request path: the tall    *)
(* rows of a warehouse (run_dwh_feature_import), the columns of a table    *)
(* (run_table_feature_import), and features computed from raw JSON rows    *)
(* (run_raw_json_backfill).  Each run drops duplicates, appends, writes    *)
(* online if asked to, and announces; a run that raises or dies is run     *)
(* again over the same input, since reruns are idempotent.                 *)
(***************************************************************************)
EXTENDS Naturals, Sequences, SequencesExt

CONSTANTS
    Runs,
    Kind,            \* run -> "dwh", "table" or "backfill"
    Groups,          \* run -> sequence of sets of feature rows
    write_online,    \* the runs in mode offline_and_online
    Reactive,        \* the feature rows some feature reacts to
    MaxInterruptions \* bound on failing calls and dying processes together

(* Groups[m][i] holds the valid feature values that row i of a table or of *)
(* a backfill gives (none, if the row is rejected; fail_fast, which raises *)
(* instead, is left out); a warehouse import handles all its valid rows as *)
(* one group.                                                              *)
Candidates(m) == UNION ToSet(Groups[m])

(* An input without rows is one whose only row gives nothing.              *)
ImportAssumption ==
    /\ \A m \in Runs : /\ Kind[m] \in {"dwh", "table", "backfill"}
                       /\ Groups[m] \in Seq(SUBSET Candidates(m)) /\ Groups[m] # <<>>
    /\ MaxInterruptions \in Nat

VARIABLES
    history, served, topic,  \* offline rows, online writes, announcements
    evidence,                \* feature rows whose raw report is stored
    run,                     \* run -> where it is
    outcome,                 \* run -> "none" or what it reported
    interruptions

vars == <<history, served, topic, evidence, run, outcome, interruptions>>

Begin(m) == [pc |-> IF Kind[m] = "backfill" THEN "persist" ELSE "partition",
             group |-> 1, new |-> {}, all_written |-> {}, rows_failed |-> FALSE]

Init ==
    /\ history = {} /\ served = {} /\ topic = {} /\ evidence = {}
    /\ run = [m \in Runs |-> Begin(m)]
    /\ outcome = [m \in Runs |-> "none"]
    /\ interruptions = 0

Interrupt ==
    interruptions < MaxInterruptions /\ interruptions' = interruptions + 1

-----------------------------------------------------------------------------
Group(m) == Groups[m][run[m].group]

Goto(m, pc) == run' = [run EXCEPT ![m].pc = pc]

(* persist_and_compute: the inline payload and its metadata under a fresh  *)
(* report_ref, before anything is computed.                                *)
PersistSources(m) ==
    /\ run[m].pc = "persist"
    /\ evidence' = evidence \cup Group(m)
    /\ Goto(m, "partition")
    /\ UNCHANGED <<history, served, topic, outcome, interruptions>>

(* partition_new_results against history, and nothing to append if all are *)
(* known.                                                                  *)
Partition(m) ==
    /\ run[m].pc = "partition"
    /\ run' = [run EXCEPT ![m].new = Group(m) \ history, ![m].pc = "append"]
    /\ UNCHANGED <<history, served, topic, evidence, outcome, interruptions>>

(* Wrong version: an append that fails is passed over.                     *)
SwallowAppendError(m) ==
    /\ run[m].pc = "append"
    /\ \/ history' = history \cup run[m].new /\ UNCHANGED interruptions
       \/ Interrupt /\ UNCHANGED history
    /\ run' = [run EXCEPT ![m].all_written = @ \cup run[m].new, ![m].pc = "online"]
    /\ UNCHANGED <<served, topic, evidence, outcome>>

(* append_many.                                                            *)
AppendRows(m) ==
    /\ run[m].pc = "append"
    /\ history' = history \cup run[m].new
    /\ run' = [run EXCEPT ![m].all_written = @ \cup run[m].new, ![m].pc = "online"]
    /\ UNCHANGED <<served, topic, evidence, outcome, interruptions>>

(* The next row, or the announcement, which a backfill does not make.      *)
NextRow(m, failed) ==
    run' = [run EXCEPT
        ![m].pc = IF run[m].group < Len(Groups[m]) THEN Begin(m).pc
                  ELSE IF Kind[m] = "backfill" THEN "store" ELSE "emit",
        ![m].group = IF @ < Len(Groups[m]) THEN @ + 1 ELSE @,
        ![m].rows_failed = @ \/ failed]

(* write_many for the new rows, in mode offline_and_online.                *)
WriteOnline(m) ==
    /\ run[m].pc = "online"
    /\ served' = IF m \in write_online THEN served \cup run[m].new ELSE served
    /\ NextRow(m, FALSE)
    /\ UNCHANGED <<history, topic, evidence, outcome, interruptions>>

(* A backfill takes whatever a row raises, failing stores included, as an  *)
(* error of the row and goes on.                                           *)
RowFails(m) ==
    /\ Kind[m] = "backfill"
    /\ run[m].pc \in {"persist", "partition", "append", "online"}
    /\ Interrupt
    /\ NextRow(m, TRUE)
    /\ UNCHANGED <<history, served, topic, evidence, outcome>>

End(m, what) ==
    /\ run' = [run EXCEPT ![m].pc = "done"]
    /\ outcome' = [outcome EXCEPT ![m] = what]

(* emit_feature_updates for what this run appended, if it is reacted to.   *)
Updates(m) == run[m].all_written \cap Reactive

EmitUpdates(m) ==
    /\ run[m].pc = "emit"
    /\ topic' = topic \cup Updates(m)
    /\ Goto(m, "store")
    /\ UNCHANGED <<history, served, evidence, outcome, interruptions>>

(* The publish fails, perhaps after delivery: a warehouse import raises    *)
(* and is run again; a table import says so in its summary.                *)
EmitFails(m) ==
    /\ run[m].pc = "emit" /\ Updates(m) # {}
    /\ Interrupt /\ topic' \in {topic, topic \cup Updates(m)}
    /\ \/ Kind[m] = "dwh" /\ run' = [run EXCEPT ![m] = Begin(m)] /\ UNCHANGED outcome
       \/ Kind[m] = "table" /\ End(m, "propagation_failed")
    /\ UNCHANGED <<history, served, evidence>>

(* upsert_manifest of a warehouse import, the summary of the others.       *)
StoreOutcome(m) ==
    /\ run[m].pc = "store"
    /\ End(m, IF run[m].rows_failed THEN "rows_failed" ELSE "completed")
    /\ UNCHANGED <<history, served, topic, evidence, interruptions>>

(* A store call raises or the process dies: run again from the start.      *)
RunDies(m) ==
    /\ run[m].pc # "done" /\ run[m] # Begin(m)
    /\ Interrupt
    /\ run' = [run EXCEPT ![m] = Begin(m)]
    /\ UNCHANGED <<history, served, topic, evidence, outcome>>

Step ==
    \E m \in Runs :
        \/ PersistSources(m) \/ Partition(m) \/ AppendRows(m) \/ WriteOnline(m)
        \/ EmitUpdates(m) \/ StoreOutcome(m)

Next == Step \/ \E m \in Runs : RowFails(m) \/ EmitFails(m) \/ RunDies(m)

Spec == Init /\ [][Next]_vars

-----------------------------------------------------------------------------
Place(m) ==
    [pc : {"persist", "partition", "append", "online", "emit", "store", "done"},
     group : 1..Len(Groups[m]), new : SUBSET Candidates(m),
     all_written : SUBSET Candidates(m), rows_failed : BOOLEAN]

TypeOK ==
    /\ DOMAIN run = Runs /\ \A m \in Runs : run[m] \in Place(m)
    /\ outcome \in [Runs -> {"none", "rows_failed", "propagation_failed", "completed"}]
    /\ interruptions \in 0..MaxInterruptions

(* Others see only what is durable: an announced or served row is in       *)
(* history, a backfilled row in history has its raw report stored, and a   *)
(* run that has reported, unless it reports failed rows, has all its valid *)
(* rows there, however often it was interrupted and run again.             *)
DurableFirst ==
    /\ topic \cup served \subseteq history
    /\ \A x \in history :
           x \in evidence \/ \E m \in Runs : Kind[m] # "backfill" /\ x \in Candidates(m)
    /\ \A m \in Runs :
           outcome[m] \notin {"none", "rows_failed"} => Candidates(m) \subseteq history
=============================================================================
