----------------------------- MODULE RawLanding -----------------------------
(***************************************************************************)
(* Landing form (a): an ingestion run takes raw reports row by row.  The   *)
(* metadata row of a report is upserted, then its payload is put, and at   *)
(* the end the run's manifest and its items are stored.  Several runs go   *)
(* on at once over overlapping files; each store call is a step, and a run *)
(* that dies is started again over the same file.                          *)
(***************************************************************************)
EXTENDS Naturals, Sequences, SequencesExt

CONSTANTS
    Landings,        \* ingestion runs
    Reports,         \* run -> sequence of input rows
    fail_fast,       \* the runs that stop at the first rejected row
    created_at,      \* run -> its ingestion time
    Source,          \* run -> the source its reports come from
    MaxInterruptions \* bound on failing puts and dying processes together

Unset == 0
NoMeta == <<>>

(* JsonlReportRow: the given or derived report_ref, its entity, the        *)
(* content (hash) of the payload, event_ts, and available_at, Unset when   *)
(* the source has none.                                                    *)
Report == [ref : STRING, entity : STRING, content : STRING, event_ts : Nat,
           available_at : Nat]

(* _iter_jsonl: a malformed row becomes a prepared row without a report.   *)
Parses(x) == x.ref # ""

LandingAssumption ==
    /\ \A l \in Landings : Reports[l] \in Seq(Report)
    /\ created_at \in [Landings -> Nat] /\ Source \in [Landings -> STRING]
    /\ MaxInterruptions \in Nat

Rows == UNION {ToSet(Reports[l]) : l \in Landings}
Refs == {x.ref : x \in {y \in Rows : Parses(y)}}

VARIABLES
    meta,            \* raw_reports_meta: ref -> row or NoMeta
    payloads,        \* object storage: <<ref, event_ts>> -> content
    changes,         \* raw_report_availability_changes, in commit order
    landing,         \* run -> where it is
    manifests,       \* run -> what the last manifest of the run holds
    interruptions

vars == <<meta, payloads, changes, landing, manifests, interruptions>>

Start == [pc |-> "read", row |-> 1, items |-> <<>>, existing |-> NoMeta]

Init ==
    /\ meta = [r \in Refs |-> NoMeta] /\ payloads = <<>> /\ changes = <<>>
    /\ landing = [l \in Landings |-> Start]
    /\ manifests = [l \in Landings |-> [status |-> "none", items |-> <<>>]]
    /\ interruptions = 0

Interrupt ==
    interruptions < MaxInterruptions /\ interruptions' = interruptions + 1

-----------------------------------------------------------------------------
Row(l) == Reports[l][landing[l].row]

AtRow(l, pc) == landing[l].pc = pc /\ landing[l].row <= Len(Reports[l])

(* The metadata of a row: the source's own availability, else the time of  *)
(* ingestion, never event_ts.                                              *)
MetaOf(l, x) ==
    [ref |-> x.ref, entity |-> x.entity, content |-> x.content, report_ts |-> x.event_ts,
     available_at |-> IF x.available_at = Unset THEN created_at[l] ELSE x.available_at,
     availability_source |->
        IF x.available_at = Unset THEN "ingestion_time" ELSE "source_provided"]

(* RawReportMeta: a source cannot claim a fact before its as-of time.  A   *)
(* time of ingestion may be before it: a future-dated report.              *)
Valid(x) == Parses(x) /\ (x.available_at # Unset => x.available_at >= x.event_ts)

(* Type, size, location and encoding of the payload go with its content.   *)
raw_meta_conflicts(a, b) ==
    a.entity # b.entity \/ a.content # b.content \/ a.report_ts # b.report_ts

(* Wrong version: an availability that merely differs corrects.            *)
AnyDifferenceCorrects(existing, incoming) ==
    /\ ~raw_meta_conflicts(existing, incoming)
    /\ incoming.available_at # existing.available_at

is_availability_correction(existing, incoming) ==
    /\ ~raw_meta_conflicts(existing, incoming)
    /\ incoming.availability_source = "source_provided"
    /\ incoming.available_at # existing.available_at

build_availability_change(existing, incoming) ==
    [ref |-> existing.ref, old |-> existing.available_at, new |-> incoming.available_at]

NextRow(l, item) ==
    landing' = [landing EXCEPT ![l] =
        [pc |-> "read", row |-> @.row + 1, items |-> Append(@.items, item),
         existing |-> NoMeta]]

Item(l, x, status) ==
    [ref |-> x.ref, entity |-> x.entity, source |-> Source[l], content |-> x.content,
     status |-> status]

(* _reject: the row is recorded and the run goes on, unless fail_fast.     *)
Reject(l) ==
    IF l \in fail_fast
    THEN landing' = [landing EXCEPT ![l].pc = "raised"]
    ELSE NextRow(l, Item(l, Row(l), "rejected"))

RejectRow(l) ==
    /\ AtRow(l, "read")
    /\ ~Valid(Row(l))
    /\ Reject(l)
    /\ UNCHANGED <<meta, payloads, changes, manifests, interruptions>>

At(x) == <<x.ref, x.event_ts>>
Stored(x) ==
    [k \in DOMAIN payloads \cup {At(x)} |-> IF k = At(x) THEN x.content ELSE payloads[k]]

(* Wrong version: the payload is put before the metadata is checked.       *)
PayloadFirst(l) ==
    /\ AtRow(l, "read")
    /\ Valid(Row(l))
    /\ payloads' = Stored(Row(l))
    /\ landing' = [landing EXCEPT ![l].pc = "upsert", ![l].existing = meta[Row(l).ref]]
    /\ UNCHANGED <<meta, changes, manifests, interruptions>>

(* upsert: the existing row is read ...                                    *)
GetMeta(l) ==
    /\ AtRow(l, "read")
    /\ Valid(Row(l))
    /\ landing' = [landing EXCEPT ![l].pc = "upsert", ![l].existing = meta[Row(l).ref]]
    /\ UNCHANGED <<meta, payloads, changes, manifests, interruptions>>

ToPut(l, status) == landing' = [landing EXCEPT ![l].pc = status]

(* ... and then inserted, corrected with an audit row in the same          *)
(* transaction, or left alone.  An insert that another run has overtaken   *)
(* fails on the primary key and the row is rejected, like a conflict.      *)
Upsert(l) ==
    LET old == landing[l].existing
        new == MetaOf(l, Row(l))
    IN  /\ AtRow(l, "upsert")
        /\ \/ /\ old = NoMeta /\ meta[new.ref] = NoMeta
              /\ meta' = [meta EXCEPT ![new.ref] = new]
              /\ ToPut(l, "written") /\ UNCHANGED changes
           \/ /\ \/ old = NoMeta /\ meta[new.ref] # NoMeta
                 \/ old # NoMeta /\ raw_meta_conflicts(old, new)
              /\ Reject(l) /\ UNCHANGED <<meta, changes>>
           \/ /\ old # NoMeta /\ is_availability_correction(old, new)
              /\ meta' = [meta EXCEPT
                    ![new.ref].available_at = new.available_at,
                    ![new.ref].availability_source = new.availability_source]
              /\ changes' = Append(changes, build_availability_change(old, new))
              /\ ToPut(l, "written")
           \/ /\ old # NoMeta /\ ~raw_meta_conflicts(old, new)
              /\ ~is_availability_correction(old, new)
              /\ ToPut(l, "duplicate") /\ UNCHANGED <<meta, changes>>
        /\ UNCHANGED <<payloads, manifests, interruptions>>

(* payloads.put, for new and duplicate rows; if it fails the row is        *)
(* rejected although its metadata stays.                                   *)
PutPayload(l) ==
    /\ landing[l].pc \in {"written", "duplicate"}
    /\ \/ /\ payloads' = Stored(Row(l))
          /\ NextRow(l, Item(l, Row(l), landing[l].pc))
          /\ UNCHANGED interruptions
       \/ Interrupt /\ Reject(l) /\ UNCHANGED payloads
    /\ UNCHANGED <<meta, changes, manifests>>

(* upsert_manifest with the counts, under an id of its own ...             *)
StoreManifest(l) ==
    /\ landing[l].pc = "read" /\ landing[l].row = Len(Reports[l]) + 1
    /\ landing' = [landing EXCEPT ![l].pc = "add_items"]
    /\ manifests' = [manifests EXCEPT ![l] = [status |-> "completed", items |-> <<>>]]
    /\ UNCHANGED <<meta, payloads, changes, interruptions>>

(* ... and add_items, in a transaction of its own.                         *)
AddItems(l) ==
    /\ landing[l].pc = "add_items"
    /\ landing' = [landing EXCEPT ![l].pc = "done"]
    /\ manifests' = [manifests EXCEPT ![l].items = landing[l].items]
    /\ UNCHANGED <<meta, payloads, changes, interruptions>>

Ended(l) == landing[l].pc \in {"done", "raised"}

(* The process dies; the operator runs the same file again.                *)
LandingDies(l) ==
    /\ ~Ended(l) /\ landing[l] # Start
    /\ Interrupt
    /\ landing' = [landing EXCEPT ![l] = Start]
    /\ UNCHANGED <<meta, payloads, changes, manifests>>

Next ==
    \E l \in Landings :
        \/ RejectRow(l) \/ GetMeta(l) \/ Upsert(l) \/ PutPayload(l)
        \/ StoreManifest(l) \/ AddItems(l) \/ LandingDies(l)

Spec == Init /\ [][Next]_vars

-----------------------------------------------------------------------------
Meta ==
    [ref : Refs, entity : STRING, content : STRING, report_ts : Nat, available_at : Nat,
     availability_source : {"ingestion_time", "source_provided"}]
Items ==
    Seq([ref : STRING, entity : STRING, source : STRING, content : STRING,
         status : {"written", "duplicate", "rejected"}])
Place(l) ==
    [pc : {"read", "upsert", "written", "duplicate", "add_items", "done", "raised"},
     row : 1..Len(Reports[l]) + 1, items : Items, existing : Meta \cup {NoMeta}]

TypeOK ==
    /\ meta \in [Refs -> Meta \cup {NoMeta}]
    /\ DOMAIN payloads \subseteq Refs \X Nat
    /\ changes \in Seq([ref : Refs, old : Nat, new : Nat])
    /\ DOMAIN landing = Landings /\ \A l \in Landings : landing[l] \in Place(l)
    /\ manifests \in [Landings -> [status : {"none", "completed"}, items : Items]]
    /\ interruptions \in 0..MaxInterruptions

(* ReportResolver.load: what a report_ref resolves to, NoMeta if nothing.  *)
load(r) ==
    IF meta[r] # NoMeta /\ <<r, meta[r].report_ts>> \in DOMAIN payloads
    THEN payloads[<<r, meta[r].report_ts>>]
    ELSE NoMeta

(* The items of a stored manifest that a batch job may compute from.       *)
EligibleItems(l, statuses) == {x \in ToSet(manifests[l].items) : x.status \in statuses}

(* _manifest_batch_items: one batch item for each, by reference.           *)
manifest_batch_items(l, include_duplicate_items) ==
    {[entity |-> x.entity, source_refs |-> {<<x.source, x.ref>>}] :
        x \in EligibleItems(l, IF include_duplicate_items
                               THEN {"written", "duplicate"} ELSE {"written"})}

(* _multi_manifest_batch_items: joined by entity; the request is refused   *)
(* when a manifest does not exist or an entity has two reports of one      *)
(* source.  {} stands for a refused request, as one without items is.      *)
multi_manifest_batch_items(selected) ==
    LET found == UNION {EligibleItems(l, {"written", "duplicate"}) : l \in selected}
        ambiguous == \E x, y \in found :
                        x.entity = y.entity /\ x.source = y.source /\ x.ref # y.ref
    IN  IF (\E l \in selected : manifests[l].status = "none") \/ ambiguous THEN {}
        ELSE {[entity |-> e, source_refs |-> {<<x.source, x.ref>> : x \in {y \in found : y.entity = e}}] :
                 e \in {x.entity : x \in found}}

JobItems ==
    UNION ({manifest_batch_items(l, d) : l \in Landings, d \in BOOLEAN}
           \cup {multi_manifest_batch_items(m) : m \in SUBSET Landings})

(* A batch job over landed manifests computes from what was ingested: each *)
(* source of an item is bound once, the resolver finds the metadata of the *)
(* report, of the item's entity, and, at the location it names, the        *)
(* content its manifest lists;                                             *)
(* racing runs with one report_ref, failed puts and dead runs              *)
(* notwithstanding.                                                        *)
JobItemsResolve ==
    \A b \in JobItems : \A p, q \in b.source_refs :
        /\ p[1] = q[1] => p = q
        /\ \E l \in Landings : \E x \in EligibleItems(l, {"written", "duplicate"}) :
               /\ <<x.source, x.ref>> = p /\ x.entity = b.entity
               /\ load(x.ref) = x.content /\ meta[x.ref].entity = b.entity

LastChange(i) == \A j \in DOMAIN changes : changes[j].ref = changes[i].ref => j <= i

(* A source's own availability, once known, is never replaced by a mere    *)
(* ingestion time, and whatever it was corrected to last is in the audit.  *)
AvailabilityAudited ==
    \A i \in DOMAIN changes :
        LastChange(i) =>
            /\ meta[changes[i].ref].availability_source = "source_provided"
            /\ meta[changes[i].ref].available_at = changes[i].new
=============================================================================
