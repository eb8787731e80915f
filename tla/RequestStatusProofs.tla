------------------------- MODULE RequestStatusProofs -------------------------
(***************************************************************************)
(* What the operational status of a request may claim, for any outcomes,   *)
(* number of attempts, lost status calls and dying consumers.              *)
(***************************************************************************)
EXTENDS RequestStatus, TLAPS

Completions == {"completed", "expired"}

(* The values, by column of the status entry, that would claim too much of *)
(* the other stores as they are.                                           *)
Premature ==
    (IF \/ Completions \cap published = {}
        \/ durable.online = None /\ ~overwritten
     THEN {<<"metadata", "written">>} ELSE {})
    \cup (IF ~result THEN {<<"online", "written">>} ELSE {})
    \cup (IF ~history THEN {<<"offline", "written">>} ELSE {})
    \cup (IF "expired" \notin published THEN {<<"online", "deadline_expired">>} ELSE {})
    \cup (IF "dlq_online" \notin published THEN {<<"status", "failed">>} ELSE {})

Good(c) == \A f \in DOMAIN c : <<f, c[f]>> \notin Premature

(* No copy of the entry does: not the stored one, nor those read and not   *)
(* yet put back, nor the changes on their way.                             *)
CopiesInv ==
    /\ Good(entry)
    /\ \A p \in Processes : Good(seen[p]) /\ Good(upd[p])

(* A completed row says how the request was served, and only a completion  *)
(* says that; so do the rows that writers have read.                       *)
Row(r) ==
    /\ r.status = "completed" => r.online # None
    /\ r.online # None => Completions \cap published # {}
RowInv ==
    /\ Row(durable)
    /\ \A w \in MetadataWriters :
          held[w] # NoWork => held[w].event \in published /\ Row(held[w].row)

(* The worker has published what the step it is at presumes.               *)
WorkerInv ==
    /\ pc["online"] \in {"publish_completed", "put_result", "commit_ok"}
          => "offline_requested" \in published
    /\ pc["online"] = "commit_ok" => result
    /\ pc["online"] = "commit_expired" => "expired" \in published
    /\ result => "offline_requested" \in published

(* What the status endpoint and the hybrid endpoint have told a client.    *)
ResponseInv ==
    /\ response.metadata = "written" =>
          Completions \cap published # {} /\ (durable.online # None \/ overwritten)
    /\ response.online = "written" => result
    /\ response.offline = "written" => history
AnswerInv ==
    /\ answer.offline = "written" => history
    /\ answer.status = "deadline_expired" => "expired" \in published
    /\ answer.status = "failed" => "dlq_online" \in published
    /\ answer.values => result

(* The invariant behind ClaimsAreTrue.                                     *)
StatusInv == CopiesInv /\ RowInv /\ WorkerInv /\ ResponseInv /\ AnswerInv

-----------------------------------------------------------------------------
(* merge_request keeps how a request was served, and a completed row that  *)
(* results from it says so.                                                *)
LEMMA MergeFacts ==
  ASSUME NEW r \in Snapshot, NEW e \in Events \ {"dlq_metadata"}
  PROVE  LET m == merge_request(r, projection(e)) IN
         /\ m \in Snapshot
         /\ r.online # None => m.online # None
         /\ e \in Completions => m.online # None
         /\ e \notin Completions => m.online = r.online
         /\ (r.status = "completed" => r.online # None)
               => (m.status = "completed" => m.online # None)
<1> DEFINE p == projection(e)
           m == merge_request(r, p)
<1>1. /\ p \in Snapshot \ {NoRow} /\ p = Partial(p.status, p.online, p.offline)
      /\ p.status = "completed" => p.online # None
      /\ IF e \in Completions THEN p.online # None ELSE p.online = None
  BY DEF projection, Partial, Events, Completions, Snapshot, NoRow, TERMINAL, OnlineStatuses, None
<1>2. CASE r = NoRow
  BY <1>1, <1>2 DEF merge_request, NoRow
<1>3. CASE r # NoRow
  <2>1. /\ DOMAIN r = {"status", "online", "offline"}
        /\ r.status \in {None, "accepted"} \cup TERMINAL /\ r.online \in OnlineStatuses
        /\ r.offline \in {None, "pending", "failed_dlq"}
    BY <1>3 DEF Snapshot
  <2>2. /\ p.status \in {None, "accepted"} \cup TERMINAL /\ p.online \in OnlineStatuses
        /\ p.offline \in {None, "pending", "failed_dlq"}
    BY <1>1 DEF Snapshot
  <2>3. m = [f \in {"status", "online", "offline"} |->
               IF /\ f = "status" /\ r.status \in TERMINAL
                  /\ p.status \in {"accepted", "running"}
               THEN r.status ELSE pick(p[f], r[f])]
    BY <1>3, <2>1 DEF merge_request
  <2>4. /\ m.status = IF r.status \in TERMINAL /\ p.status \in {"accepted", "running"}
                      THEN r.status ELSE pick(p.status, r.status)
        /\ m.online = pick(p.online, r.online)
        /\ m.offline = pick(p.offline, r.offline)
    BY <2>3
  <2>5. m = Partial(m.status, m.online, m.offline)
    BY <2>3 DEF Partial
  <2>6. m \in Snapshot
    BY <2>1, <2>2, <2>4, <2>5 DEF pick, Partial, Snapshot
  <2> QED
    BY <1>1, <2>4, <2>6 DEF pick
<1> QED
  BY <1>2, <1>3

-----------------------------------------------------------------------------
(* Types, in parts.                                                        *)
TypeStores ==
    /\ {result, history, toWrite} \subseteq BOOLEAN
    /\ published \subseteq Events \ {"dlq_metadata"} /\ toProject \subseteq published
    /\ durable \in Snapshot /\ overwritten \in BOOLEAN
    /\ held \in [MetadataWriters -> [event : Events \cup {None}, row : Snapshot]]
IsChange(c) == DOMAIN c \subseteq Fields /\ \A f \in DOMAIN c : c[f] \in Column(f)
TypeCopies ==
    /\ entry \in Entries
    /\ pc \in [Processes -> Steps] /\ ret \in [Processes -> {"poll", "handle", "end"}]
    /\ seen \in [Processes -> Entries] /\ DOMAIN upd = Processes
    /\ \A p \in Processes : IsChange(upd[p])
TypeBounds ==
    /\ instance \in Instances
    /\ attempt \in 0..MaxAttempts
    /\ crashes \in 0..instance.max_crashes /\ lost \in 0..instance.max_lost

(* The type invariant is the conjunction of its parts.                     *)
LEMMA TypeParts ==
  /\ TypeOK <=> TypeStores /\ TypeCopies /\ TypeBounds
  /\ TypeOK' <=> TypeStores' /\ TypeCopies' /\ TypeBounds'
  BY DEF TypeOK, TypeStores, TypeCopies, IsChange, TypeBounds

(* What is published, served, in history or on the durable row stays.      *)
Grows ==
    /\ published \subseteq published' /\ (history => history') /\ (result => result')
    /\ overwritten => overwritten'
    /\ durable.online # None => durable'.online # None \/ overwritten'

(* The stores other than the entry: their types, and that they only grow.  *)
LEMMA StoresStep ==
  TypeStores /\ RowInv /\ [Next]_vars => TypeStores' /\ RowInv' /\ Grows
<1> SUFFICES ASSUME TypeStores, RowInv, [Next]_vars
             PROVE  TypeStores' /\ RowInv' /\ Grows
  OBVIOUS
<1> DEFINE Goal == TypeStores' /\ RowInv' /\ Grows
<1> SUFFICES Goal
  OBVIOUS
<1>1. ASSUME NEW e \in Events \ {"dlq_metadata"}, publish(e), toWrite' \in BOOLEAN,
             UNCHANGED <<result, history, rows>>
      PROVE  Goal
  BY <1>1 DEF publish, rows, TypeStores, RowInv, Row, Grows
<1>2. ASSUME UNCHANGED <<result, history, published, toWrite, toProject, rows>>
      PROVE  Goal
  BY <1>2 DEF rows, TypeStores, RowInv, Row, Grows
<1>3. ASSUME NEW w \in MetadataWriters, NEW e \in Events, SelectRequest(w, e)
      PROVE  Goal
  <2>1. /\ UNCHANGED <<result, history, published, toWrite, toProject, durable, overwritten>>
        /\ e \in published /\ held' = [held EXCEPT ![w] = [event |-> e, row |-> durable]]
    BY <1>3 DEF SelectRequest, TypeStores
  <2>2. \A v \in MetadataWriters : held'[v] = IF v = w THEN [event |-> e, row |-> durable]
                                                        ELSE held[v]
    BY <2>1 DEF TypeStores
  <2>3. TypeStores'
    BY <2>1 DEF TypeStores
  <2>4. RowInv'
    BY <2>1, <2>2 DEF RowInv, Row
  <2> QED
    BY <2>1, <2>3, <2>4 DEF Grows
<1>w. ASSUME NEW w \in MetadataWriters, held' = [held EXCEPT ![w] = NoWork]
      PROVE  /\ held' \in [MetadataWriters -> [event : Events \cup {None}, row : Snapshot]]
             /\ \A v \in MetadataWriters : held'[v] = IF v = w THEN NoWork ELSE held[v]
  <2>1. NoWork \in [event : Events \cup {None}, row : Snapshot]
    BY DEF NoWork, Snapshot
  <2> QED
    BY <1>w, <2>1 DEF TypeStores
<1>u. ASSUME NEW w \in MetadataWriters, UpsertRequest(w)
      PROVE  Goal
  <2> DEFINE r == held[w].row
             e == held[w].event
  <2>1. /\ UNCHANGED <<result, history, published, toWrite>> /\ toProject' \subseteq toProject
        /\ durable' = merge_request(r, projection(e))
        /\ overwritten' = (overwritten \/ r # durable)
        /\ held' = [held EXCEPT ![w] = NoWork] /\ held[w] # NoWork
    BY <1>u DEF UpsertRequest, Upsert
  <2>2. r \in Snapshot /\ e \in published /\ Row(r)
    BY <2>1 DEF TypeStores, RowInv
  <2>3. e \in Events \ {"dlq_metadata"}
    BY <2>2 DEF TypeStores
  <2>4. /\ durable' \in Snapshot
        /\ r.online # None => durable'.online # None
        /\ e \notin Completions => durable'.online = r.online
        /\ durable'.status = "completed" => durable'.online # None
    BY <2>1, <2>2, <2>3, MergeFacts DEF Row
  <2>5. TypeStores'
    BY <1>w, <2>1, <2>4 DEF TypeStores
  <2>6. Row(durable)'
    BY <2>1, <2>2, <2>4 DEF Row
  <2>7. RowInv'
    BY <1>w, <2>1, <2>6 DEF RowInv, Row
  <2>8. Grows
    BY <2>1, <2>4 DEF Grows
  <2> QED
    BY <2>5, <2>7, <2>8
<1>a. ASSUME NEW w \in MetadataWriters, AbandonEvent(w)
      PROVE  Goal
  <2>1. /\ UNCHANGED <<result, history, published, toWrite, toProject, durable, overwritten>>
        /\ held' = [held EXCEPT ![w] = NoWork]
    BY <1>a DEF AbandonEvent
  <2>2. TypeStores'
    BY <1>w, <2>1 DEF TypeStores
  <2>3. RowInv'
    BY <1>w, <2>1 DEF RowInv, Row
  <2> QED
    BY <2>1, <2>2, <2>3 DEF Grows
<1>4. CASE Submit \/ HandleOk \/ PublishCompleted \/ HandleExpired \/ OfflineDeadLetter
  <2>1. {"requested", "offline_requested", "completed", "expired", "dlq_offline"}
           \subseteq Events \ {"dlq_metadata"}
    BY DEF Events
  <2> QED
    BY <1>1, <1>4, <2>1
       DEF Submit, HandleOk, PublishCompleted, HandleExpired, OfflineDeadLetter, TypeStores
<1>5. CASE HandleFailed
  <2>1. "dlq_online" \in Events \ {"dlq_metadata"}
    BY DEF Events
  <2> QED
    BY <1>1, <1>2, <1>5, <2>1 DEF HandleFailed, TypeStores
<1>6. CASE PutResult \/ OfflineWrite
  <2>1. /\ result' \in BOOLEAN /\ history' \in BOOLEAN /\ toWrite' \in BOOLEAN
        /\ (history => history') /\ (result => result')
    <3>1. result \in BOOLEAN /\ history \in BOOLEAN /\ toWrite \in BOOLEAN
      BY DEF TypeStores
    <3>2. CASE PutResult
      BY <3>1, <3>2 DEF PutResult
    <3>3. CASE OfflineWrite
      BY <3>1, <3>3 DEF OfflineWrite
    <3> QED
      BY <1>6, <3>2, <3>3
  <2>2. UNCHANGED <<published, toProject, rows>>
    BY <1>6 DEF PutResult, OfflineWrite
  <2> QED
    BY <2>1, <2>2 DEF rows, TypeStores, RowInv, Row, Grows
<1>7. CASE PutAccepted \/ HybridPoll \/ HybridReadResult \/ HybridTimeout
  BY <1>2, <1>7 DEF PutAccepted, HybridPoll, HybridReadResult, HybridTimeout, data
<1>8. CASE OnlinePoll \/ CommitOk \/ CommitExpired \/ OfflineRetry
  BY <1>2, <1>8 DEF OnlinePoll, CommitOk, CommitExpired, OfflineRetry, data
<1>9. ASSUME NEW p \in Processes, StatusGet(p) \/ StatusPut(p) \/ StatusLost(p)
      PROVE  Goal
  BY <1>2, <1>9 DEF StatusGet, StatusPut, StatusLost, data
<1>10. CASE GetStatus \/ Reconcile \/ CrashOnline
  BY <1>2, <1>10 DEF GetStatus, Reconcile, CrashOnline, data
<1>11. CASE UNCHANGED vars
  BY <1>2, <1>11 DEF vars, data
<1> HIDE DEF Goal
<1> QED
  <2>1. {"online", "offline", "get"} \cup MetadataWriters \subseteq Processes
    BY DEF Processes
  <2>2. ASSUME OnlineStep PROVE Goal
    BY <1>4, <1>5, <1>6, <1>8, <1>9, <2>1, <2>2 DEF OnlineStep
  <2>3. ASSUME OfflineStep PROVE Goal
    BY <1>4, <1>6, <1>8, <1>9, <2>1, <2>3 DEF OfflineStep
  <2>4. ASSUME MetadataStep \/ GetStep PROVE Goal
    BY <1>3, <1>u, <1>9, <1>10, <2>1, <2>4 DEF MetadataStep, GetStep
  <2> QED
    BY <1>4, <1>7, <1>9, <1>10, <1>11, <1>a, <2>2, <2>3, <2>4 DEF Next

-----------------------------------------------------------------------------
(* As the stores grow, fewer claims are premature.                         *)
LEMMA PrematureShrinks == Grows => Premature' \subseteq Premature
  BY DEF Grows, Premature

(* The changes that the processes ask for.                                 *)
LEMMA Changes ==
  /\ \A s \in {"running", "failed"} : IsChange([status |-> s])
  /\ \A s \in {"retrying", "failed_dlq"} : IsChange([offline |-> s])
  /\ IsChange([metadata |-> "written"])
  /\ IsChange([status |-> "completed", offline |-> "written"])
  /\ IsChange(Entry("completed", "written", "pending", "pending"))
  /\ IsChange(Entry("completed", "deadline_expired", None, "pending"))
  /\ IsChange(Nothing)
  /\ NoEntry \in Entries /\ Entry("accepted", None, None, "pending") \in Entries
  BY DEF IsChange, Fields, Column, OnlineStatuses, Entry, Nothing, NoEntry, Entries

(* _apply_changes takes each column from one of the two.                   *)
LEMMA ApplyFacts ==
  ASSUME NEW e \in Entries, NEW c, IsChange(c)
  PROVE  /\ apply_changes(e, c) \in Entries
         /\ Good(e) /\ Good(c) => Good(apply_changes(e, c))
<1> DEFINE m == apply_changes(e, c)
<1>1. /\ DOMAIN m = Fields
      /\ \A f \in Fields : m[f] = IF f \in DOMAIN c THEN c[f] ELSE e[f]
  BY DEF apply_changes
<1>2. DOMAIN e = Fields /\ \A f \in Fields : e[f] \in Column(f)
  BY DEF Entries, Fields
<1>3. \A f \in Fields : m[f] \in Column(f)
  BY <1>1, <1>2 DEF IsChange
<1>4. m = [status |-> m.status, online |-> m.online, offline |-> m.offline,
           metadata |-> m.metadata]
  BY DEF apply_changes, Fields
<1>5. m \in Entries
  BY <1>3, <1>4 DEF Entries, Fields
<1>6. Good(e) /\ Good(c) => Good(m)
  BY <1>1, <1>2 DEF Good
<1> QED
  BY <1>5, <1>6

(* Every copy of the entry stays well typed and claims nothing premature,  *)
(* whichever copy is put back and whichever call is lost.                  *)
LEMMA CopiesStep ==
  ASSUME TypeStores, TypeCopies, CopiesInv, RowInv, WorkerInv, Grows, [Next]_vars
  PROVE  TypeCopies' /\ CopiesInv'
<1> DEFINE Goal == TypeCopies' /\ CopiesInv'
<1> SUFFICES Goal
  OBVIOUS
<1>g. Premature' \subseteq Premature
  BY PrematureShrinks
<1>e. /\ Good(entry) /\ entry \in Entries
      /\ \A p \in Processes : /\ Good(seen[p]) /\ Good(upd[p])
                              /\ seen[p] \in Entries /\ IsChange(upd[p])
  BY DEF TypeCopies, CopiesInv
<1>n. /\ \A f \in DOMAIN NoEntry : <<f, NoEntry[f]>> \notin Premature
      /\ \A f \in DOMAIN Nothing : <<f, Nothing[f]>> \notin Premature
  BY DEF NoEntry, Entry, Nothing, Premature, None
<1>1. ASSUME NEW p \in Processes, NEW c, NEW n \in {"poll", "handle", "end"},
             Update(p, c, n), entry' = entry, IsChange(c),
             \A f \in DOMAIN c : <<f, c[f]>> \notin Premature'
      PROVE  Goal
  <2>1. TypeCopies'
    BY <1>1 DEF TypeCopies, Update, Goto, Steps
  <2>2. CopiesInv'
    BY <1>1, <1>g DEF CopiesInv, TypeCopies, Good, Update
  <2> QED
    BY <2>1, <2>2
<1>2. ASSUME NEW p \in Processes, NEW n \in Steps, Return(p, n), entry' \in Entries,
             \A f \in DOMAIN entry' : <<f, entry'[f]>> \notin Premature
      PROVE  Goal
  <2>1. TypeCopies'
    BY <1>2, Changes DEF TypeCopies, Return, Goto
  <2>2. CopiesInv'
    BY <1>2, <1>g, <1>n DEF CopiesInv, TypeCopies, Good, Return
  <2> QED
    BY <2>1, <2>2
<1>3. ASSUME NEW p \in Processes, NEW n \in Steps, Goto(p, n), entry' = entry,
             seen' = [seen EXCEPT ![p] = entry], upd' = upd, ret' = ret
      PROVE  Goal
  <2>1. TypeCopies'
    BY <1>3 DEF TypeCopies, Goto
  <2>2. CopiesInv'
    BY <1>3, <1>g DEF CopiesInv, TypeCopies, Good
  <2> QED
    BY <2>1, <2>2
<1>4. ASSUME NEW p \in Processes, NEW n \in Steps, Goto(p, n), UNCHANGED Locals,
             entry' \in Entries, \A f \in DOMAIN entry' : <<f, entry'[f]>> \notin Premature
      PROVE  Goal
  <2>1. TypeCopies'
    BY <1>4 DEF TypeCopies, Goto, Locals
  <2>2. CopiesInv'
    BY <1>4, <1>g DEF CopiesInv, Good, Locals
  <2> QED
    BY <2>1, <2>2
<1>5. ASSUME UNCHANGED <<entry, pc, Locals>>
      PROVE  Goal
  <2>1. TypeCopies'
    BY <1>5 DEF TypeCopies, Locals
  <2>2. CopiesInv'
    BY <1>5, <1>g DEF CopiesInv, Good, Locals
  <2> QED
    BY <2>1, <2>2
<1>k. ASSUME entry' = entry
      PROVE  entry' \in Entries /\ \A f \in DOMAIN entry' : <<f, entry'[f]>> \notin Premature
  BY <1>k, <1>e DEF Good
<1> HIDE DEF Goal
<1>p. /\ {"api", "online", "offline", "get"} \cup MetadataWriters \subseteq Processes
      /\ "online" \notin MetadataWriters
  BY RequestStatusAssumption DEF Processes
<1>r. \A p \in Processes : ret[p] \in Steps
  BY DEF TypeCopies, Steps
<1>6. ASSUME NEW p \in Processes, StatusGet(p)
      PROVE  Goal
  <2>1. entry' = entry
    BY <1>6 DEF StatusGet
  <2>2. "status_put" \in Steps
    BY DEF Steps
  <2> QED
    BY <1>2, <1>3, <1>6, <1>k, <1>r, <2>1, <2>2 DEF StatusGet
<1>7. ASSUME NEW p \in Processes, StatusPut(p)
      PROVE  Goal
  <2>1. entry' = apply_changes(seen[p], upd[p])
    BY <1>7 DEF StatusPut
  <2>2. entry' \in Entries /\ \A f \in DOMAIN entry' : <<f, entry'[f]>> \notin Premature
    BY <1>e, <2>1, ApplyFacts DEF Good
  <2> QED
    BY <1>2, <1>7, <1>r, <2>2 DEF StatusPut
<1>8. ASSUME NEW p \in Processes, StatusLost(p)
      PROVE  Goal
  <2>1. entry' = entry
    BY <1>8 DEF StatusLost
  <2>2. AfterAccept \in Steps
    BY DEF AfterAccept, Steps
  <2> QED
    BY <1>2, <1>8, <1>k, <1>r, <2>1, <2>2 DEF StatusLost
<1>9. ASSUME Submit \/ HandleOk \/ PublishCompleted \/ PutResult \/ HandleExpired \/ HybridTimeout
      PROVE  Goal
  <2>1. entry' = entry /\ UNCHANGED Locals
    BY <1>9 DEF Submit, HandleOk, PublishCompleted, PutResult, HandleExpired, HybridTimeout
  <2>2. {"put_accepted", "publish_completed", "put_result", "commit_ok", "commit_expired", "end"}
           \subseteq Steps
    BY DEF Steps
  <2>3. \E p \in Processes, n \in Steps : Goto(p, n)
    BY <1>9, <1>p, <2>2
       DEF Submit, HandleOk, PublishCompleted, PutResult, HandleExpired, HybridTimeout
  <2> QED
    BY <1>4, <1>k, <2>1, <2>3
<1>10. ASSUME PutAccepted
       PROVE  Goal
  <2>1. entry' = Entry("accepted", None, None, "pending")
    BY <1>10 DEF PutAccepted
  <2>2. entry' \in Entries /\ \A f \in DOMAIN entry' : <<f, entry'[f]>> \notin Premature
    BY <2>1, Changes DEF Entry, Premature, None
  <2>3. AfterAccept \in Steps
    BY DEF AfterAccept, Steps
  <2> QED
    BY <1>4, <1>10, <1>p, <2>2, <2>3 DEF PutAccepted
<1>11. ASSUME HybridPoll \/ HybridReadResult
       PROVE  Goal
  <2>1. entry' = entry
    BY <1>11 DEF HybridPoll, HybridReadResult
  <2>2. "read_result" \in Steps /\ "end" \in Steps
    BY DEF Steps
  <2> QED
    BY <1>2, <1>3, <1>11, <1>k, <1>p, <2>1, <2>2 DEF HybridPoll, HybridReadResult
<1>12. ASSUME OnlinePoll \/ OfflineRetry
       PROVE  Goal
  <2>1. /\ \A f \in DOMAIN [status |-> "running"] :
               <<f, [status |-> "running"][f]>> \notin Premature'
        /\ \A f \in DOMAIN [offline |-> "retrying"] :
               <<f, [offline |-> "retrying"][f]>> \notin Premature'
    BY DEF Premature
  <2> QED
    BY <1>1, <1>12, <1>p, <2>1, Changes DEF OnlinePoll, OfflineRetry
<1>13. ASSUME CommitOk
       PROVE  Goal
  <2> DEFINE c == Entry("completed", "written", "pending", "pending")
  <2>0. result'
    BY <1>13 DEF CommitOk, WorkerInv, data
  <2>1. \A f \in DOMAIN c : <<f, c[f]>> \notin Premature'
    BY <2>0 DEF Entry, Premature
  <2> QED
    BY <1>1, <1>13, <1>p, <2>1, Changes DEF CommitOk
<1>14. ASSUME CommitExpired
       PROVE  Goal
  <2> DEFINE c == Entry("completed", "deadline_expired", None, "pending")
  <2>1. "expired" \in published'
    BY <1>14 DEF CommitExpired, WorkerInv, data
  <2>2. \A f \in DOMAIN c : <<f, c[f]>> \notin Premature'
    BY <2>1 DEF Entry, Premature, None
  <2> QED
    BY <1>1, <1>14, <1>p, <2>2, Changes DEF CommitExpired
<1>15. ASSUME HandleFailed
       PROVE  Goal
  <2>1. \A f \in DOMAIN [status |-> "running"] :
            <<f, [status |-> "running"][f]>> \notin Premature'
    BY DEF Premature
  <2>2. publish("dlq_online") =>
            \A f \in DOMAIN [status |-> "failed"] :
               <<f, [status |-> "failed"][f]>> \notin Premature'
    BY DEF Premature, publish
  <2> QED
    BY <1>1, <1>15, <1>p, <2>1, <2>2, Changes DEF HandleFailed
<1>16. ASSUME OfflineWrite
       PROVE  Goal
  <2> DEFINE c == [status |-> "completed", offline |-> "written"]
  <2>1. \A f \in DOMAIN c : <<f, c[f]>> \notin Premature'
    BY <1>16 DEF OfflineWrite, Premature
  <2> QED
    BY <1>1, <1>16, <1>p, <2>1, Changes DEF OfflineWrite
<1>17. ASSUME OfflineDeadLetter
       PROVE  Goal
  <2>1. \A f \in DOMAIN [offline |-> "failed_dlq"] :
            <<f, [offline |-> "failed_dlq"][f]>> \notin Premature'
    BY DEF Premature
  <2> QED
    BY <1>1, <1>17, <1>p, <2>1, Changes DEF OfflineDeadLetter
<1>m. /\ IsChange([metadata |-> "written"])
      /\ durable'.online # None /\ Completions \cap published' # {} =>
            \A f \in DOMAIN [metadata |-> "written"] :
               <<f, [metadata |-> "written"][f]>> \notin Premature'
  BY Changes DEF Premature
<1>18. ASSUME NEW w \in MetadataWriters, UpsertRequest(w)
       PROVE  Goal
  <2> DEFINE r == held[w].row
             e == held[w].event
  <2>1. /\ entry' = entry /\ published' = published /\ held[w] # NoWork
        /\ durable' = merge_request(r, projection(e))
    BY <1>18 DEF UpsertRequest, Upsert
  <2>2. r \in Snapshot /\ e \in published /\ published \subseteq Events \ {"dlq_metadata"}
    BY <2>1 DEF TypeStores, RowInv
  <2>3. CASE e \in Completions
    <3>1. durable'.online # None /\ Completions \cap published' # {}
      BY <2>1, <2>2, <2>3, MergeFacts
    <3>2. Update(w, [metadata |-> "written"], "poll")
      BY <1>18, <2>3 DEF UpsertRequest, Completions
    <3> QED
      BY <1>1, <1>m, <1>p, <2>1, <3>1, <3>2
  <2>4. CASE e \notin Completions
    BY <1>5, <1>18, <2>1, <2>4 DEF UpsertRequest, Completions
  <2> QED
    BY <2>3, <2>4
<1>w. ASSUME NEW w \in MetadataWriters,
             AbandonEvent(w) \/ \E e \in Events : SelectRequest(w, e)
      PROVE  Goal
  BY <1>5, <1>w DEF SelectRequest, AbandonEvent
<1>19. ASSUME GetStatus
       PROVE  Goal
  <2>1. "reconcile" \in Steps
    BY DEF Steps
  <2> QED
    BY <1>3, <1>19, <1>p, <2>1 DEF GetStatus
<1>20. ASSUME Reconcile
       PROVE  Goal
  <2> DEFINE proven == seen["get"].metadata = "pending" /\ durable.status = "completed"
  <2>1. entry' = entry /\ UNCHANGED <<durable, published>>
    BY <1>20 DEF Reconcile, rows
  <2>2. CASE ~proven
    <3>1. Return("get", "poll") /\ "poll" \in Steps
      BY <1>20, <2>2 DEF Reconcile, Steps
    <3> QED
      BY <1>2, <1>k, <1>p, <2>1, <3>1
  <2>3. CASE proven
    <3>1. /\ upd' = [upd EXCEPT !["get"] = [metadata |-> "written"]]
          /\ ret' = [ret EXCEPT !["get"] = "poll"]
          /\ pc' = [pc EXCEPT !["get"] = "status_put"] /\ seen' = seen
      BY <1>20, <2>3 DEF Reconcile, Goto
    <3>2. durable'.online # None /\ Completions \cap published' # {}
      BY <2>1, <2>3 DEF RowInv, Row
    <3>3. TypeCopies'
      BY <1>m, <2>1, <3>1 DEF TypeCopies, Steps
    <3>4. CopiesInv'
      BY <1>g, <1>m, <2>1, <3>1, <3>2 DEF CopiesInv, TypeCopies, Good
    <3> QED
      BY <3>3, <3>4 DEF Goal
  <2> QED
    BY <2>2, <2>3
<1>21. ASSUME CrashOnline
       PROVE  Goal
  <2>1. entry' = entry /\ "end" \in Steps /\ "poll" \in Steps
    BY <1>21 DEF CrashOnline, Steps
  <2> QED
    BY <1>2, <1>21, <1>k, <1>p, <2>1 DEF CrashOnline
<1>22. ASSUME UNCHANGED vars
       PROVE  Goal
  BY <1>5, <1>22 DEF vars, Locals
<1>23. ASSUME OnlineStep \/ OfflineStep
       PROVE  Goal
  BY <1>6, <1>7, <1>9, <1>12, <1>13, <1>14, <1>15, <1>16, <1>17, <1>23, <1>p
     DEF OnlineStep, OfflineStep
<1>24. ASSUME MetadataStep \/ GetStep
       PROVE  Goal
  BY <1>6, <1>7, <1>18, <1>w, <1>19, <1>20, <1>24, <1>p DEF MetadataStep, GetStep
<1> QED
  BY <1>w, <1>8, <1>9, <1>10, <1>11, <1>21, <1>22, <1>23, <1>24 DEF Next

-----------------------------------------------------------------------------
(* The worker's steps come after the publications they presume.            *)
LEMMA WorkerStep ==
  ASSUME TypeCopies, WorkerInv, Grows, [Next]_vars
  PROVE  WorkerInv'
<1> DEFINE Away == {"submit", "put_accepted", "wait", "read_result", "poll", "handle",
                    "reconcile", "status_get", "status_put", "end"}
<1>p. /\ {"api", "online", "offline", "get"} \cup MetadataWriters \subseteq Processes
      /\ "online" \notin MetadataWriters
  BY RequestStatusAssumption DEF Processes
<1>1. ASSUME pc'["online"] \in Away \cup {pc["online"]}, result' = result
      PROVE  WorkerInv'
  BY <1>1 DEF WorkerInv, Grows
<1>2. ASSUME NEW p \in Processes, NEW n \in Away, Goto(p, n), result' = result
      PROVE  WorkerInv'
  BY <1>1, <1>2, <1>p DEF Goto, TypeCopies
<1>3. ASSUME NEW p \in Processes, p # "online", NEW n, Goto(p, n), result' = result
      PROVE  WorkerInv'
  BY <1>1, <1>3, <1>p DEF Goto, TypeCopies
<1> HIDE DEF Away
<1>4. ASSUME NEW p \in Processes, StatusGet(p) \/ StatusPut(p) \/ StatusLost(p)
      PROVE  WorkerInv'
  <2>1. result' = result
    BY <1>4 DEF StatusGet, StatusPut, StatusLost, data
  <2>2. ret[p] \in Away /\ "status_put" \in Away /\ AfterAccept \in Away
    BY DEF TypeCopies, AfterAccept, Away
  <2>3. \E n \in Away : Goto(p, n)
    BY <1>4, <2>2 DEF StatusGet, StatusPut, StatusLost, Return
  <2> QED
    BY <1>2, <2>1, <2>3
<1>5. ASSUME Submit \/ PutAccepted \/ HybridPoll \/ HybridReadResult \/ HybridTimeout
      PROVE  WorkerInv'
  <2>1. result' = result /\ \E n : Goto("api", n)
    BY <1>5 DEF Submit, PutAccepted, HybridPoll, HybridReadResult, HybridTimeout, Return, data
  <2> QED
    BY <1>3, <1>p, <2>1
<1>6. ASSUME OnlinePoll \/ CommitOk \/ CommitExpired \/ HandleFailed
      PROVE  WorkerInv'
  <2>1. result' = result /\ Goto("online", "status_get")
    BY <1>6 DEF OnlinePoll, CommitOk, CommitExpired, HandleFailed, Update, data
  <2>2. "status_get" \in Away
    BY DEF Away
  <2> QED
    BY <1>2, <1>p, <2>1, <2>2
<1>7. ASSUME HandleOk \/ PublishCompleted \/ PutResult \/ HandleExpired
      PROVE  WorkerInv'
  BY <1>7, <1>p
     DEF HandleOk, PublishCompleted, PutResult, HandleExpired, publish, Goto, TypeCopies,
         WorkerInv
<1>8. ASSUME OfflineWrite \/ OfflineRetry \/ OfflineDeadLetter
      PROVE  WorkerInv'
  <2>1. result' = result /\ Goto("offline", "status_get")
    BY <1>8 DEF OfflineWrite, OfflineRetry, OfflineDeadLetter, Update, data
  <2> QED
    BY <1>3, <1>p, <2>1
<1>9. ASSUME NEW w \in MetadataWriters,
             UpsertRequest(w) \/ AbandonEvent(w) \/ \E e \in Events : SelectRequest(w, e)
      PROVE  WorkerInv'
  <2>1. result' = result /\ (pc' = pc \/ Goto(w, "status_get"))
    BY <1>9 DEF UpsertRequest, Upsert, AbandonEvent, SelectRequest, Update
  <2> QED
    BY <1>1, <1>3, <1>p, <2>1
<1>10. ASSUME GetStatus \/ Reconcile
       PROVE  WorkerInv'
  <2>1. result' = result /\ \E n : Goto("get", n)
    BY <1>10 DEF GetStatus, Reconcile, Return, data
  <2> QED
    BY <1>3, <1>p, <2>1
<1>11. ASSUME CrashOnline
       PROVE  WorkerInv'
  <2>1. result' = result /\ \E n \in Away : Goto("online", n)
    BY <1>11 DEF CrashOnline, Return, data, Away
  <2> QED
    BY <1>2, <1>p, <2>1
<1>12. ASSUME UNCHANGED vars
       PROVE  WorkerInv'
  BY <1>1, <1>12 DEF vars, data
<1>13. ASSUME OnlineStep \/ OfflineStep
       PROVE  WorkerInv'
  BY <1>4, <1>6, <1>7, <1>8, <1>13, <1>p DEF OnlineStep, OfflineStep
<1>14. ASSUME MetadataStep \/ GetStep
       PROVE  WorkerInv'
  BY <1>4, <1>9, <1>10, <1>14, <1>p DEF MetadataStep, GetStep
<1> QED
  BY <1>4, <1>5, <1>9, <1>11, <1>12, <1>13, <1>14 DEF Next

(* What a client was told is taken from a copy of the entry, or from the   *)
(* durable row, and stays true.                                            *)
LEMMA RepliesStep ==
  ASSUME TypeCopies, CopiesInv, RowInv, ResponseInv, AnswerInv, Grows, [Next]_vars
  PROVE  ResponseInv' /\ AnswerInv'
<1>p. /\ {"api", "online", "offline", "get"} \cup MetadataWriters \subseteq Processes
      /\ "online" \notin MetadataWriters
  BY RequestStatusAssumption DEF Processes
<1>c. ASSUME NEW c \in Entries, Good(c)
      PROVE  /\ c.metadata = "written" =>
                   Completions \cap published # {} /\ (durable.online # None \/ overwritten)
             /\ c.online = "written" => result
             /\ c.offline = "written" => history
             /\ c.online = "deadline_expired" => "expired" \in published
             /\ c.status = "failed" => "dlq_online" \in published
  <2>1. DOMAIN c = {"status", "online", "offline", "metadata"}
    BY DEF Entries
  <2> QED
    BY <1>c, <2>1 DEF Good, Premature
<1>1. ASSUME response' = response
      PROVE  ResponseInv'
  BY <1>1 DEF ResponseInv, Grows
<1>2. ASSUME answer' = answer
      PROVE  AnswerInv'
  BY <1>2 DEF AnswerInv, Grows
<1>3. ASSUME HybridPoll
      PROVE  ResponseInv' /\ AnswerInv'
  <2>1. UNCHANGED <<response, history, published, result>>
    BY <1>3 DEF HybridPoll
  <2>2. /\ entry.offline = "written" => history
        /\ entry.online = "deadline_expired" => "expired" \in published
        /\ entry.status = "failed" => "dlq_online" \in published
    BY <1>c DEF CopiesInv, TypeCopies
  <2>3. AnswerInv'
    <3>1. CASE answer' = answer
      BY <1>2, <3>1
    <3>2. CASE entry.online = "deadline_expired"
               /\ answer' = Answer("deadline_expired", FALSE, entry.offline)
      BY <2>1, <2>2, <3>2 DEF AnswerInv, Answer
    <3>3. CASE entry.status = "failed" /\ answer' = Answer("failed", FALSE, None)
      BY <2>1, <2>2, <3>3 DEF AnswerInv, Answer, None
    <3> QED
      BY <1>3, <3>1, <3>2, <3>3 DEF HybridPoll
  <2> QED
    BY <1>1, <2>1, <2>3
<1>4. ASSUME HybridReadResult
      PROVE  ResponseInv' /\ AnswerInv'
  <2>1. UNCHANGED <<response, history, published, result>>
    BY <1>4 DEF HybridReadResult
  <2>2. seen["api"].offline = "written" => history
    BY <1>c, <1>p DEF CopiesInv, TypeCopies
  <2>3. PICK read \in {result, FALSE} : answer' = Answer("completed", read, seen["api"].offline)
    BY <1>4 DEF HybridReadResult
  <2>4. /\ answer'.status = "completed" /\ answer'.offline = seen["api"].offline
        /\ answer'.values = read
    BY <2>3 DEF Answer
  <2>5. answer'.values => result
    <3>1. read => result
      BY Zenon
    <3> QED
      BY <2>4, <3>1
  <2>6. AnswerInv'
    BY <2>1, <2>2, <2>4, <2>5 DEF AnswerInv
  <2> QED
    BY <1>1, <2>1, <2>6
<1>5. ASSUME HybridTimeout
      PROVE  ResponseInv' /\ AnswerInv'
  <2>1. response' = response
    BY <1>5 DEF HybridTimeout
  <2>2. answer' \in {Answer("pending", FALSE, None), Answer("deadline_passed", FALSE, None)}
    BY <1>5 DEF HybridTimeout
  <2>3. AnswerInv'
    BY <2>2 DEF AnswerInv, Answer, None
  <2> QED
    BY <1>1, <2>1, <2>3
<1>6. ASSUME Reconcile
      PROVE  ResponseInv' /\ AnswerInv'
  <2>1. UNCHANGED <<answer, history, result, published, durable, overwritten>>
    BY <1>6 DEF Reconcile, rows
  <2> DEFINE old == seen["get"]
             proven == old.metadata = "pending" /\ durable.status = "completed"
             repaired == [old EXCEPT !.metadata = "written"]
  <2>2. old \in Entries /\ Good(old)
    BY <1>p DEF CopiesInv, TypeCopies
  <2>3. CASE proven
    <3>1. response' = Claims(repaired)
      BY <1>6, <2>3 DEF Reconcile
    <3>2. repaired.offline = old.offline /\ repaired.online = old.online
      BY <2>2 DEF Entries
    <3>3. response'.offline = old.offline /\ response'.online = old.online
      BY <3>1, <3>2 DEF Claims
    <3>4. durable.online # None /\ Completions \cap published # {}
      BY <2>3 DEF RowInv, Row
    <3> QED
      BY <1>2, <1>c, <2>1, <2>2, <3>3, <3>4 DEF ResponseInv
  <2>4. CASE ~proven
    <3>1. response' = Claims(old)
      BY <1>6, <2>4 DEF Reconcile
    <3>2. /\ response'.offline = old.offline /\ response'.online = old.online
          /\ response'.metadata = old.metadata
      BY <3>1 DEF Claims
    <3> QED
      BY <1>2, <1>c, <2>1, <2>2, <3>2 DEF ResponseInv
  <2> QED
    BY <2>3, <2>4
<1>7. ASSUME UNCHANGED <<response, answer>>
      PROVE  ResponseInv' /\ AnswerInv'
  BY <1>1, <1>2, <1>7
<1>8. ASSUME NEW p \in Processes, StatusGet(p) \/ StatusPut(p) \/ StatusLost(p)
      PROVE  ResponseInv' /\ AnswerInv'
  BY <1>7, <1>8 DEF StatusGet, StatusPut, StatusLost, data
<1>9. ASSUME OnlinePoll \/ HandleOk \/ PublishCompleted \/ PutResult \/ HandleExpired
      PROVE  ResponseInv' /\ AnswerInv'
  BY <1>7, <1>9 DEF OnlinePoll, HandleOk, PublishCompleted, PutResult, HandleExpired, data
<1>10. ASSUME CommitOk \/ CommitExpired \/ HandleFailed
       PROVE  ResponseInv' /\ AnswerInv'
  BY <1>7, <1>10 DEF CommitOk, CommitExpired, HandleFailed, data
<1>11. ASSUME OfflineWrite \/ OfflineRetry \/ OfflineDeadLetter
       PROVE  ResponseInv' /\ AnswerInv'
  BY <1>7, <1>11 DEF OfflineWrite, OfflineRetry, OfflineDeadLetter, data
<1>12. ASSUME NEW w \in MetadataWriters,
              UpsertRequest(w) \/ AbandonEvent(w) \/ \E e \in Events : SelectRequest(w, e)
       PROVE  ResponseInv' /\ AnswerInv'
  BY <1>7, <1>12 DEF UpsertRequest, Upsert, AbandonEvent, SelectRequest
<1>13. ASSUME Submit \/ PutAccepted \/ GetStatus \/ CrashOnline \/ UNCHANGED vars
       PROVE  ResponseInv' /\ AnswerInv'
  BY <1>7, <1>13 DEF Submit, PutAccepted, GetStatus, CrashOnline, vars, data
<1>14. ASSUME OnlineStep \/ OfflineStep
       PROVE  ResponseInv' /\ AnswerInv'
  BY <1>8, <1>9, <1>10, <1>11, <1>14, <1>p DEF OnlineStep, OfflineStep
<1>15. ASSUME MetadataStep \/ GetStep
       PROVE  ResponseInv' /\ AnswerInv'
  BY <1>6, <1>8, <1>12, <1>13, <1>15, <1>p DEF MetadataStep, GetStep
<1> QED
  BY <1>3, <1>4, <1>5, <1>8, <1>12, <1>13, <1>14, <1>15 DEF Next

(* The bounds are respected.                                               *)
LEMMA BoundsStep == TypeBounds /\ [Next]_vars => TypeBounds'
<1> SUFFICES ASSUME TypeBounds, [Next]_vars
             PROVE  TypeBounds'
  OBVIOUS
<1>n. instance.max_crashes \in Nat /\ instance.max_lost \in Nat /\ MaxAttempts \in Nat
  BY RequestStatusAssumption DEF TypeBounds
<1>1. ASSUME UNCHANGED bounds
      PROVE  TypeBounds'
  BY <1>1 DEF bounds, TypeBounds
<1>2. ASSUME instance' = instance, UNCHANGED <<attempt, lost>>,
             crashes < instance.max_crashes, crashes' = crashes + 1
      PROVE  TypeBounds'
  BY <1>n, <1>2 DEF TypeBounds
<1>3. ASSUME NEW p \in Processes, StatusLost(p)
      PROVE  TypeBounds'
  BY <1>n, <1>3 DEF StatusLost, TypeBounds
<1>4. ASSUME NEW p \in Processes, StatusGet(p) \/ StatusPut(p)
      PROVE  TypeBounds'
  BY <1>1, <1>4 DEF StatusGet, StatusPut
<1>5. ASSUME Submit \/ PutAccepted \/ HybridPoll \/ HybridReadResult \/ HybridTimeout
      PROVE  TypeBounds'
  BY <1>1, <1>5 DEF Submit, PutAccepted, HybridPoll, HybridReadResult, HybridTimeout
<1>6. ASSUME HandleFailed
      PROVE  TypeBounds'
  BY <1>n, <1>6 DEF HandleFailed, TypeBounds
<1>7. ASSUME OnlinePoll \/ HandleOk \/ PublishCompleted \/ PutResult \/ HandleExpired
      PROVE  TypeBounds'
  BY <1>1, <1>7 DEF OnlinePoll, HandleOk, PublishCompleted, PutResult, HandleExpired
<1>8. ASSUME CommitOk \/ CommitExpired \/ OfflineWrite \/ OfflineRetry \/ OfflineDeadLetter
      PROVE  TypeBounds'
  BY <1>1, <1>8 DEF CommitOk, CommitExpired, OfflineWrite, OfflineRetry, OfflineDeadLetter
<1>9. ASSUME NEW w \in MetadataWriters,
             UpsertRequest(w) \/ AbandonEvent(w) \/ \E e \in Events : SelectRequest(w, e)
      PROVE  TypeBounds'
  BY <1>1, <1>2, <1>9 DEF UpsertRequest, Upsert, AbandonEvent, SelectRequest, bounds
<1>10. ASSUME GetStatus \/ Reconcile
       PROVE  TypeBounds'
  BY <1>1, <1>10 DEF GetStatus, Reconcile
<1>11. ASSUME CrashOnline
       PROVE  TypeBounds'
  BY <1>2, <1>11 DEF CrashOnline
<1>12. CASE UNCHANGED vars
  BY <1>1, <1>12 DEF vars
<1>p. /\ {"api", "online", "offline", "get"} \cup MetadataWriters \subseteq Processes
      /\ "online" \notin MetadataWriters
  BY RequestStatusAssumption DEF Processes
<1>13. ASSUME OnlineStep \/ OfflineStep
       PROVE  TypeBounds'
  BY <1>4, <1>6, <1>7, <1>8, <1>13, <1>p DEF OnlineStep, OfflineStep
<1>14. ASSUME MetadataStep \/ GetStep
       PROVE  TypeBounds'
  BY <1>4, <1>9, <1>10, <1>14, <1>p DEF MetadataStep, GetStep
<1> QED
  BY <1>3, <1>5, <1>9, <1>11, <1>12, <1>13, <1>14 DEF Next

-----------------------------------------------------------------------------
(* Together.                                                               *)
IInv == TypeOK /\ StatusInv

(* It holds when nothing has been submitted ...                            *)
LEMMA IInvInit == Init => IInv
<1> SUFFICES ASSUME Init
             PROVE  IInv
  OBVIOUS
<1>1. TypeStores
  BY DEF Init, TypeStores, Snapshot, NoWork
<1>2. TypeCopies
  BY Changes DEF Init, TypeCopies, Steps
<1>3. TypeBounds
  BY RequestStatusAssumption DEF Init, TypeBounds
<1>4. CopiesInv
  BY DEF Init, CopiesInv, Good, NoEntry, Entry, Nothing, Premature, None
<1>5. RowInv /\ ResponseInv /\ AnswerInv
  BY DEF Init, RowInv, Row, ResponseInv, AnswerInv, NoRow, Claims, NoEntry, Entry, Answer, None
<1>6. WorkerInv
  BY DEF Init, WorkerInv, Processes
<1> QED
  BY <1>1, <1>2, <1>3, <1>4, <1>5, <1>6, TypeParts DEF IInv, StatusInv

(* ... and every step preserves it.                                        *)
LEMMA IInvStep == IInv /\ [Next]_vars => IInv'
<1> SUFFICES ASSUME IInv, [Next]_vars
             PROVE  IInv'
  OBVIOUS
<1>1. TypeStores /\ TypeCopies /\ TypeBounds
  BY TypeParts DEF IInv
<1>2. CopiesInv /\ RowInv /\ WorkerInv /\ ResponseInv /\ AnswerInv
  BY DEF IInv, StatusInv
<1>3. TypeStores' /\ RowInv' /\ Grows
  BY <1>1, <1>2, StoresStep
<1>4. TypeCopies' /\ CopiesInv'
  BY <1>1, <1>2, <1>3, CopiesStep
<1>5. WorkerInv' /\ ResponseInv' /\ AnswerInv'
  BY <1>1, <1>2, <1>3, WorkerStep, RepliesStep
<1>6. TypeBounds'
  BY <1>1, BoundsStep
<1> QED
  BY <1>3, <1>4, <1>5, <1>6, TypeParts DEF IInv, StatusInv

(* Every reachable state is well typed.                                    *)
THEOREM TypeCorrect == Spec => []TypeOK
  BY IInvInit, IInvStep, PTL DEF Spec, IInv

(* What the entry, the status endpoint and the hybrid endpoint say of the  *)
(* durable row, of history, of the result and of the request's fate is     *)
(* true, although the entry is updated by a get and a set with no check in *)
(* between - of the durable row as long as no upsert has replaced a row it *)
(* had not read.                                                           *)
THEOREM StatusIsTrue == Spec => []ClaimsAreTrue
<1>1. IInv => ClaimsAreTrue
  <2> SUFFICES ASSUME IInv
               PROVE  ClaimsAreTrue
    OBVIOUS
  <2>1. TypeCopies /\ CopiesInv /\ ResponseInv /\ AnswerInv /\ WorkerInv
    BY TypeParts DEF IInv, StatusInv
  <2>2. DOMAIN entry = {"status", "online", "offline", "metadata"}
    BY <2>1 DEF TypeCopies, Entries
  <2>3. ASSUME NEW c \in {Claims(entry), response}
        PROVE  /\ c.metadata = "written" =>
                     /\ Completions \cap published # {}
                     /\ durable.online # None \/ overwritten
               /\ c.online = "written" => result
               /\ c.offline = "written" => history
    <3>1. /\ entry.metadata = "written" =>
                Completions \cap published # {} /\ (durable.online # None \/ overwritten)
          /\ entry.online = "written" => result
          /\ entry.offline = "written" => history
      BY <2>1, <2>2 DEF CopiesInv, Good, Premature
    <3> QED
      BY <2>1, <3>1 DEF Claims, ResponseInv
  <2> QED
    BY <2>1, <2>3 DEF ClaimsAreTrue, AnswerInv, WorkerInv, Completions
<1> QED
  BY <1>1, IInvInit, IInvStep, PTL DEF Spec
=============================================================================
