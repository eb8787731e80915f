---------------------------- MODULE MetadataProofs ----------------------------
(***************************************************************************)
(* The metadata writer's two projections.  The durable request row, for    *)
(* any number of writers and any order and number of deliveries: a         *)
(* terminal status never regresses, and once every event is committed the  *)
(* row says what became of the request.  The audit of a batch job (module  *)
(* BatchMetadata, here B), for any chunks, results and writers: once every *)
(* event is projected the job row agrees with the chunk rows.              *)
(***************************************************************************)
EXTENDS MetadataProjection, BatchAudit, TLAPS

-----------------------------------------------------------------------------
(* The request row.                                                        *)

(* A row that exists, and the events whose handler upserts one.            *)
Rows == Snapshot \ {NoRow}
Projecting(e) == projection(e) # NoRow

(* The steps of a writer that come after its event's upsert.               *)
AfterUpsert(step, e) ==
    step \in {"dead_letter", "commit"} \/ (step = "append_event" /\ ~AuditFirst(e))

-----------------------------------------------------------------------------
(* The row algebra of merge_request.                                       *)

(* No row says nothing.                                                    *)
LEMMA NoRowFields ==
  NoRow.status = "no row" /\ NoRow.status \notin TERMINAL
  /\ NoRow.online = None /\ NoRow.offline = None
  BY DEF NoRow, TERMINAL

(* A row has a status a request can have, or none yet.                     *)
LEMMA RowFields ==
  /\ \A r \in Rows : /\ r = [status |-> r.status, online |-> r.online, offline |-> r.offline]
                     /\ r.status \in {None, "accepted"} \cup TERMINAL
                     /\ r.online \in OnlineStatuses
                     /\ r.offline \in {None, "pending", "failed_dlq"}
  /\ \A s \in {None, "accepted"} \cup TERMINAL, n \in OnlineStatuses,
        f \in {None, "pending", "failed_dlq"} : Partial(s, n, f) \in Rows
<1>1. Rows = [status : {None, "accepted"} \cup TERMINAL, online : OnlineStatuses,
              offline : {None, "pending", "failed_dlq"}]
  <2>1. NoRow.status \notin {None, "accepted"} \cup TERMINAL
    BY DEF NoRow, None, TERMINAL
  <2>2. \A r \in [status : {None, "accepted"} \cup TERMINAL, online : OnlineStatuses,
                  offline : {None, "pending", "failed_dlq"}] : r # NoRow
    BY <2>1
  <2> QED
    BY <2>2 DEF Rows, Snapshot
<1> QED
  BY <1>1 DEF Partial

(* Every handler but the one for the metadata writer's own dead letters    *)
(* upserts a row.                                                          *)
LEMMA ProjectionFacts ==
  /\ \A e \in Events : Projecting(e) => projection(e) \in Rows
  /\ Projecting("requested") /\ projection("requested").status = "accepted"
  /\ \A e \in Events : ~Projecting(e) => e = "dlq_metadata"
<1>1. \A e \in Events : e # "dlq_metadata" => projection(e) \in Rows
  BY RowFields DEF Events, projection, TERMINAL, OnlineStatuses
<1>2. projection("dlq_metadata") = NoRow
  BY DEF projection
<1>3. projection("requested").status = "accepted"
  BY DEF projection, Partial
<1>4. NoRow \notin Rows
  BY DEF Rows
<1>5. "requested" \in Events /\ "requested" # "dlq_metadata"
  BY DEF Events
<1> QED
  BY <1>1, <1>2, <1>3, <1>4, <1>5 DEF Projecting

(* merge_request column by column: a terminal status is only replaced by   *)
(* another outcome, a column that is set is never cleared, and each column *)
(* comes from one of the two rows.                                         *)
LEMMA MergeFacts ==
  ASSUME NEW r \in Snapshot, NEW p \in Rows
  PROVE  LET m == merge_request(r, p) IN
         /\ m \in Rows
         /\ m.status \in {r.status, p.status} \ {"no row"}
         /\ m.online \in {r.online, p.online}
         /\ m.offline \in {r.offline, p.offline}
         /\ r.status \in TERMINAL \/ p.status \in TERMINAL => m.status \in TERMINAL
         /\ r.status \notin {None, "no row"} \/ p.status # None => m.status # None
         /\ r.online # None \/ p.online # None => m.online # None
         /\ r.offline # None \/ p.offline # None => m.offline # None
<1> DEFINE m == merge_request(r, p)
<1>1. CASE r = NoRow
  <2>1. m = p
    BY <1>1 DEF merge_request
  <2> QED
    BY <1>1, <2>1, RowFields DEF NoRow, TERMINAL, None
<1>2. CASE r # NoRow
  <2>1. r \in Rows
    BY <1>2 DEF Rows
  <2>2. DOMAIN r = {"status", "online", "offline"}
    BY <2>1, RowFields
  <2>3. m = [f \in {"status", "online", "offline"} |->
               IF /\ f = "status" /\ r.status \in TERMINAL
                  /\ p.status \in {"accepted", "running"}
               THEN r.status ELSE pick(p[f], r[f])]
    BY <1>2, <2>2 DEF merge_request
  <2>4. /\ m.status = IF r.status \in TERMINAL /\ p.status \in {"accepted", "running"}
                      THEN r.status ELSE pick(p.status, r.status)
        /\ m.online = pick(p.online, r.online)
        /\ m.offline = pick(p.offline, r.offline)
    BY <2>3
  <2>5. m = Partial(m.status, m.online, m.offline)
    BY <2>3 DEF Partial
  <2>6. /\ m.status \in {None, "accepted"} \cup TERMINAL
        /\ m.online \in OnlineStatuses
        /\ m.offline \in {None, "pending", "failed_dlq"}
    BY <2>1, <2>4, RowFields DEF pick
  <2>7. m \in Rows
    BY <2>5, <2>6, RowFields
  <2> QED
    BY <2>1, <2>4, <2>6, <2>7, RowFields DEF pick, TERMINAL, None
<1> QED
  BY <1>1, <1>2

-----------------------------------------------------------------------------
(* Types.  Three parts, so that each step shows only what it disturbs.     *)
TypeSets ==
    /\ published \subseteq Events /\ committed \subseteq published
    /\ durable \in Snapshot /\ audit \subseteq published
    /\ overwritten \in BOOLEAN
TypeWriters ==
    /\ pc \in [Writers -> {"poll", "select", "upsert", "append_event",
                           "dead_letter", "commit"}]
    /\ event \in [Writers -> Events \cup {None}]
    /\ \A w \in Writers : pc[w] # "poll" => event[w] \in published
    /\ seen \in [Writers -> Snapshot]
TypeBounds == redeliveries \in 0..MaxRedeliveries /\ faults \in 0..MaxFaults

(* The type invariant is the conjunction of its parts.                     *)
LEMMA TypeParts ==
  /\ TypeOK <=> TypeSets /\ TypeWriters /\ TypeBounds
  /\ TypeOK' <=> TypeSets' /\ TypeWriters' /\ TypeBounds'
  BY DEF TypeOK, TypeSets, TypeWriters, TypeBounds

(* A writer that is about to read or write the row holds an event whose    *)
(* handler projects one; the first event of a request is its submission.   *)
StepInv ==
    /\ published # {} => "requested" \in published
    /\ \A w \in Writers : pc[w] \in {"select", "upsert"} => Projecting(event[w])

(* The types with what they rest on.                                       *)
TypeInv == TypeOK /\ StepInv

(* The types and the step of each writer are preserved by every action.    *)
LEMMA TypeStep == TypeInv /\ [Next]_vars => TypeInv'
<1> SUFFICES ASSUME TypeInv, [Next]_vars
             PROVE  TypeInv'
  OBVIOUS
<1>t. TypeSets /\ TypeWriters /\ TypeBounds /\ StepInv
  BY TypeParts DEF TypeInv
<1> SUFFICES TypeSets' /\ TypeWriters' /\ TypeBounds' /\ StepInv'
  BY TypeParts DEF TypeInv
<1>a. MaxRedeliveries \in Nat /\ MaxFaults \in Nat /\ Published \subseteq Events
      /\ Conflicting \subseteq {"requested"}
  BY MetadataProjectionAssumption
<1>b. NoRow \in Snapshot /\ Rows \subseteq Snapshot
  BY DEF Snapshot, Rows
<1>c. "dlq_metadata" \in Events
  BY DEF Events
<1>1. ASSUME NEW e \in Published, Publish(e)
      PROVE  TypeSets' /\ TypeWriters' /\ TypeBounds' /\ StepInv'
  BY <1>t, <1>a, <1>1 DEF TypeSets, TypeWriters, TypeBounds, StepInv, Publish, bounds
<1>2. ASSUME NEW w \in Writers, NEW e \in Events, Poll(w, e)
      PROVE  TypeSets' /\ TypeWriters' /\ TypeBounds' /\ StepInv'
  <2>1. TypeSets'
    BY <1>t, <1>2 DEF TypeSets, Poll
  <2>2. TypeWriters'
    BY <1>t, <1>2 DEF TypeWriters, Poll, Goto
  <2>3. TypeBounds'
    BY <1>t, <1>a, <1>2 DEF TypeBounds, Poll
  <2>4. StepInv'
    <3>1. pc'[w] = "select" => ~AuditFirst(e)
      BY <1>t, <1>2 DEF TypeWriters, Poll, Goto
    <3>2. ~AuditFirst(e) => Projecting(e)
      BY ProjectionFacts DEF AuditFirst
    <3> QED
      BY <1>t, <1>2, <3>1, <3>2 DEF TypeWriters, StepInv, Poll, Goto
  <2> QED
    BY <2>1, <2>2, <2>3, <2>4
<1>3. ASSUME NEW w \in Writers, SelectRequest(w)
      PROVE  TypeSets' /\ TypeWriters' /\ TypeBounds' /\ StepInv'
  BY <1>t, <1>3 DEF TypeSets, TypeWriters, TypeBounds, StepInv, SelectRequest, Goto, bounds
<1>4. ASSUME NEW w \in Writers, UpsertRequest(w)
      PROVE  TypeSets' /\ TypeWriters' /\ TypeBounds' /\ StepInv'
  <2>1. event[w] \in Events /\ seen[w] \in Snapshot /\ Projecting(event[w])
    BY <1>t, <1>4 DEF TypeSets, TypeWriters, StepInv, UpsertRequest
  <2>2. projection(event[w]) \in Rows
    BY <2>1, ProjectionFacts
  <2>3. merge_request(seen[w], projection(event[w])) \in Snapshot
    BY <2>1, <2>2, <1>b, MergeFacts
  <2>4. TypeSets'
    BY <1>t, <1>4, <2>3 DEF TypeSets, UpsertRequest
  <2>5. TypeWriters' /\ TypeBounds' /\ StepInv'
    BY <1>t, <1>b, <1>4 DEF TypeWriters, TypeBounds, StepInv, UpsertRequest, Goto, bounds
  <2> QED
    BY <2>4, <2>5
<1>5. ASSUME NEW w \in Writers, AppendEvent(w)
      PROVE  TypeSets' /\ TypeWriters' /\ TypeBounds' /\ StepInv'
  BY <1>t, <1>5
     DEF TypeSets, TypeWriters, TypeBounds, StepInv, Projecting, AppendEvent, Goto, bounds
<1>6. ASSUME NEW w \in Writers, DeadLetter(w)
      PROVE  TypeSets' /\ TypeWriters' /\ TypeBounds' /\ StepInv'
  BY <1>t, <1>c, <1>6 DEF TypeSets, TypeWriters, TypeBounds, StepInv, DeadLetter, Goto, bounds
<1>7. ASSUME NEW w \in Writers, Commit(w)
      PROVE  TypeSets' /\ TypeWriters' /\ TypeBounds' /\ StepInv'
  BY <1>t, <1>b, <1>7 DEF TypeSets, TypeWriters, TypeBounds, StepInv, Commit, Return, Goto, bounds
<1>8. ASSUME NEW w \in Writers, Abandon(w)
      PROVE  TypeSets' /\ TypeWriters' /\ TypeBounds' /\ StepInv'
  BY <1>t, <1>a, <1>b, <1>8 DEF TypeSets, TypeWriters, TypeBounds, StepInv, Abandon, Return, Goto
<1>9. ASSUME NEW w \in Writers, Fail(w)
      PROVE  TypeSets' /\ TypeWriters' /\ TypeBounds' /\ StepInv'
  <2>1. event[w] \in published
    BY <1>t, <1>9 DEF TypeWriters, Fail
  <2>2. TypeSets'
    BY <1>t, <1>9, <2>1 DEF TypeSets, Fail
  <2> QED
    BY <1>t, <1>a, <1>b, <1>9, <2>2
       DEF TypeWriters, TypeBounds, StepInv, Fail, Return, Goto
<1>10. CASE UNCHANGED vars
  BY <1>t, <1>10 DEF TypeSets, TypeWriters, TypeBounds, StepInv, vars, bounds
<1> QED
  BY <1>1, <1>2, <1>3, <1>4, <1>5, <1>6, <1>7, <1>8, <1>9, <1>10 DEF Next, Step

(* They hold before anything is published.                                 *)
LEMMA TypeInit == Init => TypeInv
<1> SUFFICES ASSUME Init PROVE TypeInv
  OBVIOUS
<1>1. NoRow \in Snapshot
  BY DEF Snapshot
<1>2. TypeSets
  BY <1>1 DEF Init, TypeSets
<1>3. TypeWriters
  BY <1>1 DEF Init, TypeWriters
<1>4. TypeBounds
  BY MetadataProjectionAssumption DEF Init, TypeBounds
<1>5. StepInv
  BY DEF Init, StepInv
<1> QED
  BY <1>2, <1>3, <1>4, <1>5, TypeParts DEF TypeInv

(* Every reachable state is well typed, and a writer upserts only for an   *)
(* event whose handler projects a row.                                     *)
THEOREM TypeCorrect == Spec => [](TypeOK /\ StepInv)
  BY TypeInit, TypeStep, PTL DEF Spec, TypeInv

-----------------------------------------------------------------------------
(* An upsert whose read is still current keeps every column that is set    *)
(* and adds the event's own: nothing else changes the row.                 *)
LEMMA UpsertKeeps ==
  ASSUME TypeInv, NEW w \in Writers, UpsertRequest(w), ~overwritten'
  PROVE  LET p == projection(event[w]) IN
         /\ ~overwritten /\ durable' \in Rows
         /\ durable'.status \in {durable.status, p.status} \ {"no row"}
         /\ durable'.online \in {durable.online, p.online}
         /\ durable'.offline \in {durable.offline, p.offline}
         /\ durable.status \in TERMINAL \/ p.status \in TERMINAL
               => durable'.status \in TERMINAL
         /\ durable.status \notin {None, "no row"} \/ p.status # None
               => durable'.status # None
         /\ durable.online # None \/ p.online # None => durable'.online # None
         /\ durable.offline # None \/ p.offline # None => durable'.offline # None
<1>1. event[w] \in Events /\ Projecting(event[w]) /\ durable \in Snapshot
  BY TypeParts DEF TypeInv, TypeSets, TypeWriters, StepInv, UpsertRequest
<1>2. projection(event[w]) \in Rows
  BY <1>1, ProjectionFacts
<1>3. ~overwritten /\ durable' = merge_request(durable, projection(event[w]))
  BY DEF UpsertRequest
<1> QED
  BY <1>1, <1>2, <1>3, MergeFacts

(* The other actions leave the row, and what it records, alone.            *)
LEMMA RowUnchanged ==
  ASSUME [Next]_vars, ~\E w \in Writers : UpsertRequest(w)
  PROVE  durable' = durable /\ overwritten' = overwritten
<1>1. ASSUME NEW e \in Published, Publish(e)
      PROVE  durable' = durable /\ overwritten' = overwritten
  BY <1>1 DEF Publish
<1>2. ASSUME NEW w \in Writers, Step(w)
      PROVE  durable' = durable /\ overwritten' = overwritten
  BY <1>2 DEF Step, Poll, SelectRequest, AppendEvent, DeadLetter, Commit
<1>3. ASSUME NEW w \in Writers, Abandon(w) \/ Fail(w)
      PROVE  durable' = durable /\ overwritten' = overwritten
  BY <1>3 DEF Abandon, Fail
<1>4. CASE UNCHANGED vars
  BY <1>4 DEF vars
<1> QED
  BY <1>1, <1>2, <1>3, <1>4 DEF Next

(* upsert_request never moves a terminal status back, for any number of    *)
(* writers and deliveries, unless it replaces a row it has not read.       *)
THEOREM TerminalIsKept == Spec => TerminalNeverRegresses
<1>1. TypeInv /\ [Next]_vars => [overwritten' \/ ~Regresses]_vars
  <2> SUFFICES ASSUME TypeInv, [Next]_vars, ~overwritten'
               PROVE  ~Regresses
    OBVIOUS
  <2>1. CASE \E w \in Writers : UpsertRequest(w)
    BY <2>1, UpsertKeeps DEF Regresses
  <2>2. CASE ~\E w \in Writers : UpsertRequest(w)
    BY <2>2, RowUnchanged DEF Regresses
  <2> QED
    BY <2>1, <2>2
<1> QED
  BY <1>1, TypeInit, TypeStep, PTL DEF Spec, TerminalNeverRegresses

-----------------------------------------------------------------------------
(* The row records an event: every column the event decides is set.        *)
Reflected(e) ==
    Projecting(e) =>
        LET p == projection(e) IN
        /\ durable # NoRow
        /\ p.status # None => durable.status # None
        /\ p.status \in TERMINAL => durable.status \in TERMINAL
        /\ p.online # None => durable.online # None
        /\ p.offline # None => durable.offline # None

(* The row says nothing that no published event said ...                   *)
Sound ==
    /\ durable.status \in {None, "no row"} \cup {projection(e).status : e \in published}
    /\ durable.online \in {None} \cup {projection(e).online : e \in published}
    /\ durable.offline \in {None} \cup {projection(e).offline : e \in published}

(* ... and all that the events said that are committed, or past their      *)
(* upsert.                                                                 *)
Complete ==
    /\ \A e \in committed : Reflected(e)
    /\ \A w \in Writers : AfterUpsert(pc[w], event[w]) => Reflected(event[w])

(* Until an upsert replaces a row it had not read, or a failed call lets a *)
(* commit pass an event that was not projected.                            *)
ProjectionInv == ~overwritten /\ faults = 0 => Sound /\ Complete

(* Writes only ever make a reflected event more so.                        *)
LEMMA ReflectedStays ==
  ASSUME TypeInv, NEW w \in Writers, UpsertRequest(w), ~overwritten'
  PROVE  /\ \A e \in Events : Reflected(e) => Reflected(e)'
         /\ Reflected(event[w])'
<1>1. durable' # NoRow
  BY UpsertKeeps DEF Rows
<1>2. ASSUME NEW e \in Events, Reflected(e)
      PROVE  Reflected(e)'
  <2>1. durable.status = "no row" => durable = NoRow
    <3>1. durable \in Rows \/ durable = NoRow
      BY TypeParts DEF TypeInv, TypeSets, Rows
    <3> QED
      BY <3>1, RowFields DEF None, TERMINAL
  <2> QED
    BY <1>1, <1>2, <2>1, UpsertKeeps DEF Reflected
<1>3. event' = event
  BY DEF UpsertRequest
<1>4. Reflected(event[w])'
  BY <1>1, <1>3, UpsertKeeps DEF Reflected
<1> QED
  BY <1>2, <1>4

(* Preservation of ProjectionInv.                                          *)
LEMMA ProjectionStep == TypeInv /\ ProjectionInv /\ [Next]_vars => ProjectionInv'
<1> SUFFICES ASSUME TypeInv, ProjectionInv, [Next]_vars, ~overwritten', faults' = 0
             PROVE  Sound' /\ Complete'
  BY DEF ProjectionInv
<1>t. TypeSets /\ TypeWriters /\ TypeBounds
  BY TypeParts DEF TypeInv
<1>1. CASE \E w \in Writers : UpsertRequest(w)
  <2> PICK w \in Writers : UpsertRequest(w)
    BY <1>1
  <2>1. ~overwritten /\ faults = 0 /\ Sound /\ Complete
    BY UpsertKeeps DEF ProjectionInv, UpsertRequest, bounds
  <2>2. event[w] \in published /\ published' = published
    BY <1>t DEF TypeWriters, UpsertRequest
  <2>3. Sound'
    BY <2>1, <2>2, UpsertKeeps DEF Sound
  <2>4. /\ committed' = committed /\ committed \subseteq Events /\ event' = event
        /\ \A v \in Writers \ {w} : pc'[v] = pc[v]
        /\ \A v \in Writers : pc[v] # "poll" => event[v] \in Events
    BY <1>t DEF TypeSets, TypeWriters, UpsertRequest, Goto
  <2>5. \A e \in committed' : Reflected(e)'
    BY <2>1, <2>4, ReflectedStays DEF Complete
  <2>6. ASSUME NEW v \in Writers, AfterUpsert(pc'[v], event[v])
        PROVE  Reflected(event[v])'
    <3>1. CASE v = w
      BY <3>1, ReflectedStays
    <3>2. CASE v # w
      <4>1. AfterUpsert(pc[v], event[v]) /\ event[v] \in Events
        BY <1>t, <2>4, <2>6, <3>2 DEF TypeWriters, AfterUpsert
      <4>2. Reflected(event[v])
        BY <2>1, <4>1 DEF Complete
      <4>3. \A e \in Events : Reflected(e) => Reflected(e)'
        BY ReflectedStays
      <4> QED
        BY <2>4, <4>1, <4>2, <4>3 DEF Reflected
    <3> QED
      BY <3>1, <3>2
  <2> QED
    BY <2>3, <2>4, <2>5, <2>6 DEF Complete
<1>2. CASE ~\E w \in Writers : UpsertRequest(w)
  <2>1. durable' = durable /\ overwritten' = overwritten
    BY <1>2, RowUnchanged
  <2>2. published \subseteq published' /\ faults = 0
    <3>1. ASSUME NEW e \in Published, Publish(e)
          PROVE  published \subseteq published' /\ faults = 0
      BY <3>1 DEF Publish, bounds
    <3>2. ASSUME NEW w \in Writers, Step(w)
          PROVE  published \subseteq published' /\ faults = 0
      BY <3>2 DEF Step, Poll, SelectRequest, UpsertRequest, AppendEvent, DeadLetter, Commit, bounds
    <3>3. ASSUME NEW w \in Writers, Abandon(w) \/ Fail(w)
          PROVE  published \subseteq published' /\ faults = 0
      BY <1>t, <3>3 DEF Abandon, Fail, TypeBounds
    <3> QED
      BY <3>1, <3>2, <3>3 DEF Next, vars, bounds
  <2>3. Sound /\ Complete
    BY <2>1, <2>2 DEF ProjectionInv
  <2>4. Sound'
    BY <2>1, <2>2, <2>3 DEF Sound
  <2>5. ASSUME NEW e \in Events, Reflected(e)
        PROVE  Reflected(e)'
    BY <2>1, <2>5 DEF Reflected
  <2> DEFINE Committing == \A e \in committed' \ committed :
                              \E w \in Writers : pc[w] = "commit" /\ e = event[w]
             Holding == \A v \in Writers : AfterUpsert(pc'[v], event'[v]) =>
                           /\ event'[v] \in Events
                           /\ \/ ~Projecting(event'[v])
                              \/ event'[v] = event[v] /\ AfterUpsert(pc[v], event[v])
  <2>6. Committing /\ Holding
    <3>e. \A v \in Writers : pc[v] # "poll" => event[v] \in Events
      BY <1>t DEF TypeSets, TypeWriters
    <3>1. ASSUME NEW e \in Published, Publish(e)
          PROVE  Committing /\ Holding
      BY <1>t, <3>e, <3>1 DEF Publish, TypeWriters, AfterUpsert
    <3>2. ASSUME NEW w \in Writers, NEW e \in Events, Poll(w, e)
          PROVE  Committing /\ Holding
      BY <1>t, <3>e, <3>2 DEF Poll, Goto, TypeWriters, AfterUpsert, Projecting
    <3>3. ASSUME NEW w \in Writers, SelectRequest(w)
          PROVE  Committing /\ Holding
      BY <1>t, <3>e, <3>3 DEF SelectRequest, Goto, TypeWriters, AfterUpsert
    <3>4. ASSUME NEW w \in Writers, AppendEvent(w)
          PROVE  Committing /\ Holding
      <4>1. event[w] \in Conflicting => ~AuditFirst(event[w])
        BY MetadataProjectionAssumption DEF AuditFirst
      <4>2. /\ pc[w] = "append_event" /\ committed' = committed /\ event' = event
            /\ \A v \in Writers \ {w} : pc'[v] = pc[v]
        BY <1>t, <3>4 DEF AppendEvent, Goto, TypeWriters
      <4>3. pc'[w] = IF event[w] \in Conflicting THEN "dead_letter"
                     ELSE IF AuditFirst(event[w]) /\ Projecting(event[w]) THEN "select"
                     ELSE "commit"
        BY <1>t, <3>4 DEF AppendEvent, Goto, TypeWriters, Projecting
      <4>4. AfterUpsert(pc'[w], event[w]) =>
               ~Projecting(event[w]) \/ AfterUpsert(pc[w], event[w])
        BY <4>1, <4>2, <4>3 DEF AfterUpsert
      <4>5. \A v \in Writers : AfterUpsert(pc'[v], event[v]) =>
               ~Projecting(event[v]) \/ AfterUpsert(pc[v], event[v])
        BY <4>2, <4>4
      <4>6. \A v \in Writers : AfterUpsert(pc'[v], event[v]) => pc[v] # "poll"
        BY <4>2 DEF AfterUpsert
      <4> QED
        BY <3>e, <4>2, <4>5, <4>6
    <3>5. ASSUME NEW w \in Writers, DeadLetter(w)
          PROVE  Committing /\ Holding
      BY <1>t, <3>e, <3>5 DEF DeadLetter, Goto, TypeWriters, AfterUpsert
    <3>6. ASSUME NEW w \in Writers, Commit(w)
          PROVE  Committing /\ Holding
      BY <1>t, <3>e, <3>6 DEF Commit, Return, Goto, TypeWriters, AfterUpsert
    <3>7. ASSUME NEW w \in Writers, Abandon(w)
          PROVE  Committing /\ Holding
      BY <1>t, <3>e, <3>7 DEF Abandon, Return, Goto, TypeWriters, AfterUpsert
    <3>8. ASSUME NEW w \in Writers, Fail(w)
          PROVE  FALSE
      BY <1>t, <3>8 DEF Fail, TypeBounds
    <3>9. CASE UNCHANGED vars
      BY <1>t, <3>e, <3>9 DEF vars, TypeWriters, AfterUpsert
    <3> QED
      BY <1>2, <3>1, <3>2, <3>3, <3>4, <3>5, <3>6, <3>7, <3>8, <3>9 DEF Next, Step
  <2>7. \A e \in committed' : Reflected(e)'
    <3>1. \A e \in committed' : e \in Events /\ Reflected(e)
      BY <1>t, <2>3, <2>6 DEF Complete, AfterUpsert, TypeSets, TypeWriters
    <3> QED
      BY <2>1, <3>1 DEF Reflected
  <2>8. \A w \in Writers : AfterUpsert(pc'[w], event'[w]) => Reflected(event[w])'
    <3>1. \A w \in Writers : AfterUpsert(pc'[w], event'[w]) => Reflected(event'[w])
      BY <2>3, <2>6 DEF Complete, Reflected
    <3> QED
      BY <2>1, <3>1 DEF Reflected
  <2> QED
    BY <2>4, <2>7, <2>8 DEF Complete
<1> QED
  BY <1>1, <1>2

(* Once every event is committed the row agrees with what was published.   *)
LEMMA InvConverges == TypeInv /\ ProjectionInv => Converges
<1> SUFFICES ASSUME TypeInv, ProjectionInv,
                    published # {}, committed = published, ~overwritten, faults = 0
             PROVE  LET outcomes == {projection(e).status : e \in published} \cap TERMINAL
                        writes == {projection(e).online : e \in published} \ {None}
                        histories == {projection(e).offline : e \in published} \ {None}
                    IN  /\ durable.status \in (IF outcomes = {} THEN {"accepted"} ELSE outcomes)
                        /\ durable.online \in (IF writes = {} THEN {None} ELSE writes)
                        /\ durable.offline \in (IF histories = {} THEN {None} ELSE histories)
  BY DEF Converges
<1> DEFINE outcomes == {projection(e).status : e \in published} \cap TERMINAL
           writes == {projection(e).online : e \in published} \ {None}
           histories == {projection(e).offline : e \in published} \ {None}
<1>1. Sound /\ \A e \in published : Reflected(e)
  BY DEF ProjectionInv, Complete
<1>2. "requested" \in published /\ published \subseteq Events
  BY TypeParts DEF TypeInv, StepInv, TypeSets
<1>3. durable # NoRow /\ durable.status # None
  BY <1>1, <1>2, ProjectionFacts DEF Reflected, None
<1>4. durable \in Rows /\ durable.status # "no row"
  <2>1. durable \in Rows
    BY <1>3, TypeParts DEF TypeInv, TypeSets, Rows
  <2> QED
    BY <2>1, RowFields DEF None, TERMINAL
<1>5. \A e \in published : ~Projecting(e) => /\ projection(e).status \notin TERMINAL
                                            /\ projection(e).online = None
                                            /\ projection(e).offline = None
  BY NoRowFields DEF Projecting
<1>6. durable.status \in (IF outcomes = {} THEN {"accepted"} ELSE outcomes)
  <2>1. durable.status \in {projection(e).status : e \in published}
    BY <1>1, <1>3, <1>4 DEF Sound
  <2>2. CASE outcomes = {}
    <3>1. durable.status \notin TERMINAL
      BY <2>1, <2>2
    <3> QED
      BY <1>3, <1>4, <2>2, <3>1, RowFields
  <2>3. CASE outcomes # {}
    <3>1. PICK e \in published : projection(e).status \in TERMINAL
      BY <2>3
    <3>2. Projecting(e)
      BY <1>5, <3>1
    <3>3. durable.status \in TERMINAL
      BY <1>1, <3>1, <3>2 DEF Reflected
    <3> QED
      BY <2>1, <2>3, <3>3
  <2> QED
    BY <2>2, <2>3
<1>7. durable.online \in (IF writes = {} THEN {None} ELSE writes)
  <2>1. CASE writes = {}
    BY <1>1, <2>1 DEF Sound
  <2>2. CASE writes # {}
    <3>1. PICK e \in published : projection(e).online # None
      BY <2>2
    <3>2. Projecting(e)
      BY <1>5, <3>1
    <3>3. durable.online # None
      BY <1>1, <3>1, <3>2 DEF Reflected
    <3> QED
      BY <1>1, <2>2, <3>3 DEF Sound
  <2> QED
    BY <2>1, <2>2
<1>8. durable.offline \in (IF histories = {} THEN {None} ELSE histories)
  <2>1. CASE histories = {}
    BY <1>1, <2>1 DEF Sound
  <2>2. CASE histories # {}
    <3>1. PICK e \in published : projection(e).offline # None
      BY <2>2
    <3>2. Projecting(e)
      BY <1>5, <3>1
    <3>3. durable.offline # None
      BY <1>1, <3>1, <3>2 DEF Reflected
    <3> QED
      BY <1>1, <2>2, <3>3 DEF Sound
  <2> QED
    BY <2>1, <2>2
<1> QED
  BY <1>6, <1>7, <1>8

(* The projection converges: when the group has committed every event of a *)
(* request, in whichever order and however often they were delivered, the  *)
(* durable row tells what became of the request.                           *)
THEOREM ProjectionConverges == Spec => []Converges
<1>1. Init => ProjectionInv
  <2> SUFFICES ASSUME Init PROVE Sound /\ Complete
    BY DEF ProjectionInv
  <2>1. Sound
    BY NoRowFields DEF Init, Sound
  <2>2. Complete
    BY DEF Init, Complete, AfterUpsert
  <2> QED
    BY <2>1, <2>2
<1> QED
  BY <1>1, TypeInit, TypeStep, ProjectionStep, InvConverges, PTL DEF Spec

-----------------------------------------------------------------------------
(* The audit of a batch job: types, in parts.                              *)
EventsOK ==
    /\ batchPublished \subseteq B!Event /\ batchCommitted \subseteq batchPublished
    /\ dlq \subseteq batchPublished
RowsOK == chunkRow \in [Chunks -> B!ChunkState] /\ jobRow \in B!JobRows
WritersOK ==
    /\ batchStep \in [AuditWriters -> B!Steps]
    /\ batchEvent \in [AuditWriters -> B!Event \cup {B!NoEvent}]
    /\ \A w \in AuditWriters : batchStep[w] # "poll" => batchEvent[w] \in batchPublished
SeenOK ==
    /\ seenChunk \in [AuditWriters -> B!ChunkState] /\ seenJob \in [AuditWriters -> B!JobRows]
    /\ derived \in [AuditWriters -> B!JobStatuses \cup {B!None}]
DerivedOK ==
    \A w \in AuditWriters : batchStep[w] \in {"job_status", "chunk_status"} => derived[w] # B!None
BoundsOK ==
    batchOverwritten \in BOOLEAN /\ batchInterruptions \in Nat
AllOK == EventsOK /\ RowsOK /\ WritersOK /\ SeenOK /\ DerivedOK /\ BoundsOK

(* The type invariant is the conjunction of its parts.                     *)
LEMMA AuditTypeParts == (B!TypeOK <=> AllOK) /\ (B!TypeOK' <=> AllOK')
  BY DEF B!TypeOK, AllOK, EventsOK, RowsOK, WritersOK, SeenOK, DerivedOK, BoundsOK

(* What the rows a writer may put have for types.                          *)
LEMMA AuditRowFacts ==
  /\ B!NoJobRow \in B!JobRows
  /\ B!None \in B!ChunkState /\ "requested" \in B!ChunkState /\ B!Result \subseteq B!ChunkState
  /\ B!None \notin B!JobStatuses
  /\ \A row, n : B!derive_job_status(row, n) \in B!JobStatuses
  /\ \A r \in B!JobRows : B!merge_job_snapshot(r) \in B!JobRows
  /\ \A r \in B!JobRows, s \in B!JobStatuses :
        [status |-> s, chunk_count |-> IF r.status = B!None THEN B!Count ELSE r.chunk_count] \in B!JobRows
<1>1. B!NoJobRow \in B!JobRows
  BY DEF B!JobRows
<1>2. B!None \in B!ChunkState /\ "requested" \in B!ChunkState /\ B!Result \subseteq B!ChunkState
  BY DEF B!ChunkState, B!Result, B!TERMINAL
<1>3. B!None \notin B!JobStatuses
  BY DEF B!None, B!JobStatuses, B!TERMINAL
<1>4. \A row, n : B!derive_job_status(row, n) \in B!JobStatuses
  BY DEF B!derive_job_status, B!JobStatuses, B!TERMINAL
<1>5. \A s \in B!JobStatuses : [status |-> s, chunk_count |-> B!Count] \in B!JobRows
  BY DEF B!JobRows
<1>6. ASSUME NEW r \in B!JobRows
      PROVE  (r.status = B!None \/ r.status \in B!JobStatuses) /\ (r.status # B!None => r.chunk_count = B!Count)
  BY <1>3, <1>6 DEF B!JobRows, B!NoJobRow
<1>7. "accepted" \in B!JobStatuses
  BY DEF B!JobStatuses
<1>8. \A r \in B!JobRows : B!merge_job_snapshot(r) \in B!JobRows
  BY <1>5, <1>6, <1>7 DEF B!merge_job_snapshot
<1>9. \A r \in B!JobRows, s \in B!JobStatuses :
        [status |-> s, chunk_count |-> IF r.status = B!None THEN B!Count ELSE r.chunk_count] \in B!JobRows
  BY <1>5, <1>6
<1> QED
  BY <1>1, <1>2, <1>3, <1>4, <1>8, <1>9

(* The types hold of an empty audit.                                       *)
LEMMA AuditTypeInit == B!Init => B!TypeOK
<1> SUFFICES ASSUME B!Init PROVE AllOK
  BY AuditTypeParts
<1>1. EventsOK /\ DerivedOK
  BY DEF B!Init, EventsOK, DerivedOK
<1>2. RowsOK /\ SeenOK
  BY AuditRowFacts DEF B!Init, RowsOK, SeenOK
<1>3. WritersOK
  BY DEF B!Init, WritersOK, B!Steps
<1>4. BoundsOK
  <2>1. batchInterruptions = 0 /\ batchOverwritten \in BOOLEAN
    BY DEF B!Init
  <2> QED
    BY <2>1 DEF BoundsOK
<1> QED
  BY <1>1, <1>2, <1>3, <1>4 DEF AllOK

(* The event a writer has in hand is about one of the job's chunks.        *)
LEMMA EventInHand ==
  ASSUME AllOK, NEW w \in AuditWriters, batchStep[w] # "poll"
  PROVE  /\ batchEvent[w] \in batchPublished /\ batchEvent[w].chunk \in Chunks
         /\ batchEvent[w].result \in {B!None} \cup B!Result
  BY DEF AllOK, EventsOK, WritersOK, B!Event

(* Every action keeps the types.                                           *)
LEMMA AuditTypeStep == B!TypeOK /\ [B!Next]_B!vars => B!TypeOK'
<1> SUFFICES ASSUME AllOK, [B!Next]_B!vars
             PROVE  AllOK'
  BY AuditTypeParts
<1>t. EventsOK /\ RowsOK /\ WritersOK /\ SeenOK /\ DerivedOK /\ BoundsOK
  BY DEF AllOK
<1>1. ASSUME NEW e \in B!Event, B!Publish(e)
      PROVE  AllOK'
  <2>1. EventsOK'
    BY <1>t, <1>1 DEF EventsOK, B!Publish
  <2>2. RowsOK'
    BY <1>t, <1>1 DEF RowsOK, B!Publish, B!rows
  <2>3. WritersOK'
    BY <1>t, <1>1 DEF WritersOK, B!Publish, B!local
  <2>4. SeenOK'
    BY <1>t, <1>1 DEF SeenOK, B!Publish, B!local
  <2>5. DerivedOK'
    BY <1>t, <1>1 DEF DerivedOK, B!Publish, B!local
  <2>6. BoundsOK'
    BY <1>t, <1>1 DEF BoundsOK, B!Publish, B!bounds
  <2> QED
    BY <2>1, <2>2, <2>3, <2>4, <2>5, <2>6 DEF AllOK
<1>2. ASSUME NEW w \in AuditWriters, NEW e \in B!Event, B!Poll(w, e)
      PROVE  AllOK'
  <2>1. EventsOK'
    BY <1>t, <1>2 DEF EventsOK, B!Poll, B!events
  <2>2. RowsOK'
    BY <1>t, <1>2 DEF RowsOK, B!Poll, B!rows
  <2>3. WritersOK'
    BY <1>t, <1>2 DEF WritersOK, B!Steps, B!Poll, B!Goto, B!events
  <2>4. SeenOK'
    BY <1>t, <1>2 DEF SeenOK, B!Poll
  <2>5. DerivedOK'
    BY <1>t, <1>2 DEF DerivedOK, B!Poll, B!Goto
  <2>6. BoundsOK'
    BY <1>t, <1>2 DEF BoundsOK, B!Poll, B!bounds
  <2> QED
    BY <2>1, <2>2, <2>3, <2>4, <2>5, <2>6 DEF AllOK
<1>3. ASSUME NEW w \in AuditWriters, B!ReadJob(w)
      PROVE  AllOK'
  <2>1. EventsOK'
    BY <1>t, <1>3 DEF EventsOK, B!ReadJob, B!events
  <2>2. RowsOK'
    BY <1>t, <1>3 DEF RowsOK, B!ReadJob, B!rows
  <2>3. WritersOK'
    BY <1>t, <1>3 DEF WritersOK, B!Steps, B!ReadJob, B!Goto, B!events
  <2>4. SeenOK'
    BY <1>t, <1>3 DEF SeenOK, RowsOK, B!ReadJob
  <2>5. DerivedOK'
    BY <1>t, <1>3 DEF DerivedOK, B!ReadJob, B!Goto
  <2>6. BoundsOK'
    BY <1>t, <1>3 DEF BoundsOK, B!ReadJob, B!bounds
  <2> QED
    BY <2>1, <2>2, <2>3, <2>4, <2>5, <2>6 DEF AllOK
<1>4. ASSUME NEW w \in AuditWriters, B!WriteJob(w)
      PROVE  AllOK'
  <2>1. EventsOK'
    BY <1>t, <1>4 DEF EventsOK, B!WriteJob, B!events
  <2>2. RowsOK'
    BY <1>t, <1>4, AuditRowFacts DEF RowsOK, SeenOK, B!WriteJob
  <2>3. WritersOK'
    BY <1>t, <1>4 DEF WritersOK, B!Steps, B!WriteJob, B!Goto, B!events
  <2>4. SeenOK'
    BY <1>t, <1>4, AuditRowFacts DEF SeenOK, B!WriteJob, B!Forget
  <2>5. DerivedOK'
    BY <1>t, <1>4 DEF DerivedOK, B!WriteJob, B!Goto, B!Forget
  <2>6. BoundsOK'
    BY <1>t, <1>4 DEF BoundsOK, B!WriteJob, B!bounds
  <2> QED
    BY <2>1, <2>2, <2>3, <2>4, <2>5, <2>6 DEF AllOK
<1>5. ASSUME NEW w \in AuditWriters, B!Derive(w)
      PROVE  AllOK'
  <2>1. EventsOK'
    BY <1>t, <1>5 DEF EventsOK, B!Derive, B!events
  <2>2. RowsOK'
    BY <1>t, <1>5 DEF RowsOK, B!Derive, B!rows
  <2>3. WritersOK'
    BY <1>t, <1>5 DEF WritersOK, B!Steps, B!Derive, B!Goto, B!events
  <2>4. SeenOK'
    BY <1>t, <1>5, AuditRowFacts DEF SeenOK, RowsOK, B!Derive
  <2>5. DerivedOK'
    BY <1>t, <1>5, AuditRowFacts DEF DerivedOK, SeenOK, B!Derive, B!Goto
  <2>6. BoundsOK'
    BY <1>t, <1>5 DEF BoundsOK, B!Derive, B!bounds
  <2> QED
    BY <2>1, <2>2, <2>3, <2>4, <2>5, <2>6 DEF AllOK
<1>6. ASSUME NEW w \in AuditWriters, B!WriteStatus(w)
      PROVE  AllOK'
  <2>1. EventsOK'
    BY <1>t, <1>6 DEF EventsOK, B!WriteStatus, B!events
  <2>2. RowsOK'
    BY <1>t, <1>6, AuditRowFacts DEF RowsOK, SeenOK, DerivedOK, B!WriteStatus
  <2>3. WritersOK'
    BY <1>t, <1>6 DEF WritersOK, B!Steps, B!WriteStatus, B!Goto, B!events
  <2>4. SeenOK'
    BY <1>t, <1>6, AuditRowFacts DEF SeenOK, B!WriteStatus, B!Forget
  <2>5. DerivedOK'
    BY <1>t, <1>6 DEF DerivedOK, WritersOK, B!WriteStatus, B!Goto, B!Forget
  <2>6. BoundsOK'
    BY <1>t, <1>6 DEF BoundsOK, B!WriteStatus, B!bounds
  <2> QED
    BY <2>1, <2>2, <2>3, <2>4, <2>5, <2>6 DEF AllOK
<1>7. ASSUME NEW w \in AuditWriters, B!ReadChunk(w)
      PROVE  AllOK'
  <2>1. EventsOK'
    BY <1>t, <1>7 DEF EventsOK, B!ReadChunk, B!events
  <2>2. RowsOK'
    BY <1>t, <1>7 DEF RowsOK, B!ReadChunk, B!rows
  <2>3. WritersOK'
    BY <1>t, <1>7 DEF WritersOK, B!Steps, B!ReadChunk, B!Goto, B!events
  <2>4. SeenOK'
    <3>1. batchEvent[w].chunk \in Chunks
      BY <1>7, EventInHand DEF B!ReadChunk
    <3> QED
      BY <1>t, <1>7, <3>1 DEF SeenOK, RowsOK, B!ReadChunk
  <2>5. DerivedOK'
    BY <1>t, <1>7 DEF DerivedOK, B!ReadChunk, B!Goto
  <2>6. BoundsOK'
    BY <1>t, <1>7 DEF BoundsOK, B!ReadChunk, B!bounds
  <2> QED
    BY <2>1, <2>2, <2>3, <2>4, <2>5, <2>6 DEF AllOK
<1>8. ASSUME NEW w \in AuditWriters, B!WriteChunk(w)
      PROVE  AllOK'
  <2>1. EventsOK'
    BY <1>t, <1>8 DEF EventsOK, B!WriteChunk, B!events
  <2>2. RowsOK'
    <3>1. (IF batchEvent[w].result = B!None THEN "requested" ELSE batchEvent[w].result) \in B!ChunkState
      BY <1>8, EventInHand, AuditRowFacts DEF B!WriteChunk
    <3> QED
      BY <1>t, <1>8, <3>1 DEF RowsOK, B!WriteChunk
  <2>3. WritersOK'
    BY <1>t, <1>8 DEF WritersOK, B!Steps, B!WriteChunk, B!Goto, B!events
  <2>4. SeenOK'
    BY <1>t, <1>8, AuditRowFacts DEF SeenOK, B!WriteChunk, B!Forget
  <2>5. DerivedOK'
    BY <1>t, <1>8 DEF DerivedOK, B!WriteChunk, B!Goto, B!Forget
  <2>6. BoundsOK'
    BY <1>t, <1>8 DEF BoundsOK, B!WriteChunk, B!bounds
  <2> QED
    BY <2>1, <2>2, <2>3, <2>4, <2>5, <2>6 DEF AllOK
<1>9. ASSUME NEW w \in AuditWriters, B!DeadLetter(w)
      PROVE  AllOK'
  <2>1. EventsOK'
    BY <1>t, <1>9 DEF EventsOK, WritersOK, B!DeadLetter
  <2>2. RowsOK'
    BY <1>t, <1>9 DEF RowsOK, B!DeadLetter, B!rows
  <2>3. WritersOK'
    BY <1>t, <1>9 DEF WritersOK, B!Steps, B!DeadLetter, B!Goto, B!local
  <2>4. SeenOK'
    BY <1>t, <1>9 DEF SeenOK, B!DeadLetter, B!local
  <2>5. DerivedOK'
    BY <1>t, <1>9 DEF DerivedOK, B!DeadLetter, B!Goto, B!local
  <2>6. BoundsOK'
    BY <1>t, <1>9 DEF BoundsOK, B!DeadLetter, B!bounds
  <2> QED
    BY <2>1, <2>2, <2>3, <2>4, <2>5, <2>6 DEF AllOK
<1>10. ASSUME NEW w \in AuditWriters, B!Commit(w)
      PROVE  AllOK'
  <2>1. EventsOK'
    BY <1>t, <1>10 DEF EventsOK, WritersOK, B!Commit
  <2>2. RowsOK'
    BY <1>t, <1>10 DEF RowsOK, B!Commit, B!rows
  <2>3. WritersOK'
    BY <1>t, <1>10 DEF WritersOK, B!Steps, B!Commit, B!Return, B!Goto
  <2>4. SeenOK'
    BY <1>t, <1>10, AuditRowFacts DEF SeenOK, B!Commit, B!Return, B!Forget
  <2>5. DerivedOK'
    BY <1>t, <1>10 DEF DerivedOK, B!Commit, B!Return, B!Goto, B!Forget
  <2>6. BoundsOK'
    BY <1>t, <1>10 DEF BoundsOK, B!Commit, B!bounds
  <2> QED
    BY <2>1, <2>2, <2>3, <2>4, <2>5, <2>6 DEF AllOK
<1>11. ASSUME NEW w \in AuditWriters, B!Abandon(w)
      PROVE  AllOK'
  <2>1. EventsOK'
    BY <1>t, <1>11 DEF EventsOK, B!Abandon, B!events
  <2>2. RowsOK'
    BY <1>t, <1>11 DEF RowsOK, B!Abandon, B!rows
  <2>3. WritersOK'
    BY <1>t, <1>11 DEF WritersOK, B!Steps, B!Abandon, B!Return, B!Goto, B!events
  <2>4. SeenOK'
    BY <1>t, <1>11, AuditRowFacts DEF SeenOK, B!Abandon, B!Return, B!Forget
  <2>5. DerivedOK'
    BY <1>t, <1>11 DEF DerivedOK, WritersOK, B!Abandon, B!Return, B!Goto, B!Forget
  <2>6. BoundsOK'
    BY <1>t, <1>11 DEF BoundsOK, B!Abandon, B!Interrupt
  <2> QED
    BY <2>1, <2>2, <2>3, <2>4, <2>5, <2>6 DEF AllOK
<1>12. ASSUME NEW w \in AuditWriters, B!Fail(w)
      PROVE  AllOK'
  <2>1. EventsOK'
    BY <1>t, <1>12 DEF EventsOK, WritersOK, B!Fail
  <2>2. RowsOK'
    BY <1>t, <1>12 DEF RowsOK, B!Fail, B!rows
  <2>3. WritersOK'
    BY <1>t, <1>12 DEF WritersOK, B!Steps, B!Fail, B!Return, B!Goto
  <2>4. SeenOK'
    BY <1>t, <1>12, AuditRowFacts DEF SeenOK, B!Fail, B!Return, B!Forget
  <2>5. DerivedOK'
    BY <1>t, <1>12 DEF DerivedOK, WritersOK, B!Fail, B!Return, B!Goto, B!Forget
  <2>6. BoundsOK'
    BY <1>t, <1>12 DEF BoundsOK, B!Fail, B!Interrupt
  <2> QED
    BY <2>1, <2>2, <2>3, <2>4, <2>5, <2>6 DEF AllOK
<1>13. CASE UNCHANGED B!vars
  BY <1>13
     DEF AllOK, EventsOK, RowsOK, WritersOK, SeenOK, DerivedOK, BoundsOK,
         B!vars, B!events, B!rows, B!local, B!bounds
<1> QED
  BY <1>1, <1>2, <1>3, <1>4, <1>5, <1>6, <1>7, <1>8, <1>9, <1>10, <1>11, <1>12, <1>13
     DEF B!Next, B!Step

(* Every reachable state is well typed.                                    *)
THEOREM AuditTypeCorrect == AuditSpec => []B!TypeOK
  BY AuditTypeInit, AuditTypeStep, PTL DEF AuditSpec, B!Spec

-----------------------------------------------------------------------------
(* No event is in two hands, nor in one once it is committed.              *)
Exclusive ==
    \A w \in AuditWriters : batchStep[w] # "poll" =>
        /\ batchEvent[w] \notin batchCommitted
        /\ \A v \in AuditWriters : batchStep[v] # "poll" /\ batchEvent[v] = batchEvent[w] => v = w

(* A writer still has to put the job status it derives.                    *)
Recomputing ==
    \E w \in AuditWriters : batchStep[w] \in {"job_derive", "job_status", "chunk_derive", "chunk_status"}

(* Nothing was projected so far.                                           *)
Untouched ==
    /\ chunkRow = [c \in Chunks |-> B!None] /\ batchCommitted = {}
    /\ \A w \in AuditWriters : batchStep[w] \notin {"dead_letter", "commit"}

(* The job row lags behind the chunk rows only while a writer is between   *)
(* its chunk or job upsert and the write of the derived status.            *)
FollowsInv ==
    (~batchOverwritten /\ batchInterruptions = 0) =>
        B!FollowsChunks \/ Recomputing \/ Untouched

(* The invariant behind JobFollowsChunks.                                  *)
AuditInv == Exclusive /\ FollowsInv

(* A delivery goes to a writer that has nothing in hand, and to one only.  *)
LEMMA ExclusiveStep == B!TypeOK /\ Exclusive /\ [B!Next]_B!vars => Exclusive'
<1> SUFFICES ASSUME AllOK, Exclusive, [B!Next]_B!vars
             PROVE  Exclusive'
  BY AuditTypeParts
<1>t. WritersOK
  BY DEF AllOK
<1>1. ASSUME NEW e \in B!Event, B!Publish(e)
      PROVE  Exclusive'
  BY <1>1 DEF Exclusive, B!Publish, B!local
<1>2. ASSUME NEW w \in AuditWriters, NEW e \in B!Event, B!Poll(w, e)
      PROVE  Exclusive'
  BY <1>t, <1>2 DEF Exclusive, B!Poll, B!Goto, WritersOK, B!events
<1>3. ASSUME NEW w \in AuditWriters, batchStep[w] # "poll",
             batchEvent' = batchEvent, batchCommitted' = batchCommitted,
             NEW s \in B!Steps, B!Goto(w, s)
      PROVE  Exclusive'
  BY <1>t, <1>3 DEF Exclusive, B!Goto, WritersOK
<1>4. ASSUME NEW w \in AuditWriters, batchStep[w] # "poll", B!Return(w),
             batchCommitted' \in {batchCommitted, batchCommitted \cup {batchEvent[w]}}
      PROVE  Exclusive'
  BY <1>t, <1>4 DEF Exclusive, B!Return, B!Goto, WritersOK
<1>5. ASSUME NEW w \in AuditWriters, B!ReadJob(w) \/ B!WriteJob(w) \/ B!WriteChunk(w) \/ B!DeadLetter(w)
      PROVE  Exclusive'
  <2>1. batchStep[w] # "poll" /\ batchEvent' = batchEvent /\ batchCommitted' = batchCommitted
    BY <1>5 DEF B!ReadJob, B!WriteJob, B!WriteChunk, B!DeadLetter, B!events, B!local
  <2>2. \E s \in B!Steps : B!Goto(w, s)
    BY <1>5 DEF B!ReadJob, B!WriteJob, B!WriteChunk, B!DeadLetter, B!Steps
  <2> QED
    BY <1>3, <2>1, <2>2
<1>6. ASSUME NEW w \in AuditWriters, B!Derive(w) \/ B!WriteStatus(w) \/ B!ReadChunk(w)
      PROVE  Exclusive'
  <2>1. batchStep[w] # "poll" /\ batchEvent' = batchEvent /\ batchCommitted' = batchCommitted
    BY <1>6 DEF B!Derive, B!WriteStatus, B!ReadChunk, B!events
  <2>2. \E s \in B!Steps : B!Goto(w, s)
    BY <1>6 DEF B!Derive, B!WriteStatus, B!ReadChunk, B!Steps
  <2> QED
    BY <1>3, <2>1, <2>2
<1>7. ASSUME NEW w \in AuditWriters, B!Commit(w) \/ B!Abandon(w) \/ B!Fail(w)
      PROVE  Exclusive'
  <2>1. /\ batchStep[w] # "poll" /\ B!Return(w)
        /\ batchCommitted' \in {batchCommitted, batchCommitted \cup {batchEvent[w]}}
    BY <1>7 DEF B!Commit, B!Abandon, B!Fail, B!events
  <2> QED
    BY <1>4, <2>1
<1>8. CASE UNCHANGED B!vars
  BY <1>8 DEF Exclusive, B!vars, B!events, B!local
<1> QED
  BY <1>1, <1>2, <1>5, <1>6, <1>7, <1>8 DEF B!Next, B!Step

(* Each write of a row leaves its writer recomputing, and the recomputed   *)
(* status is derived from the chunk rows as they are.                      *)
LEMMA FollowsStep == B!TypeOK /\ FollowsInv /\ [B!Next]_B!vars => FollowsInv'
<1> SUFFICES ASSUME AllOK, FollowsInv, [B!Next]_B!vars,
                    ~batchOverwritten', batchInterruptions' = 0
             PROVE  B!FollowsChunks' \/ Recomputing' \/ Untouched'
  BY AuditTypeParts DEF FollowsInv
<1>t. WritersOK /\ BoundsOK
  BY DEF AllOK
<1> DEFINE Lags == B!FollowsChunks \/ Recomputing \/ Untouched
<1>0. ASSUME ~batchOverwritten, UNCHANGED B!bounds
      PROVE  Lags
  BY <1>0 DEF FollowsInv, B!bounds
<1>1. ASSUME NEW e \in B!Event, B!Publish(e)
      PROVE  Lags'
  BY <1>0, <1>1 DEF B!Publish, B!rows, B!FollowsChunks, Recomputing, Untouched
<1>2. ASSUME NEW w \in AuditWriters, NEW e \in B!Event, B!Poll(w, e)
      PROVE  Lags'
  <2>1. Lags /\ UNCHANGED <<B!rows, B!events>>
    BY <1>0, <1>2 DEF B!Poll
  <2> QED
    BY <1>t, <1>2, <2>1
       DEF B!Poll, B!Goto, B!rows, B!events, WritersOK, B!FollowsChunks, Recomputing, Untouched
<1>3. ASSUME NEW w \in AuditWriters, B!ReadJob(w)
      PROVE  Lags'
  <2>1. Lags /\ UNCHANGED <<B!rows, B!events>>
    BY <1>0, <1>3 DEF B!ReadJob
  <2> QED
    BY <1>t, <1>3, <2>1
       DEF B!ReadJob, B!Goto, B!rows, B!events, WritersOK, B!FollowsChunks, Recomputing, Untouched
<1>4. ASSUME NEW w \in AuditWriters, B!WriteJob(w)
      PROVE  Lags'
  BY <1>t, <1>4 DEF B!WriteJob, B!Goto, WritersOK, Recomputing
<1>5. ASSUME NEW w \in AuditWriters, B!Derive(w)
      PROVE  Lags'
  BY <1>t, <1>5 DEF B!Derive, B!Goto, WritersOK, Recomputing
<1>6. ASSUME NEW w \in AuditWriters, B!WriteStatus(w)
      PROVE  Lags'
  <2>1. derived[w] = B!derive_job_status(chunkRow, B!Count) /\ chunkRow' = chunkRow
    BY <1>6 DEF B!WriteStatus
  <2>2. jobRow'.status = derived[w]
    BY <1>6 DEF B!WriteStatus
  <2> QED
    BY <2>1, <2>2 DEF B!FollowsChunks
<1>7. ASSUME NEW w \in AuditWriters, B!ReadChunk(w)
      PROVE  Lags'
  <2>1. Lags /\ UNCHANGED <<B!rows, B!events>>
    BY <1>0, <1>7 DEF B!ReadChunk
  <2>2. CASE B!FollowsChunks
    BY <2>1, <2>2 DEF B!FollowsChunks, B!rows
  <2>3. CASE Recomputing
    BY <1>t, <1>7, <2>3 DEF B!ReadChunk, B!Goto, WritersOK, Recomputing
  <2>4. CASE Untouched
    <3>1. batchEvent[w].chunk \in Chunks
      BY <1>7, EventInHand DEF B!ReadChunk
    <3>2. chunkRow[batchEvent[w].chunk] \notin B!TERMINAL
      BY <2>4, <3>1 DEF Untouched, B!None, B!TERMINAL
    <3>3. batchStep' = [batchStep EXCEPT ![w] = "chunk_write"]
      BY <1>7, <3>2 DEF B!ReadChunk, B!Goto
    <3> QED
      BY <1>t, <2>1, <2>4, <3>3 DEF Untouched, WritersOK, B!rows, B!events
  <2> QED
    BY <2>1, <2>2, <2>3, <2>4
<1>8. ASSUME NEW w \in AuditWriters, B!WriteChunk(w)
      PROVE  Lags'
  BY <1>t, <1>8 DEF B!WriteChunk, B!Goto, WritersOK, Recomputing
<1>9. ASSUME NEW w \in AuditWriters, B!DeadLetter(w) \/ B!Commit(w)
      PROVE  Lags'
  <2>1. Lags /\ UNCHANGED B!rows /\ batchStep[w] \in {"dead_letter", "commit"}
        /\ \E s \in B!Steps : B!Goto(w, s)
    BY <1>0, <1>9 DEF B!DeadLetter, B!Commit, B!Return, B!Steps
  <2> QED
    BY <1>t, <2>1 DEF B!Goto, B!rows, WritersOK, B!FollowsChunks, Recomputing, Untouched
<1>10. ASSUME NEW w \in AuditWriters, B!Abandon(w) \/ B!Fail(w)
       PROVE  FALSE
  BY <1>t, <1>10 DEF B!Abandon, B!Fail, B!Interrupt, BoundsOK
<1>11. CASE UNCHANGED B!vars
  BY <1>0, <1>11 DEF B!vars, B!rows, B!events, B!FollowsChunks, Recomputing, Untouched
<1> QED
  BY <1>1, <1>2, <1>3, <1>4, <1>5, <1>6, <1>7, <1>8, <1>9, <1>10, <1>11 DEF B!Next, B!Step

(* "order-independent": when every event of a job is projected, in any     *)
(* order and by any number of writers, the job row says what its chunk     *)
(* rows say - no writer having died, failed or overwritten another.        *)
THEOREM JobRowFollows == AuditSpec => []JobFollowsChunks
<1>1. B!Init => AuditInv
  BY DEF B!Init, AuditInv, Exclusive, FollowsInv, Untouched
<1>2. B!TypeOK /\ AuditInv /\ [B!Next]_B!vars => AuditInv'
  BY ExclusiveStep, FollowsStep DEF AuditInv
<1>3. B!TypeOK /\ AuditInv => JobFollowsChunks
  <2> SUFFICES ASSUME AllOK, AuditInv, B!Settled, ~batchOverwritten,
                      batchInterruptions = 0
               PROVE  B!FollowsChunks
    BY AuditTypeParts DEF JobFollowsChunks, B!JobFollowsChunks
  <2>1. \A w \in AuditWriters : batchStep[w] = "poll"
    BY EventInHand DEF AuditInv, Exclusive, B!Settled
  <2>2. ~Recomputing /\ ~Untouched
    BY <2>1 DEF Recomputing, Untouched, B!Settled
  <2> QED
    BY <2>2 DEF AuditInv, FollowsInv
<1> QED
  BY <1>1, <1>2, <1>3, AuditTypeInit, AuditTypeStep, PTL DEF AuditSpec, B!Spec
=============================================================================
