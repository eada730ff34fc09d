------------------------------- MODULE Audit -------------------------------
(***************************************************************************)
(* AuditService and the event ingestor in front of it.  Its repository     *)
(* writes at once and holds one record for a source event; only purging an *)
(* archived record frees the source event again.                           *)
(***************************************************************************)
EXTENDS ServiceCalls

CONSTANTS
  Record,         \* auditRecordIds that may be drawn
  Envelope,       \* eventIds the ingestor is handed, or record() is told of
  Projected       \* those whose type is neither IGNORE nor AUDIT

AuditedAs(e) == <<"auditSource", e>>
Ingested(e) == <<"ingested", e>>

\* The ids of records and of events are drawn apart.
ASSUME AuditAssumption ==
  /\ Record \subseteq Key /\ Projected \subseteq Envelope
  /\ \A e \in Envelope : AuditedAs(e) \in Key /\ Ingested(e) \in Key
                           /\ AuditedAs(e) \notin Record /\ Ingested(e) \notin Record
  /\ Record \intersect Envelope = {}
  /\ NoRecord \notin Record /\ NoRecord # TRUE /\ NoRecord # "purged"
  /\ NoRecord \notin [source : Envelope \union Record, archived : BOOLEAN]

-----------------------------------------------------------------------------
Appended(r, e) == (r :> [source |-> e, archived |-> FALSE]) @@ (AuditedAs(e) :> r)

\* record(), with a source event.
RecordAudit(c) ==
  \E e \in Envelope, r \in Record :
    LET reads == << {AuditedAs(e)} >>
    IN  /\ IsIdle(c)
        /\ ~Exists(store[AuditedAs(e)])
        /\ r \in Fresh(Record)
        /\ Stage(c, reads, << Appended(r, e) >>, <<>>)

\* deliverIdempotent around ingestEnvelope: look up, record, mark.
IngestEnvelope(c) ==
  \E e \in Envelope, r \in Record :
    LET op == <<"ingest", e>>
        reads == << {Ingested(e)}, {AuditedAs(e)} >>
        known == e \notin Projected \/ Exists(store[AuditedAs(e)])
        mark == Ingested(e) :> TRUE
    IN  \/ ~Exists(store[Ingested(e)]) /\ Read(c, op, reads)
        \/ /\ LastRead(c, op, reads)
           /\ known \/ r \in Fresh(Record)
           /\ Stage(c, reads, IF known THEN << mark >> ELSE << Appended(r, e), mark >>, <<>>)

\* appendCorrection: a record of its own, without a source event.
AppendCorrection(c) ==
  \E prior, r \in Record :
    /\ IsIdle(c)
    /\ Exists(store[prior])
    /\ r \in Fresh(Record)
    /\ Stage(c, << {prior} >>, << r :> [source |-> prior, archived |-> FALSE] >>, <<>>)

\* Mutant of IsDuplicate: append does not look at the source event.
NeverDuplicate(c) == FALSE

\* append finds that its source event has been recorded since the lookup.
IsDuplicate(c) ==
  /\ Committing(c) /\ work[c].writes # <<>>
  /\ \E e \in Envelope : AuditedAs(e) \in DOMAIN work[c].writes[1] /\ Exists(store[AuditedAs(e)])

\* record() then answers with the record there is; an ingest goes on to its mark.
FindDuplicate(c) ==
  /\ IsDuplicate(c)
  /\ work' = [work EXCEPT ![c].writes = Tail(@)]
  /\ UNCHANGED <<store, told, raced>>

\* markArchived and purgeArchived work through their ids without an await.
AtOnce(c, write, news) ==
  /\ IsIdle(c)
  /\ store' = write @@ store
  /\ work' = [work EXCEPT ![c] = [Idle EXCEPT !.op = <<"commit">>, !.news = news,
                                              !.seen = write]]
  /\ UNCHANGED <<told, raced>>

ArchiveRecords(c) ==
  \E r \in Record :
    /\ Exists(store[r]) /\ ~store[r].archived
    /\ AtOnce(c, r :> [store[r] EXCEPT !.archived = TRUE], r :> "archived")

Purged(r) ==
  (r :> NoRecord) @@ (IF store[r].source \in Envelope
                        THEN AuditedAs(store[r].source) :> NoRecord ELSE <<>>)

\* With dual control, and past the check that the record is archived.
PurgeArchivedRecords(c) ==
  \E r \in Record :
    /\ Exists(store[r]) /\ store[r].archived
    /\ AtOnce(c, Purged(r), [k \in DOMAIN Purged(r) |-> "purged"])

AuditStep(c) ==
  \/ RecordAudit(c)
  \/ IngestEnvelope(c)
  \/ AppendCorrection(c)
  \/ ArchiveRecords(c)
  \/ PurgeArchivedRecords(c)
=============================================================================
