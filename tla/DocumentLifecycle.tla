-------------------------- MODULE DocumentLifecycle --------------------------
(***************************************************************************)
(* What the status endpoint of the ingestion API promises of a document    *)
(* (GET /documents/{id}, backend/api/ingest.py, and the loop that polls it *)
(* in tests/integration/test_pipeline.py): the document is queued, then    *)
(* processed, and ends complete or failed for good; its chunks become      *)
(* searchable all at once, before it is reported complete, and never for a *)
(* document reported failed; no two documents hold the same content.       *)
(* Ingestion implements it.                                                *)
(***************************************************************************)
EXTENDS Naturals

CONSTANTS
  Docs,       \* documents
  ContentOf,  \* the content of each document
  ChunksOf    \* the number of chunks each content yields

VARIABLES
  status,     \* what the endpoint reports, "none" before the upload
  searchable  \* the chunks of each document a query can retrieve

lifecycle == <<status, searchable>>

Init ==
  /\ status = [d \in Docs |-> "none"]
  /\ searchable = [d \in Docs |-> 0]

Moves(d, from, to) ==
  /\ status[d] = from
  /\ status' = [status EXCEPT ![d] = to]
  /\ UNCHANGED searchable

Upload(d) ==
  /\ \A e \in Docs : status[e] # "none" => ContentOf[e] # ContentOf[d]
  /\ Moves(d, "none", "queued")

Reject(d) == Moves(d, "queued", "failed")

Start(d) == Moves(d, "queued", "processing")

Index(d) ==
  /\ status[d] = "processing"
  /\ searchable[d] = 0
  /\ searchable' = [searchable EXCEPT ![d] = ChunksOf[ContentOf[d]]]
  /\ UNCHANGED status

Complete(d) ==
  /\ searchable[d] = ChunksOf[ContentOf[d]]
  /\ Moves(d, "processing", "complete")

Fail(d) ==
  /\ searchable[d] = 0
  /\ Moves(d, "processing", "failed")

Next ==
  \E d \in Docs :
    Upload(d) \/ Reject(d) \/ Start(d) \/ Index(d) \/ Complete(d) \/ Fail(d)

Spec == Init /\ [][Next]_lifecycle
=============================================================================
