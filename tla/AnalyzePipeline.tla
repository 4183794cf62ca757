---------------------------- MODULE AnalyzePipeline ----------------------------
(***************************************************************************)
(* POST /api/analyze: analyzesHandler looks every requested file up in the *)
(* table documents, handle_document_request downloads the others side by   *)
(* side, hands the new documents to a saver that runs on the thread pool   *)
(* tp, adds the cached ones and sends everything to the ML server.         *)
(*                                                                         *)
(* The saver and the request share the vector of documents.  The saver     *)
(* iterates over it while the request appends the cached documents, and an *)
(* append that reallocates leaves the saver with freed memory: it then     *)
(* crashes the process, ends with an exception nobody sees, or stores a    *)
(* moved-from document, whose id and text are empty.                       *)
(*                                                                         *)
(* The text of a document is named by the download that got it, <<r, k>>   *)
(* for the k-th download of request r.                                     *)
(***************************************************************************)
EXTENDS Naturals, FiniteSets, Sequences, SequencesExt

CONSTANTS Requests,   \* requests to /api/analyze
          Files,      \* Google Drive file ids, documents.external_id
          MaxFiles,   \* bound on the length of filesList
          CpuThreads, \* threads of tp: hardware_concurrency() / 2
          None

ASSUME NumberAssumption == MaxFiles \in Nat /\ CpuThreads \in Nat

VARIABLES
  documents, \* table documents: the text stored for each file
  blank,     \* whether it also has a row without id and text
  pc,        \* what each request does next, or how it ended
  files,     \* its filesList
  cached,    \* doc_vec: the documents found in the table
  wanted,    \* req_vec: the files to download
  op,        \* what each download of a request does next, or how it ended
  container, \* the vector the request shares with its saver
  saver,     \* what the saver of a request does next
  range,     \* the positions its loop has still to visit
  freed      \* whether the memory it iterates over is freed

table == <<documents, blank>>
request == <<pc, files, cached, wanted>>
saving == <<saver, range, freed>>
vars == <<table, request, op, container, saving>>

Positions == 1 .. MaxFiles
Texts == Requests \X Positions
Documents == [id : Files, text : Texts]
Ends == {"200", "400", "401", "dropped"}
Steps == {"select", "download", "append", "analysis"}

TypeOK ==
  /\ documents \in [Files -> Texts \cup {None}]
  /\ blank \in BOOLEAN
  /\ pc \in [Requests -> {"new"} \cup Steps \cup Ends]
  /\ files \in [Requests -> Seq(Files)]
  /\ cached \in [Requests -> Seq(Documents)]
  /\ wanted \in [Requests -> Seq(Files)]
  /\ op \in [Requests -> [Positions -> {"none", "get", "unreadable", "text",
                                       "parsed", "stored", "failed"}]]
  /\ container \in [Requests -> Seq(Documents)]
  /\ \A r \in Requests : /\ Len(files[r]) <= MaxFiles
                          /\ Len(cached[r]) + Len(wanted[r]) <= Len(files[r])
  /\ saver \in [Requests -> {"none", "spawned", "saving", "done"}]
  /\ range \in [Requests -> [next : 1 .. MaxFiles + 1, last : 0 .. MaxFiles]]
  /\ freed \in [Requests -> BOOLEAN]

Init ==
  /\ documents = [f \in Files |-> None]
  /\ blank = FALSE
  /\ pc = [r \in Requests |-> "new"]
  /\ files = [r \in Requests |-> <<>>]
  /\ cached = [r \in Requests |-> <<>>]
  /\ wanted = [r \in Requests |-> <<>>]
  /\ op = [r \in Requests |-> [k \in Positions |-> "none"]]
  /\ container = [r \in Requests |-> <<>>]
  /\ saver = [r \in Requests |-> "none"]
  /\ range = [r \in Requests |-> [next |-> 1, last |-> 0]]
  /\ freed = [r \in Requests |-> FALSE]

-----------------------------------------------------------------------------
(* analyzesHandler *)

Goto(r, step) == pc' = [pc EXCEPT ![r] = step]

\* The user is known, has a valid access token, and the body is a list of
\* files: or one of the three is not so.
ReceiveRequest(r) ==
  /\ pc[r] = "new"
  /\ \/ /\ Goto(r, "select")
        /\ \E list \in BoundedSeq(Files, MaxFiles) :
             files' = [files EXCEPT ![r] = list]
     \/ /\ \E end \in {"400", "401", "dropped"} : Goto(r, end)
        /\ UNCHANGED files
  /\ UNCHANGED <<table, cached, wanted, op, container, saving>>

\* The position in filesList the loop has come to.
Current(r) == Len(cached[r]) + Len(wanted[r]) + 1

\* Database::selectDocument finds the file.
FindCached(r) ==
  /\ pc[r] = "select"
  /\ Current(r) <= Len(files[r])
  /\ LET f == files[r][Current(r)]
     IN /\ documents[f] # None
        /\ cached' = [cached EXCEPT ![r] = Append(@, [id |-> f, text |-> documents[f]])]
  /\ UNCHANGED <<table, pc, files, wanted, op, container, saving>>

\* It does not, or the database fails, which reads the same.
PlanDownload(r) ==
  /\ pc[r] = "select"
  /\ Current(r) <= Len(files[r])
  /\ wanted' = [wanted EXCEPT ![r] = Append(@, files[r][Current(r)])]
  /\ UNCHANGED <<table, pc, files, cached, op, container, saving>>

\* An item without file_url, file_type or file_name: at() throws.
RejectItem(r) ==
  /\ pc[r] = "select"
  /\ Current(r) <= Len(files[r])
  /\ Goto(r, "dropped")
  /\ UNCHANGED <<table, files, cached, wanted, op, container, saving>>

-----------------------------------------------------------------------------
(* handle_document_request and download_extract_store *)

\* Mutant of StartDownloads: the saver is spawned along with the downloads.
SaveWhileDownloading(r) ==
  /\ pc[r] = "select"
  /\ Current(r) > Len(files[r])
  /\ op' = [op EXCEPT ![r] =
       [k \in Positions |-> IF k <= Len(wanted[r]) THEN "get" ELSE "none"]]
  /\ Goto(r, IF wanted[r] = <<>> THEN "append" ELSE "download")
  /\ saver' = [saver EXCEPT ![r] = IF wanted[r] = <<>> THEN @ ELSE "spawned"]
  /\ UNCHANGED <<table, files, cached, wanted, container, range, freed>>

\* The downloads of make_op, all started by the parallel group.
StartDownloads(r) ==
  /\ pc[r] = "select"
  /\ Current(r) > Len(files[r])
  /\ op' = [op EXCEPT ![r] =
       [k \in Positions |-> IF k <= Len(wanted[r]) THEN "get" ELSE "none"]]
  /\ Goto(r, IF wanted[r] = <<>> THEN "append" ELSE "download")
  /\ UNCHANGED <<table, files, cached, wanted, container, saving>>

OpGoto(r, k, step) == op' = [op EXCEPT ![r] = [@ EXCEPT ![k] = step]]

\* downloadWithRedirect: a document, something that is none (the body of an
\* error is read like any other), or an exception.
Download(r, k) ==
  /\ op[r][k] = "get"
  /\ \E step \in {"text", "unreadable", "failed"} : OpGoto(r, k, step)
  /\ UNCHANGED <<table, request, container, saving>>

\* The hop through a thread of tp, and DocumentReaderFromRaw.
Extract(r, k) ==
  /\ CpuThreads > 0
  /\ \/ op[r][k] = "text" /\ OpGoto(r, k, "parsed")
     \/ op[r][k] = "unreadable" /\ OpGoto(r, k, "failed")
  /\ UNCHANGED <<table, request, container, saving>>

\* push_back and emplace_back; a saver that is at work may lose its memory.
Grow(r, docs) ==
  /\ container' = [container EXCEPT ![r] = @ \o docs]
  /\ \E moved \in BOOLEAN :
       /\ moved => saver[r] = "saving" /\ docs # <<>>
       /\ freed' = [freed EXCEPT ![r] = @ \/ moved]

\* Mutant of StoreInContainer: the k-th document to arrive is taken for the
\* k-th file.
StoreByArrival(r, k) ==
  /\ op[r][k] = "parsed"
  /\ Grow(r, <<[id |-> wanted[r][Len(container[r]) + 1], text |-> <<r, k>>]>>)
  /\ OpGoto(r, k, "stored")
  /\ UNCHANGED <<table, request, saver, range>>

\* After the hop through the strand.
StoreInContainer(r, k) ==
  /\ op[r][k] = "parsed"
  /\ Grow(r, <<[id |-> wanted[r][k], text |-> <<r, k>>]>>)
  /\ OpGoto(r, k, "stored")
  /\ UNCHANGED <<table, request, saver, range>>

\* Mutants of JoinDownloads: errors are not thrown again; the saver is
\* spawned before they are.
IgnoreErrors(r) ==
  /\ pc[r] = "download"
  /\ \A k \in 1 .. Len(wanted[r]) : op[r][k] \in {"stored", "failed"}
  /\ Goto(r, "append")
  /\ saver' = [saver EXCEPT ![r] = "spawned"]
  /\ UNCHANGED <<table, files, cached, wanted, op, container, range, freed>>

SaveBeforeErrors(r) ==
  /\ pc[r] = "download"
  /\ \A k \in 1 .. Len(wanted[r]) : op[r][k] \in {"stored", "failed"}
  /\ Goto(r, IF \E k \in 1 .. Len(wanted[r]) : op[r][k] = "failed"
              THEN "dropped" ELSE "append")
  /\ saver' = [saver EXCEPT ![r] = "spawned"]
  /\ UNCHANGED <<table, files, cached, wanted, op, container, range, freed>>

\* wait_for_all: the first error is thrown again; without one the saver is
\* spawned on tp.
JoinDownloads(r) ==
  /\ pc[r] = "download"
  /\ \A k \in 1 .. Len(wanted[r]) : op[r][k] \in {"stored", "failed"}
  /\ IF \E k \in 1 .. Len(wanted[r]) : op[r][k] = "failed"
     THEN Goto(r, "dropped") /\ UNCHANGED saver
     ELSE Goto(r, "append") /\ saver' = [saver EXCEPT ![r] = "spawned"]
  /\ UNCHANGED <<table, files, cached, wanted, op, container, range, freed>>

AppendCached(r) ==
  /\ pc[r] = "append"
  /\ Grow(r, cached[r])
  /\ Goto(r, "analysis")
  /\ UNCHANGED <<table, files, cached, wanted, op, saver, range>>

\* The ML server answers, or sendRequest throws.
Analyse(r) ==
  /\ pc[r] = "analysis"
  /\ Goto(r, "200") \/ Goto(r, "dropped")
  /\ UNCHANGED <<table, files, cached, wanted, op, container, saving>>

-----------------------------------------------------------------------------
(* saveDocumentsHandler, on a thread of tp *)

\* The range-for evaluates begin() and end() once.
BeginSaving(r) ==
  /\ CpuThreads > 0
  /\ saver[r] = "spawned"
  /\ saver' = [saver EXCEPT ![r] = "saving"]
  /\ range' = [range EXCEPT ![r] = [next |-> 1, last |-> Len(container[r])]]
  /\ UNCHANGED <<table, request, op, container, freed>>

\* Database::insertDocument: header and sections in one transaction.  The
\* unique external_id refuses a file that is there.
InsertDocument(doc) ==
  \/ /\ documents[doc.id] = None
     /\ documents' = [documents EXCEPT ![doc.id] = doc.text]
  \/ UNCHANGED documents

\* The iterator moves on.
Visited(r) == range' = [range EXCEPT ![r] = [@ EXCEPT !.next = range[r].next + 1]]

\* Mutant of SaveNext: an insertion that fails is tried again.
SaveUntilStored(r) ==
  /\ saver[r] = "saving"
  /\ ~freed[r]
  /\ range[r].next <= range[r].last
  /\ documents[container[r][range[r].next].id] = None
  /\ InsertDocument(container[r][range[r].next])
  /\ Visited(r)
  /\ UNCHANGED <<blank, request, op, container, saver, freed>>

SaveNext(r) ==
  /\ saver[r] = "saving"
  /\ ~freed[r]
  /\ range[r].next <= range[r].last
  /\ InsertDocument(container[r][range[r].next])
  /\ Visited(r)
  /\ UNCHANGED <<blank, request, op, container, saver, freed>>

\* It reads freed memory: a moved-from document, or an exception.
SaveFreed(r) ==
  /\ saver[r] = "saving"
  /\ freed[r]
  /\ range[r].next <= range[r].last
  /\ \/ /\ blank' = TRUE
        /\ Visited(r)
        /\ UNCHANGED saver
     \/ /\ saver' = [saver EXCEPT ![r] = "done"]
        /\ UNCHANGED <<blank, range>>
  /\ UNCHANGED <<documents, request, op, container, freed>>

EndSaving(r) ==
  /\ saver[r] = "saving"
  /\ range[r].next > range[r].last
  /\ saver' = [saver EXCEPT ![r] = "done"]
  /\ UNCHANGED <<table, request, op, container, range, freed>>

-----------------------------------------------------------------------------
\* The process dies, by itself or at a read of freed memory; requests and
\* savers under way are gone, the table stays.
Crash ==
  /\ pc' = [r \in Requests |-> IF pc[r] \in Steps THEN "dropped" ELSE pc[r]]
  /\ op' = [r \in Requests |-> [k \in Positions |->
              IF op[r][k] \in {"none", "stored"} THEN op[r][k] ELSE "failed"]]
  /\ saver' = [r \in Requests |-> IF saver[r] = "none" THEN "none" ELSE "done"]
  /\ UNCHANGED <<table, files, cached, wanted, container, range, freed>>

RequestStep(r) ==
  \/ FindCached(r)
  \/ PlanDownload(r)
  \/ RejectItem(r)
  \/ StartDownloads(r)
  \/ \E k \in Positions : Download(r, k) \/ Extract(r, k) \/ StoreInContainer(r, k)
  \/ JoinDownloads(r)
  \/ AppendCached(r)
  \/ Analyse(r)

SaverStep(r) == BeginSaving(r) \/ SaveNext(r) \/ SaveFreed(r) \/ EndSaving(r)

Next ==
  \/ \E r \in Requests : ReceiveRequest(r) \/ RequestStep(r) \/ SaverStep(r)
  \/ Crash

\* The io_context and the thread pool keep running; every network operation
\* ends, by a time-out if by nothing else.
Fairness == \A r \in Requests : WF_vars(RequestStep(r)) /\ WF_vars(SaverStep(r))

Spec == Init /\ [][Next]_vars /\ Fairness

-----------------------------------------------------------------------------
Count(f, ids) == Cardinality({k \in DOMAIN ids : ids[k] = f})

\* What the ML server gets is what was asked for: every file as often as the
\* request lists it, whatever order the downloads end in and whichever files
\* were cached; a request one of whose downloads failed is not sent.
PayloadIsComplete ==
  \A r \in Requests : pc[r] \in {"analysis", "200"} =>
    \A f \in Files :
      Count(f, [k \in DOMAIN container[r] |-> container[r][k].id]) = Count(f, files[r])

\* The text was downloaded for the file whose id it carries.
Authentic(doc) == wanted[doc.text[1]][doc.text[2]] = doc.id

\* No document goes under another file's id, neither in the table nor in a
\* request to the ML server, however requests, downloads and savers overlap.
TextsAreAuthentic ==
  /\ \A f \in Files : documents[f] # None
                        => Authentic([id |-> f, text |-> documents[f]])
  /\ \A r \in Requests : \A k \in DOMAIN container[r] : Authentic(container[r][k])

\* A request one of whose downloads failed leaves nothing in the table.
StoredFromWholeRequests ==
  \A f \in Files : documents[f] # None =>
    LET r == documents[f][1]
    IN \A k \in 1 .. Len(wanted[r]) : op[r][k] = "stored"

\* Freed memory is read only for a request that had both cached and new
\* files; requests with one kind alone never put a row without id in the
\* table.
BlankNeedsMixedRequest ==
  blank => \E r \in Requests : cached[r] # <<>> /\ wanted[r] # <<>>

\* Of each request, and of each saver.
RequestsEnd == \A r \in Requests : pc[r] = "select" ~> pc[r] \in Ends
SaversEnd == \A r \in Requests : saver[r] = "spawned" ~> saver[r] = "done"

\* Every request that was let in ends, and every saver, whatever fails on the
\* way: no request waits for a download that has failed, no saver for a row.
WorkEnds == RequestsEnd /\ SaversEnd
=============================================================================
