----------------------------- MODULE DocumentStore -----------------------------
(***************************************************************************)
(* The tables documents and document_sections under the calls that use     *)
(* them: insertDocument and deleteDocument, which are one transaction each *)
(* with a statement per row, selectDocument, which reads the two tables    *)
(* with two statements, and analyzesFragmentsHandler, which looks for the  *)
(* same section of two documents and has the ML server compare them.       *)
(*                                                                         *)
(* PostgreSQL runs the transactions at READ COMMITTED: a statement sees    *)
(* what is committed when it begins.  external_id is unique, so an insert  *)
(* waits for another one of the same id that is not committed.  A row has  *)
(* the name of the call that inserted it.                                  *)
(***************************************************************************)
EXTENDS Naturals, FiniteSets, Sequences, Functions

CONSTANTS Calls,    \* calls of the interface
          Ids,      \* Google Drive ids, documents.external_id
          Titles,   \* titles of sections
          Contents, \* the sections a document may have, by their titles
          None

ASSUME ContentAssumption == Contents \subseteq Seq(Titles)

\* std::nullopt is no value: no row, no id, no title and no document.
ASSUME NoneAssumption ==
  /\ None \notin Calls \cup Ids \cup Titles
  /\ None \notin [row : Calls, sections : Contents \cup {<<>>}]

VARIABLES
  documents, \* for each id the committed row, or None
  sections,  \* for each row its committed sections
  pc,        \* what each call does next
  call,      \* its arguments
  row,       \* the row selectDocument found
  reply,     \* what it was told, or None
  deleted    \* the rows deleted so far

table == <<documents, sections, deleted>>
vars == <<table, pc, call, row, reply>>

Kinds == {"insert", "select", "delete", "fragments"}
NoCall == [kind |-> None, id |-> None, second |-> None, title |-> None, content |-> <<>>]
Orders(seq) == {[k \in DOMAIN seq |-> seq[p[k]]] : p \in {f \in [DOMAIN seq -> DOMAIN seq] : IsInjective(f)}}

TypeOK ==
  /\ documents \in [Ids -> Calls \cup {None}]
  /\ sections \in [Calls -> Contents \cup {<<>>}]
  /\ pc \in [Calls -> {"new", "begin", "sections", "commit", "rows", "ml", "done"}]
  /\ call \in [Calls -> [kind : Kinds \cup {None}, id : Ids \cup {None}, second : Ids \cup {None},
                         title : Titles \cup {None}, content : Contents \cup {<<>>}]]
  /\ row \in [Calls -> Calls \cup {None}]
  /\ deleted \subseteq Calls
  /\ \A id \in Ids : documents[id] # None => call[documents[id]].id = id /\ documents[id] \notin deleted

Init ==
  /\ documents = [id \in Ids |-> None] /\ sections = [c \in Calls |-> <<>>] /\ deleted = {}
  /\ pc = [c \in Calls |-> "new"] /\ call = [c \in Calls |-> NoCall]
  /\ row = [c \in Calls |-> None] /\ reply = [c \in Calls |-> None]

-----------------------------------------------------------------------------
Begin(c, kind, id, second, title, content) ==
  /\ pc[c] = "new"
  /\ call' = [call EXCEPT ![c] = [kind |-> kind, id |-> id, second |-> second, title |-> title, content |-> content]]
  /\ pc' = [pc EXCEPT ![c] = "begin"]
  /\ UNCHANGED <<table, row, reply>>

GoTo(c, step) == pc' = [pc EXCEPT ![c] = step] /\ UNCHANGED reply
Return(c, answer) ==
  /\ pc' = [pc EXCEPT ![c] = "done"]
  /\ reply' = [reply EXCEPT ![c] = answer]
Runs(c, kind, step) == call[c].kind = kind /\ pc[c] = step

\* INSERT INTO documents: it waits for an uncommitted row of the same id.  A
\* mutant, InsertHeaderAtOnce, has no transaction around the inserts; in
\* another, with a lock on the whole call, two inserts wait for each other.
Began(c, id) == call[c].id = id /\ call[c].kind = "insert" /\ pc[c] \in {"begin", "sections", "commit"}
Uncommitted(c, id) == call[c].id = id /\ call[c].kind = "insert" /\ pc[c] \in {"sections", "commit"}
InsertHeaderAtOnce(c) ==
  /\ Runs(c, "insert", "begin")
  /\ documents[call[c].id] = None
  /\ documents' = [documents EXCEPT ![call[c].id] = c]
  /\ GoTo(c, "sections")
  /\ UNCHANGED <<sections, deleted, call, row>>
InsertHeader(c) ==
  /\ Runs(c, "insert", "begin")
  /\ \A d \in Calls \ {c} : ~Uncommitted(d, call[c].id)
  /\ IF documents[call[c].id] = None THEN GoTo(c, "sections") ELSE Return(c, <<"false">>)
  /\ UNCHANGED <<table, call, row>>

\* One INSERT INTO document_sections per section, seen by nobody else yet.
InsertSections(c) ==
  /\ Runs(c, "insert", "sections")
  /\ GoTo(c, "commit")
  /\ UNCHANGED <<table, call, row>>

\* The answer to COMMIT may be lost: the rows are there and false is returned.
CommitInsert(c) ==
  /\ Runs(c, "insert", "commit")
  /\ documents' = [documents EXCEPT ![call[c].id] = c]
  /\ sections' = [sections EXCEPT ![c] = call[c].content]
  /\ \E answer \in {<<"true">>, <<"false">>} : Return(c, answer)
  /\ UNCHANGED <<call, row, deleted>>

\* deleteDocument, which no handler calls: the sections go with the row (on
\* delete cascade).
DeleteDocument(c) ==
  LET gone == documents[call[c].id]
  IN /\ Runs(c, "delete", "begin")
     /\ documents' = [documents EXCEPT ![call[c].id] = None]
     /\ sections' = [d \in Calls |-> IF d = gone THEN <<>> ELSE sections[d]]
     /\ deleted' = deleted \cup ({gone} \ {None})
     /\ \E answer \in {<<"true">>, <<"false">>} : Return(c, answer)
     /\ UNCHANGED <<call, row>>

\* selectDocument: the row of the id, then, with a new snapshot, its sections
\* in whatever order they come.
SelectHeader(c) ==
  LET found == documents[call[c].id]
  IN /\ Runs(c, "select", "begin")
     /\ row' = [row EXCEPT ![c] = found]
     /\ IF found = None THEN Return(c, <<"false">>) ELSE GoTo(c, "rows")
     /\ UNCHANGED <<table, call>>

SelectSections(c) ==
  /\ Runs(c, "select", "rows")
  /\ \E order \in Orders(sections[row[c]]) : Return(c, <<"document", row[c], order>>)
  /\ UNCHANGED <<table, call, row>>

\* selectTwoDocumentFragments: exactly two rows; each goes to the first
\* document if it is of the first, else to the second.
RowsOf(d, title) == {<<d, k>> : k \in {k \in DOMAIN sections[d] : sections[d][k] = title}}
Rows(c) == UNION {RowsOf(d, call[c].title) : d \in {documents[call[c].id], documents[call[c].second]} \ {None}}
TwoRows(c) == Cardinality(Rows(c)) = 2
SelectTwoFragments(c) ==
  LET ofFirst == {r \in Rows(c) : r[1] = documents[call[c].id]}
      ofSecond == Rows(c) \ ofFirst
      OneOf(rows) == IF rows = {} THEN {None} ELSE rows
  IN /\ Runs(c, "fragments", "begin")
     /\ IF ~TwoRows(c) THEN Return(c, <<"false">>)
        ELSE \E first \in OneOf(ofFirst), second \in OneOf(ofSecond) :
               /\ reply' = [reply EXCEPT ![c] = <<"fragments", first, second>>]
               /\ pc' = [pc EXCEPT ![c] = "ml"]
     /\ UNCHANGED <<table, call, row>>

\* The ML server compares the fragments; whatever it says is passed on, and
\* without an answer the connection of the client is dropped.
AskMlServer(c) ==
  /\ Runs(c, "fragments", "ml")
  /\ GoTo(c, "done")
  /\ UNCHANGED <<table, call, row>>

\* Any statement may fail; the transaction is rolled back.
Fail(c) ==
  /\ pc[c] \in {"begin", "sections", "commit", "rows"}
  /\ Return(c, <<"false">>)
  /\ UNCHANGED <<table, call, row>>

Proceed(c) ==
  \/ InsertHeader(c) \/ InsertSections(c) \/ CommitInsert(c) \/ DeleteDocument(c)
  \/ SelectHeader(c) \/ SelectSections(c) \/ SelectTwoFragments(c) \/ AskMlServer(c)

Start(c) ==
  \/ \E id \in Ids, content \in Contents : Begin(c, "insert", id, None, None, content)
  \/ \E id \in Ids : Begin(c, "select", id, None, None, <<>>)
  \/ \E id \in Ids : Begin(c, "delete", id, None, None, <<>>)
  \/ \E id, second \in Ids, title \in Titles : Begin(c, "fragments", id, second, title, <<>>)

AllDone == (\A c \in Calls : pc[c] = "done") /\ UNCHANGED vars
Next == (\E c \in Calls : Start(c) \/ Proceed(c) \/ Fail(c)) \/ AllDone

Spec == Init /\ [][Next]_vars

\* The database answers; an insert that waits is not promised to fail.
FairSpec == Spec /\ \A c \in Calls : WF_vars(Proceed(c))

-----------------------------------------------------------------------------
(***************************************************************************)
(* Every call returns: an insert that waits for another of the same id     *)
(* goes on when that one is over, and no two wait for each other.          *)
(***************************************************************************)
CallsReturn == \A c \in Calls : pc[c] = "begin" ~> pc[c] = "done"

(***************************************************************************)
(* The calls keep the promise of DocumentDirectory, although selectDocument*)
(* takes two statements and an insert many: of all savers of one file at   *)
(* most one is told that it stored it, as long as it is not deleted;       *)
(* a document is read with all the sections of one insert, or with none    *)
(* after a deletion; and the fragments sent to the ML server are sections  *)
(* of the asked title, the first of the first document and the second of   *)
(* the second, one empty only if a document has the title twice.           *)
(***************************************************************************)
stored == [id \in Ids |-> IF documents[id] = None THEN None
                          ELSE [row |-> documents[id], sections |-> sections[documents[id]]]]
Directory == INSTANCE DocumentDirectory
ImplementsDirectory == Directory!Spec
=============================================================================
