-------------------------- MODULE DocumentStoreProofs --------------------------
(***************************************************************************)
(* For any calls, files and contents: the statements of the document store *)
(* implement the directory of documents, in which every operation is one   *)
(* step.  The abstract step of an insert is its COMMIT, that of a read its *)
(* last statement; all the others are stutters.                            *)
(***************************************************************************)
EXTENDS DocumentStore, FiniteSetTheorems, TLAPS

(***************************************************************************)
(* Why the mapping works.  A call that has not returned was told nothing.  *)
(* While an insert is not committed there is no document of its id and no  *)
(* other such insert: its COMMIT finds the directory free.  A row that is  *)
(* there, or was deleted, belongs to an insert that is over, and the row   *)
(* a reader has found is still that of its id or was deleted since, when   *)
(* it has no sections.                                                     *)
(***************************************************************************)
Writing(c) == call[c].kind = "insert" /\ pc[c] \in {"sections", "commit"}
CallsAreAsked ==
  /\ \A c \in Calls : pc[c] = "new" => call[c] = NoCall
  /\ \A c \in Calls : pc[c] # "new" => call[c].kind \in Kinds /\ call[c].id \in Ids
  /\ \A c \in Calls : pc[c] # "new" /\ call[c].kind = "fragments" => call[c].second \in Ids
OnlyDoneAreTold ==
  /\ reply = [c \in Calls |-> reply[c]]
  /\ \A c \in Calls : pc[c] \notin {"ml", "done"} => reply[c] = None
OneWriter ==
  /\ \A c \in Calls : Writing(c) => documents[call[c].id] = None
  /\ \A c, d \in Calls : Writing(c) /\ Writing(d) /\ call[c].id = call[d].id => c = d
RowsWereCommitted ==
  /\ \A id \in Ids : documents[id] # None => pc[documents[id]] = "done"
  /\ \A d \in deleted : pc[d] = "done"
  /\ \A d \in deleted : sections[d] = <<>>
Found(c) ==
  /\ row[c] \in Calls /\ pc[row[c]] = "done"
  /\ call[row[c]].id = call[c].id
  /\ row[c] = documents[call[c].id] \/ row[c] \in deleted
RowsAreRead == \A c \in Calls : pc[c] = "rows" => Found(c)
StoreInv == TypeOK /\ CallsAreAsked /\ OnlyDoneAreTold /\ OneWriter /\ RowsWereCommitted /\ RowsAreRead

LEMMA InitStoreInv == Init => StoreInv
<1>. SUFFICES ASSUME Init PROVE StoreInv
  OBVIOUS
<1>1. TypeOK
  BY DEF Init, TypeOK, NoCall
<1>3. CallsAreAsked /\ OnlyDoneAreTold /\ RowsWereCommitted /\ RowsAreRead
  BY DEF Init, CallsAreAsked, OnlyDoneAreTold, RowsWereCommitted, RowsAreRead
<1>4. OneWriter
  BY DEF Init, OneWriter, Writing
<1>. QED
  BY <1>1, <1>3, <1>4 DEF StoreInv

-----------------------------------------------------------------------------
\* A statement that leaves the tables and the arguments alone: it may take a
\* call on, tell it something at its end, and find it a row.
Moves(c, step) ==
  /\ pc[c] \notin {"new", "done"} /\ (pc[c] = "ml" => step = "done")
  /\ step \in {"sections", "commit", "rows", "ml", "done"}
  /\ pc' = [pc EXCEPT ![c] = step]
  /\ UNCHANGED <<documents, sections, deleted, call>>

LEMMA MoveKeepsInv ==
  ASSUME StoreInv, NEW c \in Calls, NEW step, Moves(c, step),
         reply' = reply \/ \E answer : reply' = [reply EXCEPT ![c] = answer] /\ step \in {"ml", "done"},
         row' = row \/ \E found \in Calls \cup {None} : row' = [row EXCEPT ![c] = found],
         call[c].kind = "insert" /\ step \in {"sections", "commit"} =>
           /\ documents[call[c].id] = None
           /\ \A d \in Calls \ {c} : Writing(d) => call[d].id # call[c].id,
         step = "rows" => Found(c)'
  PROVE  StoreInv'
<1>. USE DEF StoreInv
<1>1. TypeOK'
  BY DEF TypeOK, Moves
<1>2. reply' = [d \in Calls |-> reply'[d]]
  BY DEF OnlyDoneAreTold
<1>3. /\ pc \in [Calls -> {"new", "begin", "sections", "commit", "rows", "ml", "done"}]
      /\ pc'[c] = step /\ \A d \in Calls : d # c => pc'[d] = pc[d]
      /\ UNCHANGED <<documents, sections, deleted, call>>
      /\ pc[c] \notin {"new", "done"} /\ (pc[c] = "ml" => step = "done")
      /\ step \in {"sections", "commit", "rows", "ml", "done"}
  BY DEF TypeOK, Moves
<1>4. \A d \in Calls : d # c => reply'[d] = reply[d] /\ row'[d] = row[d]
  BY DEF TypeOK, OnlyDoneAreTold
<1>5. step \notin {"ml", "done"} => reply'[c] = reply[c]
  OBVIOUS
<1>6. CallsAreAsked'
  BY <1>3 DEF CallsAreAsked
<1>7. OnlyDoneAreTold'
  <2>. SUFFICES ASSUME NEW d \in Calls, pc'[d] \notin {"ml", "done"} PROVE reply'[d] = None
    BY <1>2 DEF OnlyDoneAreTold
  <2>1. CASE d = c
    BY <2>1, <1>3, <1>5 DEF OnlyDoneAreTold
  <2>2. CASE d # c
    BY <2>2, <1>3, <1>4 DEF OnlyDoneAreTold
  <2>. QED
    BY <2>1, <2>2
<1>8. OneWriter'
  <2>1. \A d \in Calls : d # c => Writing(d)' = Writing(d)
    BY <1>3 DEF Writing
  <2>2. Writing(c)' => /\ documents[call[c].id] = None
                       /\ \A d \in Calls \ {c} : Writing(d) => call[d].id # call[c].id
    BY <1>3 DEF Writing
  <2>. QED
    BY <2>1, <2>2, <1>3 DEF OneWriter
<1>9. RowsWereCommitted'
  BY <1>3 DEF RowsWereCommitted, TypeOK
<1>10. RowsAreRead'
  <2>. SUFFICES ASSUME NEW d \in Calls, pc'[d] = "rows" PROVE Found(d)'
    BY DEF RowsAreRead
  <2>1. CASE d = c
    BY <2>1, <1>3
  <2>2. CASE d # c
    <3>1. Found(d) /\ row'[d] = row[d]
      BY <2>2, <1>3, <1>4 DEF RowsAreRead
    <3>. QED
      BY <3>1, <1>3 DEF Found
  <2>. QED
    BY <2>1, <2>2
<1>. QED
  BY <1>1, <1>2, <1>6, <1>7, <1>8, <1>9, <1>10

\* Every statement that leaves the tables alone is such a move.
LEMMA QuietStep ==
  ASSUME StoreInv, NEW c \in Calls,
         \/ InsertHeader(c) \/ InsertSections(c) \/ SelectHeader(c) \/ SelectSections(c)
         \/ SelectTwoFragments(c) \/ AskMlServer(c) \/ Fail(c)
  PROVE  StoreInv'
<1>. USE DEF table, Runs, Return, GoTo, Moves
<1>1. CASE InsertHeader(c)
  <2>1. /\ pc[c] = "begin" /\ call[c].kind = "insert" /\ row' = row
        /\ \A d \in Calls \ {c} : ~Uncommitted(d, call[c].id)
    BY <1>1 DEF InsertHeader
  <2>2. CASE documents[call[c].id] = None
    <3>1. Moves(c, "sections") /\ reply' = reply
      BY <1>1, <2>1, <2>2 DEF InsertHeader
    <3>2. \A d \in Calls \ {c} : Writing(d) => call[d].id # call[c].id
      BY <2>1 DEF Writing, Uncommitted
    <3>. QED
      BY <2>1, <2>2, <3>1, <3>2, MoveKeepsInv
  <2>3. CASE documents[call[c].id] # None
    <3>1. Moves(c, "done") /\ reply' = [reply EXCEPT ![c] = <<"false">>]
      BY <1>1, <2>1, <2>3 DEF InsertHeader
    <3>. QED
      BY <2>1, <3>1, MoveKeepsInv
  <2>. QED
    BY <2>2, <2>3
<1>2. CASE InsertSections(c)
  <2>1. Moves(c, "commit") /\ reply' = reply /\ row' = row /\ Writing(c)
    BY <1>2 DEF InsertSections, Writing
  <2>2. /\ documents[call[c].id] = None
        /\ \A d \in Calls \ {c} : Writing(d) => call[d].id # call[c].id
    BY <2>1 DEF StoreInv, OneWriter
  <2>. QED
    BY <2>1, <2>2, MoveKeepsInv
<1>3. CASE SelectHeader(c)
  <2>1. /\ pc[c] = "begin" /\ call[c].kind = "select" /\ call[c].id \in Ids
        /\ row' = [row EXCEPT ![c] = documents[call[c].id]]
        /\ documents[call[c].id] \in Calls \cup {None}
    BY <1>3 DEF SelectHeader, StoreInv, TypeOK, CallsAreAsked
  <2>2. CASE documents[call[c].id] = None
    <3>1. Moves(c, "done") /\ reply' = [reply EXCEPT ![c] = <<"false">>]
      BY <1>3, <2>1, <2>2 DEF SelectHeader
    <3>. QED
      BY <2>1, <3>1, MoveKeepsInv
  <2>3. CASE documents[call[c].id] # None
    <3>1. Moves(c, "rows") /\ reply' = reply
      BY <1>3, <2>1, <2>3 DEF SelectHeader
    <3>2. row'[c] = documents[call[c].id] /\ row'[c] \in Calls
      BY <2>1, <2>3 DEF StoreInv, TypeOK
    <3>3. pc[row'[c]] = "done" /\ call[row'[c]].id = call[c].id /\ row'[c] # c
      BY <2>1, <2>3, <3>2 DEF StoreInv, TypeOK, RowsWereCommitted
    <3>4. pc'[row'[c]] = "done"
      BY <3>1, <3>2, <3>3 DEF StoreInv, TypeOK
    <3>5. Found(c)'
      BY <3>1, <3>2, <3>3, <3>4 DEF Found
    <3>. QED
      BY <2>1, <3>1, <3>5, MoveKeepsInv
  <2>. QED
    BY <2>2, <2>3
<1>4. CASE SelectSections(c)
  <2>1. Moves(c, "done") /\ row' = row /\ \E answer : reply' = [reply EXCEPT ![c] = answer]
    BY <1>4 DEF SelectSections
  <2>. QED
    BY <2>1, MoveKeepsInv
<1>5. CASE SelectTwoFragments(c)
  <2>1. /\ row' = row
        /\ \E step \in {"ml", "done"} : Moves(c, step) /\ \E answer : reply' = [reply EXCEPT ![c] = answer]
    BY <1>5 DEF SelectTwoFragments
  <2>. QED
    BY <2>1, MoveKeepsInv
<1>6. CASE AskMlServer(c)
  <2>1. Moves(c, "done") /\ row' = row /\ reply' = reply
    BY <1>6 DEF AskMlServer
  <2>. QED
    BY <2>1, MoveKeepsInv
<1>7. CASE Fail(c)
  <2>1. Moves(c, "done") /\ row' = row /\ \E answer : reply' = [reply EXCEPT ![c] = answer]
    BY <1>7 DEF Fail
  <2>. QED
    BY <2>1, MoveKeepsInv
<1>. QED
  BY <1>1, <1>2, <1>3, <1>4, <1>5, <1>6, <1>7

\* A new call has no row and is no writer: nothing is about it yet.
LEMMA StartStep ==
  ASSUME StoreInv, NEW c \in Calls, Start(c)
  PROVE  StoreInv'
<1>. USE DEF StoreInv
<1>1. /\ pc[c] = "new" /\ pc' = [pc EXCEPT ![c] = "begin"]
      /\ UNCHANGED <<documents, sections, deleted, row, reply>>
  BY DEF Start, Begin, table
<1>2. PICK asked \in [kind : Kinds, id : Ids, second : Ids \cup {None}, title : Titles \cup {None},
                      content : Contents \cup {<<>>}] :
          call' = [call EXCEPT ![c] = asked] /\ (asked.kind = "fragments" => asked.second \in Ids)
  <2>1. PICK kind \in Kinds, id \in Ids, second \in Ids \cup {None}, title \in Titles \cup {None},
             content \in Contents \cup {<<>>} :
          Begin(c, kind, id, second, title, content) /\ (kind = "fragments" => second \in Ids)
    BY DEF Start, Kinds
  <2>. DEFINE asked == [kind |-> kind, id |-> id, second |-> second, title |-> title, content |-> content]
  <2>2. call' = [call EXCEPT ![c] = asked]
    BY <2>1 DEF Begin
  <2>3. asked \in [kind : Kinds, id : Ids, second : Ids \cup {None}, title : Titles \cup {None},
                  content : Contents \cup {<<>>}]
    OBVIOUS
  <2>4. asked.kind = "fragments" => asked.second \in Ids
    BY <2>1
  <2>. QED
    BY ONLY <2>2, <2>3, <2>4
<1>3. /\ call'[c] = asked /\ pc'[c] = "begin"
      /\ \A d \in Calls : d # c => call'[d] = call[d] /\ pc'[d] = pc[d]
      /\ \A d \in Calls : pc[d] = "done" => d # c
  BY <1>1, <1>2 DEF TypeOK
<1>4. \A id \in Ids : documents[id] # None => documents[id] # c /\ documents[id] \in Calls
  BY <1>1 DEF RowsWereCommitted, TypeOK
<1>5. TypeOK'
  <2>1. /\ pc' \in [Calls -> {"new", "begin", "sections", "commit", "rows", "ml", "done"}]
        /\ call' \in [Calls -> [kind : Kinds \cup {None}, id : Ids \cup {None}, second : Ids \cup {None},
                                title : Titles \cup {None}, content : Contents \cup {<<>>}]]
    BY <1>1, <1>2 DEF TypeOK
  <2>2. \A id \in Ids : documents'[id] # None => call'[documents'[id]].id = id /\ documents'[id] \notin deleted'
    BY <1>1, <1>3, <1>4 DEF TypeOK
  <2>. QED
    BY <1>1, <2>1, <2>2 DEF TypeOK
<1>6. CallsAreAsked'
  BY <1>2, <1>3 DEF CallsAreAsked
<1>7. OnlyDoneAreTold'
  BY <1>1, <1>3 DEF OnlyDoneAreTold
<1>8. OneWriter'
  <2>1. ~Writing(c)' /\ \A d \in Calls : d # c => Writing(d)' = Writing(d)
    BY <1>3 DEF Writing
  <2>. QED
    BY <1>1, <1>3, <2>1 DEF OneWriter
<1>9. RowsWereCommitted'
  BY <1>1, <1>3, <1>4 DEF RowsWereCommitted, TypeOK
<1>10. RowsAreRead'
  <2>. SUFFICES ASSUME NEW d \in Calls, pc'[d] = "rows" PROVE Found(d)'
    BY DEF RowsAreRead
  <2>1. d # c /\ Found(d)
    BY <1>3 DEF RowsAreRead
  <2>. QED
    BY <1>1, <1>3, <2>1 DEF Found
<1>. QED
  BY <1>5, <1>6, <1>7, <1>8, <1>9, <1>10

\* COMMIT: the row and its sections are there at once, where nothing was.
LEMMA CommitStep ==
  ASSUME StoreInv, NEW c \in Calls, CommitInsert(c)
  PROVE  StoreInv'
<1>. USE DEF StoreInv
<1>1. /\ call[c].kind = "insert" /\ pc[c] = "commit" /\ pc' = [pc EXCEPT ![c] = "done"]
      /\ documents' = [documents EXCEPT ![call[c].id] = c]
      /\ sections' = [sections EXCEPT ![c] = call[c].content]
      /\ UNCHANGED <<call, row, deleted>> /\ \E answer : reply' = [reply EXCEPT ![c] = answer]
  BY DEF CommitInsert, Runs, Return
<1>2. /\ call[c].id \in Ids /\ documents[call[c].id] = None /\ c \notin deleted
      /\ \A d \in Calls \ {c} : Writing(d) => call[d].id # call[c].id
  BY <1>1 DEF CallsAreAsked, OneWriter, Writing, RowsWereCommitted
<1>3. /\ pc'[c] = "done" /\ \A d \in Calls : d # c => pc'[d] = pc[d] /\ reply'[d] = reply[d] /\ sections'[d] = sections[d]
      /\ documents'[call[c].id] = c
      /\ \A id \in Ids : id # call[c].id => documents'[id] = documents[id]
  BY <1>1, <1>2 DEF TypeOK, OnlyDoneAreTold
<1>4. TypeOK'
  <2>1. call[c].content \in Contents \cup {<<>>}
    BY DEF TypeOK
  <2>2. documents' \in [Ids -> Calls \cup {None}] /\ sections' \in [Calls -> Contents \cup {<<>>}]
    BY <1>1, <2>1 DEF TypeOK
  <2>3. \A id \in Ids : documents'[id] # None => call'[documents'[id]].id = id /\ documents'[id] \notin deleted'
    BY <1>1, <1>2, <1>3 DEF TypeOK
  <2>. QED
    BY <1>1, <2>2, <2>3 DEF TypeOK
<1>5. CallsAreAsked'
  BY <1>1, <1>3 DEF CallsAreAsked
<1>6. OnlyDoneAreTold'
  BY <1>1, <1>3 DEF OnlyDoneAreTold
<1>7. OneWriter'
  <2>1. ~Writing(c)' /\ \A d \in Calls : d # c => Writing(d)' = Writing(d)
    BY <1>1, <1>3 DEF Writing
  <2>2. \A d \in Calls : Writing(d)' => call[d].id \in Ids /\ call[d].id # call[c].id /\ documents[call[d].id] = None
    BY <1>2, <2>1 DEF OneWriter, Writing, CallsAreAsked
  <2>. QED
    BY <1>1, <1>3, <2>1, <2>2 DEF OneWriter
<1>8. RowsWereCommitted'
  BY <1>1, <1>2, <1>3, NoneAssumption DEF RowsWereCommitted, TypeOK
<1>9. RowsAreRead'
  <2>. SUFFICES ASSUME NEW d \in Calls, pc'[d] = "rows" PROVE Found(d)'
    BY DEF RowsAreRead
  <2>1. d # c /\ Found(d) /\ call[d].id \in Ids
    BY <1>3 DEF RowsAreRead, CallsAreAsked
  <2>2. pc'[row[d]] = "done" /\ row'[d] = row[d] /\ call' = call /\ deleted' = deleted
    BY <1>1, <1>3, <2>1 DEF Found
  <2>3. documents[call[d].id] = row[d] => documents'[call[d].id] = row[d]
    BY <1>2, <1>3, <2>1, NoneAssumption DEF Found
  <2>. QED
    BY <2>1, <2>2, <2>3 DEF Found
<1>. QED
  BY <1>4, <1>5, <1>6, <1>7, <1>8, <1>9

\* A deletion: the row goes with its sections, for whoever has found it too.
LEMMA DeleteStep ==
  ASSUME StoreInv, NEW c \in Calls, DeleteDocument(c)
  PROVE  StoreInv'
<1>. USE DEF StoreInv
<1>. DEFINE gone == documents[call[c].id]
<1>1. /\ call[c].kind = "delete" /\ pc[c] = "begin" /\ pc' = [pc EXCEPT ![c] = "done"]
      /\ documents' = [documents EXCEPT ![call[c].id] = None]
      /\ sections' = [d \in Calls |-> IF d = gone THEN <<>> ELSE sections[d]]
      /\ deleted' = deleted \cup ({gone} \ {None})
      /\ UNCHANGED <<call, row>> /\ \E answer : reply' = [reply EXCEPT ![c] = answer]
  BY DEF DeleteDocument, Runs, Return
<1>2. /\ call[c].id \in Ids /\ gone \in Calls \cup {None}
      /\ gone # None => pc[gone] = "done" /\ gone # c /\ gone \in Calls
  BY <1>1 DEF CallsAreAsked, TypeOK, RowsWereCommitted
<1>3. /\ pc'[c] = "done" /\ \A d \in Calls : d # c => pc'[d] = pc[d] /\ reply'[d] = reply[d]
      /\ documents'[call[c].id] = None
      /\ \A id \in Ids : id # call[c].id => documents'[id] = documents[id]
  BY <1>1, <1>2 DEF TypeOK, OnlyDoneAreTold
<1>4. TypeOK'
  <2>1. documents' \in [Ids -> Calls \cup {None}] /\ sections' \in [Calls -> Contents \cup {<<>>}]
    BY <1>1 DEF TypeOK
  <2>2. deleted' \subseteq Calls
    BY <1>1, <1>2 DEF TypeOK
  <2>3. \A id \in Ids : documents'[id] # None => call'[documents'[id]].id = id /\ documents'[id] \notin deleted'
    <3>. SUFFICES ASSUME NEW id \in Ids, documents'[id] # None
                  PROVE  call'[documents'[id]].id = id /\ documents'[id] \notin deleted'
      OBVIOUS
    <3>1. id # call[c].id /\ documents'[id] = documents[id] /\ call' = call
      BY <1>1, <1>3
    <3>2. call[documents[id]].id = id /\ documents[id] \notin deleted
      BY <3>1 DEF TypeOK
    <3>3. gone # None => call[gone].id = call[c].id
      BY <1>2 DEF TypeOK
    <3>. QED
      BY <1>1, <3>1, <3>2, <3>3
  <2>. QED
    BY <1>1, <2>1, <2>2, <2>3 DEF TypeOK
<1>5. CallsAreAsked'
  BY <1>1, <1>3 DEF CallsAreAsked
<1>6. OnlyDoneAreTold'
  BY <1>1, <1>3 DEF OnlyDoneAreTold
<1>7. OneWriter'
  <2>1. ~Writing(c)' /\ \A d \in Calls : d # c => Writing(d)' = Writing(d)
    BY <1>1, <1>3 DEF Writing
  <2>2. \A d \in Calls : Writing(d)' => call[d].id \in Ids /\ documents[call[d].id] = None
    BY <2>1 DEF OneWriter, Writing, CallsAreAsked
  <2>. QED
    BY <1>1, <1>3, <2>1, <2>2 DEF OneWriter
<1>8. RowsWereCommitted'
  <2>1. \A d \in Calls : pc[d] = "done" => pc'[d] = "done"
    BY <1>3
  <2>2. \A id \in Ids : documents'[id] # None => pc'[documents'[id]] = "done"
    BY <1>3, <2>1 DEF RowsWereCommitted, TypeOK
  <2>3. \A d \in deleted' : d \in Calls /\ pc[d] = "done" /\ (d = gone \/ sections[d] = <<>>)
    BY <1>1, <1>2 DEF RowsWereCommitted, TypeOK
  <2>4. \A d \in deleted' : sections'[d] = <<>>
    BY <1>1, <2>3
  <2>. QED
    BY <2>1, <2>2, <2>3, <2>4 DEF RowsWereCommitted
<1>9. RowsAreRead'
  <2>. SUFFICES ASSUME NEW d \in Calls, pc'[d] = "rows" PROVE Found(d)'
    BY DEF RowsAreRead
  <2>1. d # c /\ Found(d) /\ call[d].id \in Ids
    BY <1>3 DEF RowsAreRead, CallsAreAsked
  <2>2. pc'[row[d]] = "done" /\ row'[d] = row[d] /\ call' = call /\ row[d] # None
    BY <1>1, <1>3, <2>1, NoneAssumption DEF Found
  <2>3. row[d] = documents[call[d].id] => row[d] = documents'[call[d].id] \/ row[d] \in deleted'
    BY <1>1, <1>3, <2>1, <2>2
  <2>4. row[d] \in deleted => row[d] \in deleted'
    BY <1>1
  <2>. QED
    BY <2>1, <2>2, <2>3, <2>4 DEF Found
<1>. QED
  BY <1>4, <1>5, <1>6, <1>7, <1>8, <1>9

LEMMA NextStoreInv == StoreInv /\ [Next]_vars => StoreInv'
<1>. SUFFICES ASSUME StoreInv, [Next]_vars PROVE StoreInv'
  OBVIOUS
<1>1. CASE UNCHANGED vars
  BY <1>1 DEF vars, table, StoreInv, TypeOK, CallsAreAsked, OnlyDoneAreTold, OneWriter, Writing,
              RowsWereCommitted, RowsAreRead, Found
<1>2. ASSUME NEW c \in Calls, Start(c) \/ Proceed(c) \/ Fail(c)
      PROVE  StoreInv'
  BY <1>2, StartStep, QuietStep, CommitStep, DeleteStep DEF Proceed
<1>. QED
  BY <1>1, <1>2 DEF Next, AllDone

(***************************************************************************)
(* The invariant holds of every behaviour.                                 *)
(***************************************************************************)
THEOREM StoreInvariance == Spec => []StoreInv
<1>. QED
  BY InitStoreInv, NextStoreInv, PTL DEF Spec

-----------------------------------------------------------------------------
\* What the directory holds, by the tables.
LEMMA StoredAt ==
  ASSUME StoreInv, NEW id \in Ids
  PROVE  /\ documents[id] = None => stored[id] = None
         /\ documents[id] # None => /\ stored[id] # None
                                   /\ stored[id] = [row |-> documents[id], sections |-> sections[documents[id]]]
<1>1. stored[id] = IF documents[id] = None THEN None
                   ELSE [row |-> documents[id], sections |-> sections[documents[id]]]
  BY DEF stored
<1>2. documents[id] # None =>
        [row |-> documents[id], sections |-> sections[documents[id]]] \in [row : Calls, sections : Contents \cup {<<>>}]
  BY DEF StoreInv, TypeOK
<1>. QED
  BY <1>1, <1>2, NoneAssumption

LEMMA InitMaps == Init => Directory!Init
  BY DEF Init, Directory!Init, stored, NoCall, Directory!NoRequest

\* Whatever leaves the tables, the arguments and the answers alone.
LEMMA StutterStep ==
  ASSUME UNCHANGED <<documents, sections, deleted, call, reply>>
  PROVE  UNCHANGED <<stored, deleted, call, reply>>
  BY DEF stored

LEMMA AskStep ==
  ASSUME StoreInv, NEW c \in Calls, Start(c)
  PROVE  Directory!Ask(c)
<1>1. PICK asked \in Directory!Requests : call' = [call EXCEPT ![c] = asked]
  BY DEF Start, Begin, Directory!Requests
<1>2. pc[c] = "new" /\ UNCHANGED <<documents, sections, deleted, reply>>
  BY DEF Start, Begin, table
<1>3. call[c] = Directory!NoRequest
  BY <1>2 DEF StoreInv, CallsAreAsked, NoCall, Directory!NoRequest
<1>4. call'[c] = asked
  BY <1>1 DEF StoreInv, TypeOK
<1>5. UNCHANGED stored
  BY <1>2 DEF stored
<1>. QED
  BY <1>1, <1>2, <1>3, <1>4, <1>5 DEF Directory!Ask

\* Whoever is told something was told nothing before.
LEMMA ReturnTells ==
  ASSUME StoreInv, NEW c \in Calls, pc[c] \notin {"ml", "done"}, NEW answer, Return(c, answer), UNCHANGED call
  PROVE  Directory!Told(c, answer)
  BY DEF StoreInv, OnlyDoneAreTold, Return, Directory!Told

LEMMA RefuseStep ==
  ASSUME StoreInv, NEW c \in Calls, pc[c] \notin {"new", "ml", "done"}, Return(c, <<"false">>),
         UNCHANGED <<documents, sections, deleted, call>>
  PROVE  Directory!Refuse(c)
<1>1. call[c].id \in Ids
  BY DEF StoreInv, CallsAreAsked
<1>2. call[c] # Directory!NoRequest
  BY <1>1, NoneAssumption DEF Directory!NoRequest
<1>3. Directory!Told(c, <<"false">>)
  BY ReturnTells
<1>4. UNCHANGED stored
  BY DEF stored
<1>. QED
  BY <1>2, <1>3, <1>4 DEF Directory!Refuse

\* The COMMIT stores the whole document where there was none.
LEMMA InsertMaps ==
  ASSUME StoreInv, NEW c \in Calls, CommitInsert(c)
  PROVE  Directory!Insert(c)
<1>1. /\ call[c].kind = "insert" /\ pc[c] = "commit" /\ UNCHANGED <<deleted, call>>
      /\ documents' = [documents EXCEPT ![call[c].id] = c]
      /\ sections' = [sections EXCEPT ![c] = call[c].content]
  BY DEF CommitInsert, Runs
<1>2. call[c].id \in Ids /\ documents[call[c].id] = None /\ c # None
  BY <1>1, NoneAssumption DEF StoreInv, CallsAreAsked, OneWriter, Writing
<1>3. \E answer \in {<<"true">>, <<"false">>} : Directory!Told(c, answer)
  BY <1>1, ReturnTells DEF CommitInsert
<1>4. \A id \in Ids \ {call[c].id} : documents'[id] = documents[id] /\ documents[id] # c
  BY <1>1, <1>2 DEF StoreInv, TypeOK, RowsWereCommitted
<1>5. documents'[call[c].id] = c /\ sections'[c] = call[c].content
      /\ \A d \in Calls : d # c => sections'[d] = sections[d]
  BY <1>1, <1>2 DEF StoreInv, TypeOK
<1>6. stored' = [stored EXCEPT ![call[c].id] = [row |-> c, sections |-> call[c].content]]
  <2>1. ASSUME NEW id \in Ids \ {call[c].id}
        PROVE  stored'[id] = stored[id]
    <3>1. documents[id] # None => documents[id] \in Calls /\ documents[id] # c
      BY <1>4 DEF StoreInv, TypeOK
    <3>2. documents[id] # None => sections'[documents[id]] = sections[documents[id]]
      BY <1>5, <3>1
    <3>. QED
      BY <1>4, <3>2 DEF stored
  <2>2. stored'[call[c].id] = [row |-> c, sections |-> call[c].content]
    BY <1>2, <1>5 DEF stored
  <2>3. stored = [id \in Ids |-> stored[id]] /\ stored' = [id \in Ids |-> stored'[id]]
    BY DEF stored
  <2>. QED
    BY ONLY <1>2, <2>1, <2>2, <2>3
<1>7. stored[call[c].id] = None
  BY <1>2 DEF stored
<1>. QED
  BY <1>1, <1>3, <1>6, <1>7 DEF Directory!Insert

LEMMA DeleteMaps ==
  ASSUME StoreInv, NEW c \in Calls, DeleteDocument(c)
  PROVE  Directory!Delete(c)
<1>. DEFINE gone == documents[call[c].id]
<1>1. /\ call[c].kind = "delete" /\ pc[c] = "begin" /\ UNCHANGED call
      /\ documents' = [documents EXCEPT ![call[c].id] = None]
      /\ sections' = [d \in Calls |-> IF d = gone THEN <<>> ELSE sections[d]]
      /\ deleted' = deleted \cup ({gone} \ {None})
  BY DEF DeleteDocument, Runs
<1>2. call[c].id \in Ids
  BY <1>1 DEF StoreInv, CallsAreAsked
<1>3. \E answer \in {<<"true">>, <<"false">>} : Directory!Told(c, answer)
  BY <1>1, ReturnTells DEF DeleteDocument
<1>4. \A id \in Ids \ {call[c].id} : /\ documents'[id] = documents[id]
                                     /\ documents[id] # None => documents[id] \in Calls /\ documents[id] # gone
  BY <1>1, <1>2 DEF StoreInv, TypeOK
<1>5. stored' = [stored EXCEPT ![call[c].id] = None]
  <2>1. \A id \in Ids \ {call[c].id} : stored'[id] = stored[id]
    BY <1>1, <1>4 DEF stored
  <2>2. stored'[call[c].id] = None
    BY <1>1, <1>2 DEF stored, StoreInv, TypeOK
  <2>. QED
    BY <1>2, <2>1, <2>2 DEF stored
<1>6. deleted' = deleted \cup (IF stored[call[c].id] = None THEN {} ELSE {stored[call[c].id].row})
  <2>1. CASE gone = None
    BY <1>1, <1>2, <2>1, StoredAt
  <2>2. CASE gone # None
    <3>1. stored[call[c].id] # None /\ stored[call[c].id] = [row |-> gone, sections |-> sections[gone]]
      BY <1>2, <2>2, StoredAt
    <3>2. stored[call[c].id].row = gone
      BY <3>1
    <3>. QED
      BY <1>1, <2>2, <3>1, <3>2
  <2>. QED
    BY <2>1, <2>2
<1>. QED
  BY <1>1, <1>3, <1>5, <1>6 DEF Directory!Delete

LEMMA SameOrders == ASSUME NEW seq PROVE Directory!Orders(seq) = Orders(seq)
  BY DEF Orders, Directory!Orders, IsInjective, Directory!IsInjective

LEMMA NothingToOrder == ASSUME NEW order \in Orders(<<>>) PROVE order = <<>>
<1>1. PICK p : order = [k \in DOMAIN <<>> |-> <<>>[p[k]]]
  BY DEF Orders
<1>. QED
  BY <1>1

\* The sections of a row that is still there, or none of one that was deleted
\* since: then the id may have another document, which is not read.
LEMMA SelectMaps ==
  ASSUME StoreInv, NEW c \in Calls, SelectSections(c)
  PROVE  Directory!Select(c) \/ Directory!SelectDeleted(c)
<1>1. /\ call[c].kind = "select" /\ pc[c] = "rows" /\ call[c].id \in Ids
      /\ UNCHANGED <<documents, sections, deleted, call>>
  BY DEF SelectSections, Runs, table, StoreInv, CallsAreAsked
<1>2. PICK order \in Orders(sections[row[c]]) : Return(c, <<"document", row[c], order>>)
  BY DEF SelectSections
<1>3. Directory!Told(c, <<"document", row[c], order>>)
  BY <1>1, <1>2, ReturnTells
<1>4. Found(c)
  BY <1>1 DEF StoreInv, RowsAreRead
<1>5. UNCHANGED <<stored, deleted>>
  BY <1>1 DEF stored
<1>6. CASE row[c] = documents[call[c].id]
  <2>1. documents[call[c].id] # None
    BY <1>4, <1>6, NoneAssumption DEF Found
  <2>2. /\ stored[call[c].id] # None
        /\ stored[call[c].id] = [row |-> row[c], sections |-> sections[row[c]]]
    BY <1>1, <1>6, <2>1, StoredAt
  <2>3. stored[call[c].id].row = row[c] /\ stored[call[c].id].sections = sections[row[c]]
    BY <2>2
  <2>4. order \in Directory!Orders(stored[call[c].id].sections)
    BY <2>3, SameOrders
  <2>. QED
    BY <1>1, <1>3, <1>5, <2>2, <2>3, <2>4 DEF Directory!Select
<1>7. CASE row[c] \in deleted
  <2>1. sections[row[c]] = <<>> /\ call[row[c]].id = call[c].id
    BY <1>4, <1>7 DEF StoreInv, RowsWereCommitted, Found
  <2>2. order = <<>>
    BY <2>1, NothingToOrder
  <2>. QED
    BY <1>1, <1>3, <1>5, <1>7, <2>1, <2>2 DEF Directory!SelectDeleted
<1>. QED
  BY <1>4, <1>6, <1>7 DEF Found

\* The rows of one title are the fragments of the two documents.
LEMMA RowsAreFragments ==
  ASSUME StoreInv, NEW id \in Ids, NEW title
  PROVE  /\ documents[id] = None => Directory!Fragments(id, title) = {}
         /\ documents[id] # None => Directory!Fragments(id, title) = RowsOf(documents[id], title)
<1>1. CASE documents[id] = None
  BY <1>1, StoredAt DEF Directory!Fragments
<1>2. CASE documents[id] # None
  <2>1. stored[id] # None /\ stored[id] = [row |-> documents[id], sections |-> sections[documents[id]]]
    BY <1>2, StoredAt
  <2>2. stored[id].row = documents[id] /\ stored[id].sections = sections[documents[id]]
    BY <2>1
  <2>. QED
    BY <1>2, <2>1, <2>2 DEF Directory!Fragments, RowsOf
<1>. QED
  BY <1>1, <1>2

LEMMA SameCardinality == ASSUME NEW S PROVE Directory!Cardinality(S) = Cardinality(S)
  BY DEF Cardinality, Directory!Cardinality

LEMMA FragmentsMap ==
  ASSUME StoreInv, NEW c \in Calls, SelectTwoFragments(c), TwoRows(c)
  PROVE  Directory!SelectFragments(c)
<1>. DEFINE d1 == documents[call[c].id]
            d2 == documents[call[c].second]
            first == Directory!Fragments(call[c].id, call[c].title)
            second == Directory!Fragments(call[c].second, call[c].title)
            ofFirst == {r \in Rows(c) : r[1] = d1}
            ofSecond == Rows(c) \ ofFirst
            OneOf(rows) == IF rows = {} THEN {None} ELSE rows
<1>1. /\ call[c].kind = "fragments" /\ pc[c] = "begin" /\ call[c].id \in Ids
      /\ UNCHANGED <<documents, sections, deleted, call>>
  BY DEF SelectTwoFragments, Runs, table, StoreInv, CallsAreAsked
<1>2. PICK a \in OneOf(ofFirst), b \in OneOf(ofSecond) : reply' = [reply EXCEPT ![c] = <<"fragments", a, b>>]
  BY DEF SelectTwoFragments
<1>3. Directory!Told(c, <<"fragments", a, b>>)
  BY <1>1, <1>2 DEF Directory!Told, StoreInv, OnlyDoneAreTold
<1>4. UNCHANGED <<stored, deleted>>
  BY <1>1 DEF stored
<1>5. /\ \A r \in first : d1 # None /\ r[1] = d1
      /\ \A r \in second : d2 # None /\ r[1] = d2
      /\ d1 = d2 => first = second
      /\ Rows(c) = first \cup second
  <2>1. call[c].second \in Ids
    BY <1>1 DEF StoreInv, CallsAreAsked
  <2>2. /\ first = IF d1 = None THEN {} ELSE RowsOf(d1, call[c].title)
        /\ second = IF d2 = None THEN {} ELSE RowsOf(d2, call[c].title)
    BY <1>1, <2>1, RowsAreFragments
  <2>3. \A d : \A r \in RowsOf(d, call[c].title) : r[1] = d
    BY DEF RowsOf
  <2>4. Rows(c) = UNION {RowsOf(d, call[c].title) : d \in {d1, d2} \ {None}}
    BY DEF Rows
  <2>. HIDE DEF first, second, d1, d2
  <2>5. Rows(c) = first \cup second
    BY ONLY <2>2, <2>4
  <2>. QED
    BY ONLY <2>2, <2>3, <2>5
<1>6. Cardinality(Rows(c)) = 2 /\ Rows(c) # {}
  BY FS_EmptySet DEF TwoRows
<1>. HIDE DEF first, second, d1, d2
<1>7. ofFirst = first /\ ofSecond \subseteq second /\ (first = {} => ofSecond = second)
  BY ONLY <1>5
<1>8. CASE ofFirst # {} /\ ofSecond # {}
  <2>1. a \in first /\ b \in second
    BY <1>2, <1>7, <1>8
  <2>. QED
    BY <1>1, <1>3, <1>4, <2>1 DEF Directory!SelectFragments, first, second
<1>9. CASE ofFirst = {}
  <2>1. second = Rows(c) /\ ofSecond = Rows(c)
    BY ONLY <1>5, <1>7, <1>9
  <2>2. a = None /\ b \in second /\ Cardinality(second) > 1
    BY <1>2, <1>6, <1>9, <2>1
  <2>. QED
    BY <1>1, <1>3, <1>4, <2>2, SameCardinality DEF Directory!SelectFragments, first, second
<1>10. CASE ofFirst # {} /\ ofSecond = {}
  <2>1. first = Rows(c)
    BY ONLY <1>5, <1>7, <1>10
  <2>2. b = None /\ a \in first /\ Cardinality(first) > 1
    BY <1>2, <1>6, <1>7, <1>10, <2>1
  <2>. QED
    BY <1>1, <1>3, <1>4, <2>2, SameCardinality DEF Directory!SelectFragments, first, second
<1>. QED
  BY <1>8, <1>9, <1>10

\* Every step of the store is a step of the directory or none.
LEMMA NextMaps == StoreInv /\ [Next]_vars => [Directory!Next]_<<stored, deleted, call, reply>>
<1>. SUFFICES ASSUME StoreInv, [Next]_vars
              PROVE  Directory!Next \/ UNCHANGED <<stored, deleted, call, reply>>
  OBVIOUS
<1>1. CASE UNCHANGED vars
  BY <1>1, StutterStep DEF vars, table
<1>2. ASSUME NEW c \in Calls, Start(c)
      PROVE  Directory!Next
  BY <1>2, AskStep DEF Directory!Next
<1>3. ASSUME NEW c \in Calls, CommitInsert(c) \/ DeleteDocument(c) \/ SelectSections(c)
      PROVE  Directory!Next
  BY <1>3, InsertMaps, DeleteMaps, SelectMaps DEF Directory!Next
<1>4. ASSUME NEW c \in Calls, InsertSections(c) \/ AskMlServer(c)
      PROVE  UNCHANGED <<stored, deleted, call, reply>>
  BY <1>4, StutterStep DEF InsertSections, AskMlServer, GoTo, table
<1>5. ASSUME NEW c \in Calls, InsertHeader(c) \/ SelectHeader(c)
      PROVE  Directory!Next \/ UNCHANGED <<stored, deleted, call, reply>>
  <2>1. pc[c] = "begin" /\ UNCHANGED <<documents, sections, deleted, call>>
    BY <1>5 DEF InsertHeader, SelectHeader, Runs, table
  <2>2. UNCHANGED reply \/ Return(c, <<"false">>)
    BY <1>5 DEF InsertHeader, SelectHeader, GoTo
  <2>. QED
    BY <2>1, <2>2, StutterStep, RefuseStep DEF Directory!Next
<1>6. ASSUME NEW c \in Calls, SelectTwoFragments(c)
      PROVE  Directory!Next
  <2>1. pc[c] = "begin" /\ UNCHANGED <<documents, sections, deleted, call>>
    BY <1>6 DEF SelectTwoFragments, Runs, table
  <2>2. ~TwoRows(c) => Return(c, <<"false">>)
    BY <1>6 DEF SelectTwoFragments
  <2>. QED
    BY <1>6, <2>1, <2>2, RefuseStep, FragmentsMap DEF Directory!Next
<1>7. ASSUME NEW c \in Calls, Fail(c)
      PROVE  Directory!Next
  BY <1>7, RefuseStep DEF Fail, table, Directory!Next
<1>. QED
  BY <1>1, <1>2, <1>3, <1>4, <1>5, <1>6, <1>7 DEF Next, Proceed, AllDone

(***************************************************************************)
(* The document store implements the directory: of all who save one file   *)
(* at most one is told that it stored it while it is not deleted, a        *)
(* document is read with the sections of one insert, or with none after a  *)
(* deletion, and the fragments that are compared are of the title and the  *)
(* documents that were asked for.                                          *)
(***************************************************************************)
THEOREM StoreImplementsDirectory == Spec => ImplementsDirectory
<1>. QED
  BY InitMaps, NextMaps, StoreInvariance, PTL DEF Spec, ImplementsDirectory, Directory!Spec
=============================================================================
