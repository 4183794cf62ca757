--------------------------- MODULE DocumentDirectory ---------------------------
(***************************************************************************)
(* What the document store promises: a document is stored whole, once per  *)
(* Google Drive id, and removed whole, each in one step; and what a call   *)
(* is told was true of the store at one moment of the call.  Two things    *)
(* are all it does not promise: a document that goes while it is read may  *)
(* seem to have no sections, and of two documents that are compared by a   *)
(* title which one of them has twice only that one may be found.           *)
(***************************************************************************)
EXTENDS Naturals, Sequences, FiniteSets, Functions

CONSTANTS Calls, Ids, Titles, Contents, None

VARIABLES
  stored,  \* for each id None or [row, sections]
  deleted, \* the rows of the documents that were removed
  call,    \* what each call asks for
  reply    \* what each call was told, or None

Requests == [kind : {"insert", "select", "delete", "fragments"}, id : Ids, second : Ids \cup {None},
             title : Titles \cup {None}, content : Contents \cup {<<>>}]
NoRequest == [kind |-> None, id |-> None, second |-> None, title |-> None, content |-> <<>>]

\* The order of the sections of a document is not part of the promise.
Orders(sections) ==
  {[k \in DOMAIN sections |-> sections[p[k]]] : p \in {f \in [DOMAIN sections -> DOMAIN sections] : IsInjective(f)}}

Init ==
  /\ stored = [id \in Ids |-> None] /\ deleted = {}
  /\ call = [c \in Calls |-> NoRequest] /\ reply = [c \in Calls |-> None]

Ask(c) ==
  /\ call[c] = NoRequest
  /\ call'[c] \in Requests /\ call' = [call EXCEPT ![c] = call'[c]]
  /\ UNCHANGED <<stored, deleted, reply>>

Told(c, answer) == reply[c] = None /\ reply' = [reply EXCEPT ![c] = answer] /\ UNCHANGED call

\* A stored document may be reported as not stored, and a removed one as not
\* removed: the COMMIT got no answer.
Insert(c) ==
  /\ call[c].kind = "insert"
  /\ stored[call[c].id] = None
  /\ stored' = [stored EXCEPT ![call[c].id] = [row |-> c, sections |-> call[c].content]]
  /\ \E answer \in {<<"true">>, <<"false">>} : Told(c, answer)
  /\ UNCHANGED deleted

Delete(c) ==
  LET gone == stored[call[c].id]
  IN /\ call[c].kind = "delete"
     /\ stored' = [stored EXCEPT ![call[c].id] = None]
     /\ deleted' = deleted \cup (IF gone = None THEN {} ELSE {gone.row})
     /\ \E answer \in {<<"true">>, <<"false">>} : Told(c, answer)

Select(c) ==
  LET found == stored[call[c].id]
  IN /\ call[c].kind = "select" /\ found # None
     /\ \E order \in Orders(found.sections) : Told(c, <<"document", found.row, order>>)
     /\ UNCHANGED <<stored, deleted>>

SelectDeleted(c) ==
  /\ call[c].kind = "select"
  /\ \E row \in deleted : call[row].id = call[c].id /\ Told(c, <<"document", row, <<>>>>)
  /\ UNCHANGED <<stored, deleted>>

\* The sections of a document that have the title, by row and position.
Fragments(id, title) ==
  IF stored[id] = None THEN {}
  ELSE {<<stored[id].row, k>> : k \in {k \in DOMAIN stored[id].sections : stored[id].sections[k] = title}}

SelectFragments(c) ==
  LET first == Fragments(call[c].id, call[c].title)
      second == Fragments(call[c].second, call[c].title)
  IN /\ call[c].kind = "fragments"
     /\ \/ \E a \in first, b \in second : Told(c, <<"fragments", a, b>>)
        \/ Cardinality(first) > 1 /\ \E a \in first : Told(c, <<"fragments", a, None>>)
        \/ Cardinality(second) > 1 /\ \E b \in second : Told(c, <<"fragments", None, b>>)
     /\ UNCHANGED <<stored, deleted>>

\* false or nullopt: there is nothing of the kind, or the call failed.
Refuse(c) == call[c] # NoRequest /\ Told(c, <<"false">>) /\ UNCHANGED <<stored, deleted>>

Next ==
  \E c \in Calls :
    \/ Ask(c)
    \/ Insert(c) \/ Delete(c) \/ Select(c) \/ SelectDeleted(c) \/ SelectFragments(c)
    \/ Refuse(c)

Spec == Init /\ [][Next]_<<stored, deleted, call, reply>>
=============================================================================
