------------------------------- MODULE ZipReader -------------------------------
(***************************************************************************)
(* DocReader::zipReader and readZipEntry: a DOCX file in memory is opened  *)
(* with minizip, the document and its styles are read into a buffer that   *)
(* doubles, and the handles are released on every way out.                 *)
(*                                                                         *)
(* Any call of the library may fail; a read gives as many bytes as it      *)
(* likes.  Entries are below 2^31 bytes, the range of the length that      *)
(* mz_zip_entry_read takes.                                                *)
(***************************************************************************)
EXTENDS Naturals

CONSTANTS InitialSize, \* of the buffer, 65536
          MaxLength,   \* bound on the length of an entry
          None

ASSUME SizeAssumption == InitialSize \in Nat \ {0} /\ MaxLength \in Nat

VARIABLES
  zip,       \* the length of each entry of the file, or None
  pc,        \* what zipReader does next
  entry,     \* the entry being read
  memStream, \* "null", "created" or "open"
  zipHandle, \* "null", "created" or "open"
  size,      \* output.size()
  total,     \* bytes in the buffer
  texts,     \* the bytes read of each entry, or None
  deletes    \* how often each handle was deleted

handles == <<memStream, zipHandle, deletes>>
buffer == <<size, total>>
vars == <<zip, pc, entry, handles, buffer, texts>>

Entries == {"document", "styles"}
Ends == {"sections", "nullopt", "exception"}

TypeOK ==
  /\ zip \in [Entries -> 0 .. MaxLength \cup {None}]
  /\ pc \in {"stream", "zip", "open", "locate", "read", "parse"} \cup Ends
  /\ entry \in Entries
  /\ memStream \in {"null", "created", "open"} /\ zipHandle \in {"null", "created", "open"}
  /\ size \in Nat /\ total \in 0 .. MaxLength
  /\ texts \in [Entries -> 0 .. MaxLength \cup {None}]
  /\ deletes \in [{"memStream", "zipHandle"} -> Nat]
  /\ zipHandle # "null" => memStream = "open"

Init ==
  /\ zip \in [Entries -> 0 .. MaxLength \cup {None}]
  /\ pc = "stream" /\ entry = "document"
  /\ memStream = "created" /\ zipHandle = "null"
  /\ size = InitialSize /\ total = 0
  /\ texts = [e \in Entries |-> None]
  /\ deletes = [memStream |-> 0, zipHandle |-> 0]

-----------------------------------------------------------------------------
\* What is null is left alone, and deleting a handle makes it null.  A mutant
\* deletes what was deleted.
CleanupAgain ==
  /\ memStream' = "null" /\ zipHandle' = "null"
  /\ deletes' = [deletes EXCEPT !.memStream = @ + 1]
cleanup ==
  /\ memStream' = "null" /\ zipHandle' = "null"
  /\ deletes' = [memStream |-> deletes.memStream + (IF memStream = "null" THEN 0 ELSE 1),
                 zipHandle |-> deletes.zipHandle + (IF zipHandle = "null" THEN 0 ELSE 1)]

End(result) == pc' = result /\ UNCHANGED <<zip, entry, buffer>>
Throw == cleanup /\ End("exception") /\ UNCHANGED texts

OpenStream ==
  /\ pc = "stream"
  /\ \/ memStream' = "open" /\ pc' = "zip" /\ UNCHANGED <<zip, entry, zipHandle, deletes, buffer, texts>>
     \/ Throw

CreateZip ==
  /\ pc = "zip"
  /\ \/ zipHandle' = "created" /\ pc' = "open" /\ UNCHANGED <<zip, entry, memStream, deletes, buffer, texts>>
     \/ Throw

OpenZip ==
  /\ pc = "open"
  /\ \/ zipHandle' = "open" /\ pc' = "locate" /\ UNCHANGED <<zip, entry, memStream, deletes, buffer, texts>>
     \/ Throw

\* readZipEntry up to its loop.  Whatever mz_zip_locate_entry fails for, the
\* entry counts as missing; the styles may be missing, the document not.
AfterMissing == IF entry = "document" THEN "nullopt" ELSE "parse"
LocateEntry ==
  /\ pc = "locate" /\ zip[entry] # None
  /\ pc' = "read" /\ size' = InitialSize /\ total' = 0
  /\ UNCHANGED <<zip, entry, handles, texts>>

LocateFails == pc = "locate" /\ cleanup /\ End(AfterMissing) /\ UNCHANGED texts

OpenEntryFails == pc = "locate" /\ zip[entry] # None /\ Throw

\* One turn of the loop with some bytes.  A mutant grows the buffer late.
GrownLate(newTotal) == IF newTotal > size THEN 2 * size ELSE size
Grown(newTotal) == IF newTotal >= size THEN 2 * size ELSE size
ReadSome(count) ==
  /\ pc = "read" /\ count \in 1 .. size - total /\ total + count <= zip[entry]
  /\ total' = total + count
  /\ size' = Grown(total + count)
  /\ UNCHANGED <<zip, pc, entry, handles, texts>>

\* mz_zip_entry_read returns 0: at the end, or when there is no room.
EntryEnds ==
  /\ pc = "read" /\ (total = zip[entry] \/ size = total)
  /\ texts' = [texts EXCEPT ![entry] = total]
  /\ IF entry = "document"
     THEN entry' = "styles" /\ pc' = "locate" /\ UNCHANGED <<zip, handles, buffer>>
     ELSE cleanup /\ End("parse")

ReadFails == pc = "read" /\ Throw

\* parseStyles, extractTopLevelTocTitles and DocxReader, handles released;
\* after an exception of theirs cleanup runs once more.
Parse ==
  /\ pc = "parse"
  /\ \/ End("sections") /\ UNCHANGED <<handles, texts>>
     \/ Throw

Step ==
  \/ OpenStream \/ CreateZip \/ OpenZip \/ LocateEntry \/ LocateFails \/ OpenEntryFails
  \/ EntryEnds \/ ReadFails \/ Parse
  \/ \E count \in 1 .. MaxLength : ReadSome(count)
Ended == pc \in Ends /\ UNCHANGED vars
Next == Step \/ Ended

Spec == Init /\ [][Next]_vars

\* The library's calls return.
FairSpec == Spec /\ WF_vars(Step)

-----------------------------------------------------------------------------
(***************************************************************************)
(* However zipReader is left, also by an exception after it has already    *)
(* cleaned up, every handle it created was deleted, and once.              *)
(***************************************************************************)
HandlesAreReleased ==
  /\ \A h \in DOMAIN deletes : deletes[h] <= 1
  /\ pc \in Ends => memStream = "null" /\ zipHandle = "null" /\ deletes.memStream = 1

(***************************************************************************)
(* Sections come from a whole document, and styles are whole or left out:  *)
(* a read always finds room in the buffer, so that a returned 0 means the  *)
(* end of the entry, and an entry that fills the buffer exactly is not cut *)
(* off.  Styles that are there are left out when locating them fails.      *)
(***************************************************************************)
EntriesAreWhole ==
  /\ pc = "read" => total < size
  /\ pc = "sections" => /\ texts.document # None /\ texts.document = zip.document
                        /\ texts.styles \in {None, zip.styles}

\* Why the two hold: where the handles are at each step, and that an entry
\* is read only when the one before it was read whole.
Opening == {"stream", "zip", "open"}
HandlesFollow ==
  /\ IF pc \in {"parse"} \cup Ends
     THEN memStream = "null" /\ zipHandle = "null" /\ deletes.memStream = 1 /\ deletes.zipHandle \in {0, 1}
     ELSE memStream # "null" /\ deletes.memStream = 0 /\ deletes.zipHandle = 0
  /\ pc \notin {"stream", "parse"} \cup Ends => memStream = "open"
  /\ pc = "stream" => zipHandle = "null"
ReadSoFar ==
  /\ pc \in Opening => entry = "document"
  /\ pc \in {"locate", "read"} \cup Opening => texts.styles = None
  /\ pc \in {"locate", "read"} /\ entry = "styles" => texts.document = zip.document /\ zip.document # None
  /\ pc = "read" => zip[entry] # None /\ total <= zip[entry] /\ total < size
  /\ pc \in {"parse", "sections"} => texts.document # None /\ texts.document = zip.document /\ texts.styles \in {None, zip.styles}
ReaderInv == TypeOK /\ HandlesFollow /\ ReadSoFar

(***************************************************************************)
(* A reading that has begun ends, whatever sizes the reads return.         *)
(***************************************************************************)
ReadingEnds == pc # "stream" ~> pc \in Ends
=============================================================================
