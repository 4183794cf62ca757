------------------------- MODULE AnalyzePipelineProofs -------------------------
(***************************************************************************)
(* For any number of requests and files: the payload of the ML server is   *)
(* what the request lists, no text goes under another file's id, nothing   *)
(* of a request with a failed download is stored, and a row without id     *)
(* needs a request with cached and new files.                              *)
(***************************************************************************)
EXTENDS AnalyzePipeline, FiniteSetTheorems, SequenceTheorems, TLAPS

\* All downloads of the request are in its vector.
Whole(r) == \A k \in 1 .. Len(wanted[r]) : op[r][k] = "stored"

\* What the place a request has come to says of its downloads and its saver.
Staged(r) ==
  /\ pc[r] = "new" => cached[r] = <<>> /\ wanted[r] = <<>>
  /\ pc[r] \in {"new", "select"} =>
       container[r] = <<>> /\ saver[r] = "none" /\ \A k \in Positions : op[r][k] = "none"
  /\ pc[r] \in {"download", "append", "analysis", "200"} =>
       Len(cached[r]) + Len(wanted[r]) = Len(files[r])
  /\ pc[r] = "download" => wanted[r] # <<>>
  /\ pc[r] \in {"append", "analysis", "200"} => Whole(r)
  /\ \A k \in Positions : /\ op[r][k] # "none" => k <= Len(wanted[r])
                          /\ op[r][k] \notin {"none", "stored", "failed"} => pc[r] = "download"
  /\ saver[r] # "none" => /\ pc[r] \in {"append", "analysis", "200", "dropped"}
                          /\ wanted[r] # <<>>
                          /\ Whole(r)
  /\ freed[r] => saver[r] # "none" /\ cached[r] # <<>>
  /\ saver[r] = "saving" => range[r].last <= Len(container[r])
  /\ Len(container[r]) <= Len(files[r])

\* The download a text is named by has been stored, and was for that file.
Got(doc) ==
  /\ doc.text[2] <= Len(wanted[doc.text[1]])
  /\ wanted[doc.text[1]][doc.text[2]] = doc.id
  /\ op[doc.text[1]][doc.text[2]] = "stored"

\* And so have all the others of its request.
Settled(doc) == Got(doc) /\ Whole(doc.text[1])

Row(f) == [id |-> f, text |-> documents[f]]

\* What the vector of a request may hold: its own downloads and cached texts.
Held(r, doc) == Got(doc) /\ (doc.text[1] = r \/ Whole(doc.text[1]))

Sources ==
  /\ \A f \in Files : documents[f] # None => Settled(Row(f))
  /\ \A r \in Requests : \A k \in 1 .. Len(cached[r]) : Settled(cached[r][k])
  /\ \A r \in Requests : \A k \in 1 .. Len(container[r]) : Held(r, container[r][k])

Ids(docs) == [k \in DOMAIN docs |-> docs[k].id]

\* How many of the ids are among G.
Hits(G, ids) == Cardinality({k \in DOMAIN ids : ids[k] \in G})

Looked(r) == 1 .. Len(cached[r]) + Len(wanted[r])
Stored(r) == {k \in 1 .. Len(wanted[r]) : op[r][k] = "stored"}

\* Every file looked up is cached or wanted, every stored download is in the
\* vector once, and after the append every cached document is.
Balanced(r, G) ==
  /\ Cardinality({k \in Looked(r) : files[r][k] \in G})
       = Hits(G, Ids(cached[r])) + Hits(G, wanted[r])
  /\ pc[r] \in {"new", "select", "download", "append"} =>
       Hits(G, Ids(container[r])) = Cardinality({k \in Stored(r) : wanted[r][k] \in G})
  /\ pc[r] \in {"analysis", "200"} =>
       Hits(G, Ids(container[r])) = Hits(G, Ids(cached[r])) + Hits(G, wanted[r])

Balance == \A r \in Requests : \A G \in SUBSET Files : Balanced(r, G)

PipelineInv ==
  /\ TypeOK
  /\ \A r \in Requests : Staged(r)
  /\ Sources
  /\ Balance
  /\ BlankNeedsMixedRequest

-----------------------------------------------------------------------------
(* Sequences of ids *)

\* The ids of documents are files.
LEMMA IdsType ==
  ASSUME NEW docs \in Seq(Documents)
  PROVE  Ids(docs) \in Seq(Files) /\ Len(Ids(docs)) = Len(docs)
<1>1. Len(docs) \in Nat /\ docs \in [1 .. Len(docs) -> Documents] /\ DOMAIN docs = 1 .. Len(docs)
  BY LenProperties
<1>2. Ids(docs) \in [1 .. Len(docs) -> Files]
  BY <1>1 DEF Ids, Documents
<1>. QED
  BY <1>1, <1>2

\* No id, no hit.
LEMMA HitsEmpty ==
  ASSUME NEW G
  PROVE  Hits(G, Ids(<<>>)) = 0 /\ Hits(G, <<>>) = 0
<1>1. {k \in DOMAIN <<>> : <<>>[k] \in G} = {} /\ {k \in DOMAIN Ids(<<>>) : Ids(<<>>)[k] \in G} = {}
  BY DEF Ids
<1>. QED
  BY <1>1, FS_EmptySet DEF Hits

\* The hits are some of the positions.
LEMMA HitsType ==
  ASSUME NEW S, NEW ids \in Seq(S), NEW G
  PROVE  /\ IsFiniteSet({k \in DOMAIN ids : ids[k] \in G})
         /\ Hits(G, ids) \in Nat /\ Hits(G, ids) <= Len(ids)
<1>1. DOMAIN ids = 1 .. Len(ids) /\ Len(ids) \in Nat
  BY LenProperties
<1>2. IsFiniteSet(1 .. Len(ids)) /\ Cardinality(1 .. Len(ids)) = Len(ids)
  BY <1>1, FS_Interval
<1>3. {k \in DOMAIN ids : ids[k] \in G} \in SUBSET (1 .. Len(ids))
  BY <1>1
<1>. QED
  BY <1>1, <1>2, <1>3, FS_Subset, FS_CardinalityType DEF Hits

LEMMA PositionsCount ==
  ASSUME NEW n \in Nat
  PROVE  IsFiniteSet(1 .. n) /\ Cardinality(1 .. n) = n
<1>1. /\ IsFiniteSet(1 .. n)
      /\ Cardinality(1 .. n) = IF 1 > n THEN 0 ELSE n - 1 + 1
  BY FS_Interval
<1>. QED
  BY <1>1

\* All positions are hits of the set of all files.
LEMMA HitsAll ==
  ASSUME NEW S, NEW ids \in Seq(S)
  PROVE  Hits(S, ids) = Len(ids)
<1>1. DOMAIN ids = 1 .. Len(ids) /\ Len(ids) \in Nat /\ \A k \in 1 .. Len(ids) : ids[k] \in S
  BY LenProperties
<1>2. {k \in DOMAIN ids : ids[k] \in S} = 1 .. Len(ids)
  BY <1>1
<1>3. IsFiniteSet(1 .. Len(ids)) /\ Cardinality(1 .. Len(ids)) = Len(ids)
  BY <1>1, PositionsCount
<1>. QED
  BY <1>2, <1>3 DEF Hits

\* One id more is one hit more or none.
LEMMA HitsAppend ==
  ASSUME NEW S, NEW ids \in Seq(S), NEW x \in S, NEW G
  PROVE  Hits(G, Append(ids, x)) = Hits(G, ids) + (IF x \in G THEN 1 ELSE 0)
<1>. DEFINE n == Len(ids)
            old == {k \in 1 .. n : ids[k] \in G}
            new == {k \in 1 .. n + 1 : Append(ids, x)[k] \in G}
<1>1. n \in Nat /\ DOMAIN ids = 1 .. n
  BY LenProperties
<1>2. /\ DOMAIN Append(ids, x) = 1 .. n + 1
      /\ Append(ids, x)[n + 1] = x
      /\ \A k \in 1 .. n : Append(ids, x)[k] = ids[k]
  BY <1>1, AppendProperties
<1>3. new = IF x \in G THEN old \cup {n + 1} ELSE old
  BY <1>1, <1>2
<1>4. IsFiniteSet(old) /\ Cardinality(old) \in Nat /\ n + 1 \notin old
  <2>1. IsFiniteSet({k \in DOMAIN ids : ids[k] \in G})
    BY HitsType
  <2>2. IsFiniteSet(old)
    BY <1>1, <2>1
  <2>3. n + 1 \notin old
    BY <1>1
  <2>. QED
    BY <2>2, <2>3, FS_CardinalityType
<1>5. Hits(G, ids) = Cardinality(old) /\ Hits(G, Append(ids, x)) = Cardinality(new)
  BY <1>1, <1>2 DEF Hits
<1>. HIDE DEF old, new
<1>6. Cardinality(old \cup {n + 1}) = Cardinality(old) + 1
  BY <1>4, FS_AddElement
<1>. QED
  BY <1>3, <1>4, <1>5, <1>6

\* Two lists have the hits of the first and of the second.
LEMMA HitsConcat ==
  ASSUME NEW S, NEW s \in Seq(S), NEW t \in Seq(S), NEW G
  PROVE  Hits(G, s \o t) = Hits(G, s) + Hits(G, t)
<1>. DEFINE m == Len(s)
            n == Len(t)
            first == {k \in 1 .. m : s[k] \in G}
            second == {k \in 1 .. n : t[k] \in G}
            shifted == {k \in m + 1 .. m + n : (s \o t)[k] \in G}
            all == {k \in 1 .. m + n : (s \o t)[k] \in G}
            shift == [k \in second |-> m + k]
<1>1. m \in Nat /\ n \in Nat /\ DOMAIN s = 1 .. m /\ DOMAIN t = 1 .. n
  BY LenProperties
<1>2. /\ DOMAIN (s \o t) = 1 .. m + n
      /\ \A k \in 1 .. m : (s \o t)[k] = s[k]
      /\ \A k \in 1 .. n : (s \o t)[m + k] = t[k]
  <2>1. /\ s \o t \in Seq(S) /\ Len(s \o t) = m + n
        /\ \A i \in 1 .. m + n : (s \o t)[i] = IF i <= m THEN s[i] ELSE t[i - m]
    BY ConcatProperties
  <2>2. DOMAIN (s \o t) = 1 .. m + n
    BY <2>1, LenProperties
  <2>3. ASSUME NEW k \in 1 .. n PROVE (s \o t)[m + k] = t[k]
    <3>1. m + k \in 1 .. m + n /\ ~(m + k <= m) /\ (m + k) - m = k
      BY <1>1
    <3>. QED
      BY <2>1, <3>1
  <2>4. ASSUME NEW k \in 1 .. m PROVE (s \o t)[k] = s[k]
    BY <1>1, <2>1
  <2>. QED
    BY <2>2, <2>3, <2>4
<1>3. all = first \cup shifted /\ first \cap shifted = {}
  BY <1>1, <1>2
<1>4. shift \in Bijection(second, shifted)
  <2>1. ASSUME NEW k \in second PROVE m + k \in shifted
    BY <1>1, <1>2
  <2>2. ASSUME NEW j \in shifted PROVE j - m \in second /\ m + (j - m) = j
    <3>1. j - m \in 1 .. n /\ m + (j - m) = j
      BY <1>1
    <3>. QED
      BY <1>2, <3>1
  <2>3. shift \in [second -> shifted]
    BY <2>1
  <2>4. \A j \in shifted : \E k \in second : shift[k] = j
    BY <2>2
  <2>5. \A j, k \in second : shift[j] = shift[k] => j = k
    BY <1>1
  <2>. QED
    BY <2>3, <2>4, <2>5 DEF Bijection, Injection, Surjection, IsInjective
<1>5. IsFiniteSet(first) /\ IsFiniteSet(second)
  BY <1>1, HitsType
<1>6. /\ Hits(G, s) = Cardinality(first) /\ Hits(G, t) = Cardinality(second)
      /\ Hits(G, s \o t) = Cardinality(all)
  BY <1>1, <1>2 DEF Hits
<1>. HIDE DEF first, second, shifted, all, shift
<1>7. IsFiniteSet(shifted) /\ Cardinality(shifted) = Cardinality(second)
  BY <1>4, <1>5, FS_Bijection DEF ExistsBijection
<1>8. Cardinality(all) = Cardinality(first) + Cardinality(shifted)
  <2>1. Cardinality(first \cup shifted) = Cardinality(first) + Cardinality(shifted) - Cardinality(first \cap shifted)
    BY <1>5, <1>7, FS_Union
  <2>2. Cardinality(first \cap shifted) = 0
    BY <1>3, FS_EmptySet
  <2>3. Cardinality(first) \in Nat /\ Cardinality(shifted) \in Nat
    BY <1>5, <1>7, FS_CardinalityType
  <2>. QED
    BY <1>3, <2>1, <2>2, <2>3
<1>. QED
  BY <1>6, <1>7, <1>8

\* The ids of two lists of documents, and of one document more.
LEMMA IdsConcat ==
  ASSUME NEW docs \in Seq(Documents), NEW more \in Seq(Documents)
  PROVE  Ids(docs \o more) = Ids(docs) \o Ids(more)
<1>1. /\ Len(docs) \in Nat /\ DOMAIN docs = 1 .. Len(docs)
      /\ Len(more) \in Nat /\ DOMAIN more = 1 .. Len(more)
  BY LenProperties
<1>2. /\ docs \o more \in Seq(Documents) /\ Len(docs \o more) = Len(docs) + Len(more)
      /\ \A i \in 1 .. Len(docs) + Len(more) :
           (docs \o more)[i] = IF i <= Len(docs) THEN docs[i] ELSE more[i - Len(docs)]
  BY ConcatProperties
<1>3. /\ Ids(docs) \in Seq(Files) /\ Len(Ids(docs)) = Len(docs)
      /\ Ids(more) \in Seq(Files) /\ Len(Ids(more)) = Len(more)
      /\ Ids(docs \o more) \in Seq(Files) /\ Len(Ids(docs \o more)) = Len(docs) + Len(more)
  BY <1>2, IdsType
<1>4. /\ Ids(docs) \o Ids(more) \in Seq(Files)
      /\ Len(Ids(docs) \o Ids(more)) = Len(docs) + Len(more)
      /\ \A i \in 1 .. Len(docs) + Len(more) :
           (Ids(docs) \o Ids(more))[i] = IF i <= Len(docs) THEN Ids(docs)[i] ELSE Ids(more)[i - Len(docs)]
  BY <1>3, ConcatProperties
<1>5. ASSUME NEW i \in 1 .. Len(docs) + Len(more)
      PROVE  Ids(docs \o more)[i] = (Ids(docs) \o Ids(more))[i]
  <2>1. Ids(docs \o more)[i] = (docs \o more)[i].id
    BY <1>1, <1>2, LenProperties DEF Ids
  <2>2. CASE i <= Len(docs)
    BY <1>1, <1>2, <1>4, <2>1, <2>2 DEF Ids
  <2>3. CASE ~(i <= Len(docs))
    <3>1. i - Len(docs) \in 1 .. Len(more)
      BY <1>1, <2>3
    <3>. QED
      BY <1>1, <1>2, <1>4, <2>1, <2>3, <3>1 DEF Ids
  <2>. QED
    BY <2>2, <2>3
<1>. QED
  BY <1>3, <1>4, <1>5, SeqEqual

LEMMA HitsDocuments ==
  ASSUME NEW docs \in Seq(Documents), NEW more \in Seq(Documents), NEW G
  PROVE  Hits(G, Ids(docs \o more)) = Hits(G, Ids(docs)) + Hits(G, Ids(more))
<1>1. Ids(docs \o more) = Ids(docs) \o Ids(more)
  BY IdsConcat
<1>2. Ids(docs) \in Seq(Files) /\ Ids(more) \in Seq(Files)
  BY IdsType
<1>3. Hits(G, Ids(docs) \o Ids(more)) = Hits(G, Ids(docs)) + Hits(G, Ids(more))
  BY <1>2, HitsConcat
<1>. QED
  BY <1>1, <1>3

\* One document is one hit or none.
LEMMA HitsOne ==
  ASSUME NEW doc \in Documents, NEW G
  PROVE  Hits(G, Ids(<<doc>>)) = IF doc.id \in G THEN 1 ELSE 0
<1>1. DOMAIN Ids(<<doc>>) = {1} /\ Ids(<<doc>>)[1] = doc.id
  BY DEF Ids
<1>2. {k \in DOMAIN Ids(<<doc>>) : Ids(<<doc>>)[k] \in G} = IF doc.id \in G THEN {1} ELSE {}
  BY <1>1
<1>. QED
  BY <1>2, FS_Singleton, FS_EmptySet DEF Hits

-----------------------------------------------------------------------------
(* The steps *)

LEMMA InitPipelineInv == Init => PipelineInv
<1>. SUFFICES ASSUME Init PROVE PipelineInv
  OBVIOUS
<1>. USE DEF Init
<1>1. <<>> \in Seq(Files) /\ <<>> \in Seq(Documents) /\ Len(<<>>) = 0
  BY EmptySeq
<1>2. TypeOK
  <2>1. [next |-> 1, last |-> 0] \in [next : 1 .. MaxFiles + 1, last : 0 .. MaxFiles]
    BY NumberAssumption
  <2>2. \A r \in Requests : /\ Len(files[r]) <= MaxFiles
                            /\ Len(cached[r]) + Len(wanted[r]) <= Len(files[r])
    BY <1>1, NumberAssumption
  <2>3. op \in [Requests -> [Positions -> {"none", "get", "unreadable", "text",
                                           "parsed", "stored", "failed"}]]
    OBVIOUS
  <2>4. range \in [Requests -> [next : 1 .. MaxFiles + 1, last : 0 .. MaxFiles]]
    BY <2>1
  <2>. QED
    BY <1>1, <2>2, <2>3, <2>4 DEF TypeOK
<1>3. \A r \in Requests : Staged(r)
  BY <1>1, NumberAssumption DEF Staged
<1>4. Sources
  BY <1>1 DEF Sources
<1>5. Balance
  <2>1. ASSUME NEW r \in Requests, NEW G \in SUBSET Files PROVE Balanced(r, G)
    <3>1. {k \in Looked(r) : files[r][k] \in G} = {} /\ {k \in Stored(r) : wanted[r][k] \in G} = {}
      BY <1>1 DEF Looked, Stored
    <3>2. Hits(G, Ids(cached[r])) = 0 /\ Hits(G, wanted[r]) = 0 /\ Hits(G, Ids(container[r])) = 0
      BY HitsEmpty
    <3>3. Cardinality({}) = 0 /\ pc[r] = "new"
      BY FS_EmptySet
    <3>. QED
      BY ONLY <3>1, <3>2, <3>3 DEF Balanced
  <2>. QED
    BY <2>1 DEF Balance
<1>. QED
  BY <1>2, <1>3, <1>4, <1>5 DEF PipelineInv, BlankNeedsMixedRequest

\* A step is one action of one request or of its saver, or the crash.
LEMMA NextCases ==
  ASSUME [Next]_vars
  PROVE  \/ \E r \in Requests :
              \/ ReceiveRequest(r) \/ FindCached(r) \/ PlanDownload(r) \/ RejectItem(r)
              \/ StartDownloads(r) \/ JoinDownloads(r) \/ AppendCached(r) \/ Analyse(r)
              \/ BeginSaving(r) \/ SaveNext(r) \/ SaveFreed(r) \/ EndSaving(r)
              \/ \E k \in Positions : Download(r, k) \/ Extract(r, k) \/ StoreInContainer(r, k)
         \/ Crash
         \/ UNCHANGED vars
  BY DEF Next, RequestStep, SaverStep

\* What a cached document and a stored one look like.
LEMMA CachedDocument ==
  ASSUME TypeOK, NEW f \in Files, documents[f] # None
  PROVE  Row(f) \in Documents
  BY DEF TypeOK, Documents, Row

LEMMA StoredDocument ==
  ASSUME TypeOK, NEW r \in Requests, NEW k \in Positions, k <= Len(wanted[r])
  PROVE  /\ k \in 1 .. Len(wanted[r]) /\ wanted[r][k] \in Files
         /\ [id |-> wanted[r][k], text |-> <<r, k>>] \in Documents
<1>1. wanted[r] \in Seq(Files) /\ Len(wanted[r]) \in Nat
  BY LenProperties DEF TypeOK
<1>2. k \in 1 .. Len(wanted[r])
  BY <1>1, NumberAssumption DEF Positions
<1>3. wanted[r][k] \in Files
  BY <1>1, <1>2, ElementOfSeq
<1>4. <<r, k>> \in Texts
  BY DEF Texts
<1>. QED
  BY <1>2, <1>3, <1>4 DEF Documents

\* The lengths are numbers.
LEMMA Lengths ==
  ASSUME TypeOK, NEW r \in Requests
  PROVE  /\ Len(files[r]) \in 0 .. MaxFiles /\ Len(cached[r]) \in 0 .. MaxFiles
         /\ Len(wanted[r]) \in 0 .. MaxFiles /\ Len(container[r]) \in Nat
         /\ Len(cached[r]) + Len(wanted[r]) <= Len(files[r])
<1>1. /\ files[r] \in Seq(Files) /\ cached[r] \in Seq(Documents)
      /\ wanted[r] \in Seq(Files) /\ container[r] \in Seq(Documents)
      /\ Len(files[r]) <= MaxFiles /\ Len(cached[r]) + Len(wanted[r]) <= Len(files[r])
  BY DEF TypeOK
<1>2. /\ Len(files[r]) \in Nat /\ Len(cached[r]) \in Nat
      /\ Len(wanted[r]) \in Nat /\ Len(container[r]) \in Nat
  BY <1>1, LenProperties
<1>. DEFINE all == Len(files[r])
            found == Len(cached[r])
            missing == Len(wanted[r])
<1>3. /\ all \in Nat /\ found \in Nat /\ missing \in Nat /\ MaxFiles \in Nat
      /\ all <= MaxFiles /\ found + missing <= all
  BY <1>1, <1>2, NumberAssumption
<1>. HIDE DEF all, found, missing
<1>4. all \in 0 .. MaxFiles /\ found \in 0 .. MaxFiles /\ missing \in 0 .. MaxFiles
  BY ONLY <1>3
<1>. QED
  BY <1>1, <1>2, <1>4 DEF all, found, missing

\* The file under way in the loop over filesList.
LEMMA CurrentFile ==
  ASSUME TypeOK, NEW r \in Requests, Current(r) <= Len(files[r])
  PROVE  Current(r) \in 1 .. Len(files[r]) /\ files[r][Current(r)] \in Files
<1>1. files[r] \in Seq(Files) /\ Current(r) \in 1 .. Len(files[r])
  BY Lengths DEF TypeOK, Current
<1>. QED
  BY <1>1, ElementOfSeq

\* There is room for it among the looked-up ones.
LEMMA Room ==
  ASSUME TypeOK, NEW r \in Requests, Current(r) <= Len(files[r])
  PROVE  /\ Len(cached[r]) + 1 + Len(wanted[r]) <= Len(files[r])
         /\ Len(cached[r]) + (Len(wanted[r]) + 1) <= Len(files[r])
<1>. DEFINE all == Len(files[r])
            found == Len(cached[r])
            missing == Len(wanted[r])
<1>1. all \in Nat /\ found \in Nat /\ missing \in Nat
  BY Lengths
<1>2. found + missing + 1 <= all
  BY DEF Current
<1>. HIDE DEF all, found, missing
<1>3. found + 1 + missing <= all /\ found + (missing + 1) <= all
  BY ONLY <1>1, <1>2
<1>. QED
  BY <1>3 DEF all, found, missing

\* After the loop every file is cached or wanted.
LEMMA LoopDone ==
  ASSUME TypeOK, NEW r \in Requests, Current(r) > Len(files[r])
  PROVE  Len(cached[r]) + Len(wanted[r]) = Len(files[r])
<1>. DEFINE all == Len(files[r])
            found == Len(cached[r])
            missing == Len(wanted[r])
<1>1. all \in Nat /\ found \in Nat /\ missing \in Nat
  BY Lengths
<1>2. found + missing <= all /\ found + missing + 1 > all
  BY DEF TypeOK, Current
<1>. HIDE DEF all, found, missing
<1>3. found + missing = all
  BY ONLY <1>1, <1>2
<1>. QED
  BY <1>3 DEF all, found, missing

\* The vector never holds more than the list.
LEMMA ContainerFits ==
  ASSUME TypeOK, NEW r \in Requests, Staged(r)
  PROVE  Len(container[r]) \in 0 .. MaxFiles
<1>. DEFINE all == Len(files[r])
            held == Len(container[r])
<1>1. all \in 0 .. MaxFiles /\ held \in Nat /\ held <= all /\ MaxFiles \in Nat
  BY Lengths, NumberAssumption DEF Staged
<1>. HIDE DEF all, held
<1>2. held \in 0 .. MaxFiles
  BY ONLY <1>1
<1>. QED
  BY <1>2 DEF held

\* The saver's position is one of the vector.
LEMMA SaverPosition ==
  ASSUME TypeOK, NEW r \in Requests, Staged(r), saver[r] = "saving",
         range[r].next <= range[r].last
  PROVE  range[r].next \in 1 .. Len(container[r])
<1>. DEFINE held == Len(container[r])
            next == range[r].next
            last == range[r].last
<1>1. held \in Nat /\ next \in 1 .. MaxFiles + 1 /\ last \in 0 .. MaxFiles /\ MaxFiles \in Nat
  BY Lengths, NumberAssumption DEF TypeOK
<1>2. next <= last /\ last <= held
  BY DEF Staged
<1>. HIDE DEF held, next, last
<1>3. next \in 1 .. held
  BY ONLY <1>1, <1>2
<1>. QED
  BY <1>3 DEF held, next

\* A list the request may carry.
LEMMA BoundedList ==
  ASSUME NEW list \in BoundedSeq(Files, MaxFiles)
  PROVE  list \in Seq(Files) /\ Len(list) <= MaxFiles
<1>1. PICK n \in 0 .. MaxFiles : list \in [1 .. n -> Files]
  BY DEF BoundedSeq, SeqOf
<1>. QED
  BY <1>1, NumberAssumption

\* A download that moves on, and a vector that grows.
LEMMA OpTyped ==
  ASSUME TypeOK, NEW r \in Requests, NEW k \in Positions,
         NEW step \in {"text", "unreadable", "parsed", "stored", "failed"}, OpGoto(r, k, step)
  PROVE  /\ op' \in [Requests -> [Positions -> {"none", "get", "unreadable", "text",
                                              "parsed", "stored", "failed"}]]
         /\ \A q \in Requests : \A j \in Positions :
              op'[q][j] = IF q = r /\ j = k THEN step ELSE op[q][j]
<1>. DEFINE new == [op[r] EXCEPT ![k] = step]
<1>1. op' = [op EXCEPT ![r] = new]
  BY DEF OpGoto
<1>2. /\ new \in [Positions -> {"none", "get", "unreadable", "text", "parsed", "stored", "failed"}]
      /\ \A j \in Positions : new[j] = IF j = k THEN step ELSE op[r][j]
  BY DEF TypeOK
<1>. HIDE DEF new
<1>. QED
  BY <1>1, <1>2 DEF TypeOK

LEMMA Grown ==
  ASSUME TypeOK, NEW r \in Requests, NEW docs \in Seq(Documents), Grow(r, docs)
  PROVE  /\ container' \in [Requests -> Seq(Documents)]
         /\ container'[r] = container[r] \o docs
         /\ \A q \in Requests \ {r} : container'[q] = container[q] /\ freed'[q] = freed[q]
         /\ freed' \in [Requests -> BOOLEAN]
         /\ freed'[r] => freed[r] \/ (saver[r] = "saving" /\ docs # <<>>)
<1>1. container[r] \o docs \in Seq(Documents)
  BY ConcatProperties DEF TypeOK
<1>2. /\ container' \in [Requests -> Seq(Documents)]
      /\ container'[r] = container[r] \o docs
      /\ \A q \in Requests \ {r} : container'[q] = container[q]
  BY <1>1 DEF Grow, TypeOK
<1>3. PICK moved \in BOOLEAN : /\ moved => saver[r] = "saving" /\ docs # <<>>
                               /\ freed' = [freed EXCEPT ![r] = @ \/ moved]
  BY DEF Grow
<1>4. /\ freed' \in [Requests -> BOOLEAN]
      /\ freed'[r] => freed[r] \/ moved
      /\ \A q \in Requests \ {r} : freed'[q] = freed[q]
  <2>1. freed \in [Requests -> BOOLEAN]
    BY DEF TypeOK
  <2>. QED
    BY ONLY <1>3, <2>1, r \in Requests
<1>5. freed'[r] => freed[r] \/ (saver[r] = "saving" /\ docs # <<>>)
  BY ONLY <1>3, <1>4
<1>. QED
  BY <1>2, <1>4, <1>5

\* The iterator of a saver moves on.
LEMMA Moved ==
  ASSUME TypeOK, NEW r \in Requests, range[r].next <= range[r].last, Visited(r)
  PROVE  /\ range' \in [Requests -> [next : 1 .. MaxFiles + 1, last : 0 .. MaxFiles]]
         /\ \A q \in Requests : range'[q].last = range[q].last
<1>. DEFINE new == [range[r] EXCEPT !.next = range[r].next + 1]
<1>1. range[r] \in [next : 1 .. MaxFiles + 1, last : 0 .. MaxFiles]
  BY DEF TypeOK
<1>2. range[r].next + 1 \in 1 .. MaxFiles + 1
  BY <1>1, NumberAssumption
<1>3. new \in [next : 1 .. MaxFiles + 1, last : 0 .. MaxFiles] /\ new.last = range[r].last
  BY <1>1, <1>2
<1>4. range' = [range EXCEPT ![r] = new]
  BY DEF Visited
<1>. HIDE DEF new
<1>. QED
  BY <1>3, <1>4 DEF TypeOK

\* Every action keeps the types.
LEMMA TypeStep ==
  ASSUME TypeOK, \A r \in Requests : Staged(r), [Next]_vars
  PROVE  TypeOK'
<1>. USE DEF table, request, saving
<1>1. ASSUME NEW r \in Requests, ReceiveRequest(r) PROVE TypeOK'
  <2>1. CASE UNCHANGED files
    BY <1>1, <2>1 DEF ReceiveRequest, Goto, TypeOK, Ends, Steps
  <2>2. CASE \E list \in BoundedSeq(Files, MaxFiles) : files' = [files EXCEPT ![r] = list]
    <3>1. PICK list \in BoundedSeq(Files, MaxFiles) : files' = [files EXCEPT ![r] = list]
      BY <2>2
    <3>2. list \in Seq(Files) /\ Len(list) <= MaxFiles /\ Len(list) \in Nat
      BY BoundedList, LenProperties
    <3>3. cached[r] = <<>> /\ wanted[r] = <<>> /\ Len(<<>>) = 0
      BY <1>1, EmptySeq DEF Staged, ReceiveRequest
    <3>4. /\ files' \in [Requests -> Seq(Files)]
          /\ cached' = cached /\ wanted' = wanted
          /\ \A q \in Requests : /\ Len(files'[q]) <= MaxFiles
                                 /\ Len(cached[q]) + Len(wanted[q]) <= Len(files'[q])
      BY <1>1, <3>1, <3>2, <3>3 DEF TypeOK, ReceiveRequest
    <3>5. pc' \in [Requests -> {"new"} \cup Steps \cup Ends]
      BY <1>1 DEF ReceiveRequest, Goto, TypeOK, Ends, Steps
    <3>. QED
      BY <1>1, <3>4, <3>5 DEF ReceiveRequest, TypeOK
  <2>. QED
    BY <1>1, <2>1, <2>2 DEF ReceiveRequest
<1>2. ASSUME NEW r \in Requests, FindCached(r) PROVE TypeOK'
  <2>. DEFINE doc == Row(files[r][Current(r)])
  <2>1. files[r][Current(r)] \in Files
    BY <1>2, CurrentFile DEF FindCached
  <2>2. doc \in Documents /\ cached' = [cached EXCEPT ![r] = Append(@, doc)]
    BY <1>2, <2>1, CachedDocument DEF FindCached, Row
  <2>. HIDE DEF doc
  <2>3. /\ Append(cached[r], doc) \in Seq(Documents)
        /\ Len(Append(cached[r], doc)) = Len(cached[r]) + 1
    BY <2>2, AppendProperties DEF TypeOK
  <2>4. Len(cached[r]) + 1 + Len(wanted[r]) <= Len(files[r])
    BY <1>2, Room DEF FindCached
  <2>5. /\ cached' \in [Requests -> Seq(Documents)]
        /\ \A q \in Requests : Len(cached'[q]) + Len(wanted[q]) <= Len(files[q])
    BY <2>2, <2>3, <2>4 DEF TypeOK
  <2>. QED
    BY <1>2, <2>5 DEF FindCached, TypeOK
<1>3. ASSUME NEW r \in Requests, PlanDownload(r) PROVE TypeOK'
  <2>. DEFINE file == files[r][Current(r)]
  <2>1. file \in Files /\ wanted' = [wanted EXCEPT ![r] = Append(@, file)]
    BY <1>3, CurrentFile DEF PlanDownload
  <2>. HIDE DEF file
  <2>2. /\ Append(wanted[r], file) \in Seq(Files)
        /\ Len(Append(wanted[r], file)) = Len(wanted[r]) + 1
    BY <2>1, AppendProperties DEF TypeOK
  <2>3. Len(cached[r]) + (Len(wanted[r]) + 1) <= Len(files[r])
    BY <1>3, Room DEF PlanDownload
  <2>4. /\ wanted' \in [Requests -> Seq(Files)]
        /\ \A q \in Requests : Len(cached[q]) + Len(wanted'[q]) <= Len(files[q])
    BY <2>1, <2>2, <2>3 DEF TypeOK
  <2>. QED
    BY <1>3, <2>4 DEF PlanDownload, TypeOK
<1>4. ASSUME NEW r \in Requests, RejectItem(r) PROVE TypeOK'
  BY <1>4 DEF RejectItem, Goto, TypeOK, Ends, Steps
<1>5. ASSUME NEW r \in Requests, StartDownloads(r) PROVE TypeOK'
  <2>1. op' \in [Requests -> [Positions -> {"none", "get", "unreadable", "text",
                                           "parsed", "stored", "failed"}]]
    BY <1>5 DEF StartDownloads, TypeOK
  <2>2. pc' \in [Requests -> {"new"} \cup Steps \cup Ends]
    BY <1>5 DEF StartDownloads, Goto, TypeOK, Steps
  <2>. QED
    BY <1>5, <2>1, <2>2 DEF StartDownloads, TypeOK
<1>6. ASSUME NEW r \in Requests, JoinDownloads(r) PROVE TypeOK'
  BY <1>6 DEF JoinDownloads, Goto, TypeOK, Ends, Steps
<1>7. ASSUME NEW r \in Requests, AppendCached(r) PROVE TypeOK'
  <2>1. container' \in [Requests -> Seq(Documents)] /\ freed' \in [Requests -> BOOLEAN]
    BY <1>7, Grown DEF AppendCached, TypeOK
  <2>. QED
    BY <1>7, <2>1 DEF AppendCached, Goto, TypeOK, Steps
<1>8. ASSUME NEW r \in Requests, Analyse(r) PROVE TypeOK'
  BY <1>8 DEF Analyse, Goto, TypeOK, Ends, Steps
<1>9. ASSUME NEW r \in Requests, BeginSaving(r) PROVE TypeOK'
  <2>1. Len(container[r]) \in 0 .. MaxFiles
    BY ContainerFits
  <2>2. [next |-> 1, last |-> Len(container[r])] \in [next : 1 .. MaxFiles + 1, last : 0 .. MaxFiles]
    BY <2>1, NumberAssumption
  <2>3. range' \in [Requests -> [next : 1 .. MaxFiles + 1, last : 0 .. MaxFiles]]
    BY <1>9, <2>2 DEF BeginSaving, TypeOK
  <2>. QED
    BY <1>9, <2>3 DEF BeginSaving, TypeOK
<1>10. ASSUME NEW r \in Requests, SaveNext(r) PROVE TypeOK'
  <2>. DEFINE doc == container[r][range[r].next]
  <2>1. doc \in Documents
    <3>2. range[r].next \in 1 .. Len(container[r])
      BY <1>10, SaverPosition DEF SaveNext
    <3>. QED
      BY <3>2, ElementOfSeq DEF TypeOK
  <2>2. documents' \in [Files -> Texts \cup {None}]
    <3>1. doc.id \in Files /\ doc.text \in Texts /\ InsertDocument(doc)
      BY <1>10, <2>1 DEF Documents, SaveNext
    <3>. HIDE DEF doc
    <3>. QED
      BY <3>1 DEF InsertDocument, TypeOK
  <2>3. range' \in [Requests -> [next : 1 .. MaxFiles + 1, last : 0 .. MaxFiles]]
    BY <1>10, Moved DEF SaveNext
  <2>. QED
    BY <1>10, <2>2, <2>3 DEF SaveNext, TypeOK
<1>11. ASSUME NEW r \in Requests, SaveFreed(r) PROVE TypeOK'
  <2>1. range' \in [Requests -> [next : 1 .. MaxFiles + 1, last : 0 .. MaxFiles]]
    BY <1>11, Moved DEF SaveFreed, TypeOK
  <2>2. saver' \in [Requests -> {"none", "spawned", "saving", "done"}] /\ blank' \in BOOLEAN
    BY <1>11 DEF SaveFreed, TypeOK
  <2>. QED
    BY <1>11, <2>1, <2>2 DEF SaveFreed, TypeOK
<1>12. ASSUME NEW r \in Requests, EndSaving(r) PROVE TypeOK'
  BY <1>12 DEF EndSaving, TypeOK
<1>13. ASSUME NEW r \in Requests, NEW k \in Positions, Download(r, k) PROVE TypeOK'
  <2>1. \E step \in {"text", "unreadable", "parsed", "stored", "failed"} : OpGoto(r, k, step)
    BY <1>13 DEF Download
  <2>2. op' \in [Requests -> [Positions -> {"none", "get", "unreadable", "text",
                                           "parsed", "stored", "failed"}]]
    BY <2>1, OpTyped
  <2>. QED
    BY <1>13, <2>2 DEF Download, TypeOK
<1>14. ASSUME NEW r \in Requests, NEW k \in Positions, Extract(r, k) PROVE TypeOK'
  <2>1. \E step \in {"text", "unreadable", "parsed", "stored", "failed"} : OpGoto(r, k, step)
    BY <1>14 DEF Extract
  <2>2. op' \in [Requests -> [Positions -> {"none", "get", "unreadable", "text",
                                           "parsed", "stored", "failed"}]]
    BY <2>1, OpTyped
  <2>. QED
    BY <1>14, <2>2 DEF Extract, TypeOK
<1>15. ASSUME NEW r \in Requests, NEW k \in Positions, StoreInContainer(r, k) PROVE TypeOK'
  <2>1. k <= Len(wanted[r])
    BY <1>15 DEF StoreInContainer, Staged
  <2>2. <<[id |-> wanted[r][k], text |-> <<r, k>>]>> \in Seq(Documents)
    BY <2>1, StoredDocument
  <2>3. container' \in [Requests -> Seq(Documents)] /\ freed' \in [Requests -> BOOLEAN]
    BY <1>15, <2>2, Grown DEF StoreInContainer
  <2>4. op' \in [Requests -> [Positions -> {"none", "get", "unreadable", "text",
                                           "parsed", "stored", "failed"}]]
    BY <1>15, OpTyped DEF StoreInContainer
  <2>. QED
    BY <1>15, <2>3, <2>4 DEF StoreInContainer, TypeOK
<1>16. ASSUME Crash PROVE TypeOK'
  <2>1. /\ pc' \in [Requests -> {"new"} \cup Steps \cup Ends]
        /\ saver' \in [Requests -> {"none", "spawned", "saving", "done"}]
    BY <1>16 DEF Crash, TypeOK, Ends, Steps
  <2>2. op' \in [Requests -> [Positions -> {"none", "get", "unreadable", "text",
                                           "parsed", "stored", "failed"}]]
    BY <1>16 DEF Crash, TypeOK
  <2>. QED
    BY <1>16, <2>1, <2>2 DEF Crash, TypeOK
<1>17. ASSUME UNCHANGED vars PROVE TypeOK'
  BY <1>17 DEF vars, TypeOK
<1>. QED
  BY <1>1, <1>2, <1>3, <1>4, <1>5, <1>6, <1>7, <1>8, <1>9, <1>10, <1>11, <1>12, <1>13,
     <1>14, <1>15, <1>16, <1>17, NextCases

-----------------------------------------------------------------------------
(* What a step leaves alone *)

Same(q) ==
  /\ pc'[q] = pc[q] /\ files'[q] = files[q] /\ cached'[q] = cached[q]
  /\ wanted'[q] = wanted[q] /\ op'[q] = op[q] /\ container'[q] = container[q]
  /\ saver'[q] = saver[q] /\ range'[q] = range[q] /\ freed'[q] = freed[q]

RequestAction(r) ==
  \/ ReceiveRequest(r) \/ FindCached(r) \/ PlanDownload(r) \/ RejectItem(r)
  \/ StartDownloads(r) \/ JoinDownloads(r) \/ AppendCached(r) \/ Analyse(r)
  \/ BeginSaving(r) \/ SaveNext(r) \/ SaveFreed(r) \/ EndSaving(r)
  \/ \E k \in Positions : Download(r, k) \/ Extract(r, k) \/ StoreInContainer(r, k)

\* A step of one request leaves every other where it is.
LEMMA OthersStay ==
  ASSUME TypeOK, \A r \in Requests : Staged(r), NEW r \in Requests, RequestAction(r),
         NEW q \in Requests \ {r}
  PROVE  Same(q)
<1>. USE DEF table, request, saving, Same, TypeOK
<1>1. CASE ReceiveRequest(r)
  BY <1>1 DEF ReceiveRequest, Goto
<1>2. CASE FindCached(r)
  BY <1>2 DEF FindCached
<1>3. CASE PlanDownload(r)
  BY <1>3 DEF PlanDownload
<1>4. CASE RejectItem(r)
  BY <1>4 DEF RejectItem, Goto
<1>5. CASE StartDownloads(r)
  BY <1>5 DEF StartDownloads, Goto
<1>6. CASE JoinDownloads(r)
  BY <1>6 DEF JoinDownloads, Goto
<1>7. CASE AppendCached(r)
  BY <1>7 DEF AppendCached, Grow, Goto
<1>8. CASE Analyse(r)
  BY <1>8 DEF Analyse, Goto
<1>9. CASE BeginSaving(r)
  BY <1>9 DEF BeginSaving
<1>10. CASE SaveNext(r)
  BY <1>10 DEF SaveNext, Visited
<1>11. CASE SaveFreed(r)
  BY <1>11 DEF SaveFreed, Visited
<1>12. CASE EndSaving(r)
  BY <1>12 DEF EndSaving
<1>13. ASSUME NEW k \in Positions, Download(r, k) PROVE Same(q)
  BY <1>13 DEF Download, OpGoto
<1>14. ASSUME NEW k \in Positions, Extract(r, k) PROVE Same(q)
  BY <1>14 DEF Extract, OpGoto
<1>15. ASSUME NEW k \in Positions, StoreInContainer(r, k) PROVE Same(q)
  BY <1>15 DEF StoreInContainer, Grow, OpGoto
<1>. QED
  BY <1>1, <1>2, <1>3, <1>4, <1>5, <1>6, <1>7, <1>8, <1>9, <1>10, <1>11, <1>12, <1>13,
     <1>14, <1>15 DEF RequestAction

\* A download that is stored stays so, and the list it is of stays as it is.
LEMMA DownloadsKept ==
  ASSUME TypeOK, \A r \in Requests : Staged(r), [Next]_vars,
         NEW q \in Requests, NEW j \in Positions, op[q][j] = "stored"
  PROVE  op'[q][j] = "stored" /\ wanted'[q] = wanted[q]
<1>. USE DEF table, request, saving
<1>1. pc[q] \notin {"new", "select"}
  BY DEF Staged
<1>2. ASSUME NEW r \in Requests, RequestAction(r), r # q
      PROVE  op'[q][j] = "stored" /\ wanted'[q] = wanted[q]
  BY <1>2, OthersStay DEF Same
<1>3. CASE RequestAction(q)
  <2>1. CASE \/ RejectItem(q) \/ JoinDownloads(q) \/ AppendCached(q) \/ Analyse(q)
             \/ BeginSaving(q) \/ SaveNext(q) \/ SaveFreed(q) \/ EndSaving(q)
    BY <2>1 DEF RejectItem, JoinDownloads, AppendCached, Analyse, BeginSaving, SaveNext,
                SaveFreed, EndSaving
  <2>2. CASE ReceiveRequest(q) \/ FindCached(q) \/ PlanDownload(q) \/ StartDownloads(q)
    BY <1>1, <2>2 DEF ReceiveRequest, FindCached, PlanDownload, StartDownloads
  <2>3. ASSUME NEW k \in Positions, Download(q, k) \/ Extract(q, k) \/ StoreInContainer(q, k)
        PROVE  op'[q][j] = "stored" /\ wanted'[q] = wanted[q]
    <3>1. \E step \in {"text", "unreadable", "parsed", "stored", "failed"} : OpGoto(q, k, step)
      BY <2>3 DEF Download, Extract, StoreInContainer
    <3>2. op[q][k] # "stored" /\ wanted' = wanted
      BY <2>3 DEF Download, Extract, StoreInContainer
    <3>. QED
      BY <3>1, <3>2, OpTyped
  <2>. QED
    BY <1>3, <2>1, <2>2, <2>3 DEF RequestAction
<1>4. CASE Crash
  BY <1>4 DEF Crash
<1>5. CASE UNCHANGED vars
  BY <1>5 DEF vars
<1>. QED
  BY <1>2, <1>3, <1>4, <1>5, NextCases DEF RequestAction

LEMMA DocumentParts ==
  ASSUME NEW doc \in Documents
  PROVE  doc.id \in Files /\ doc.text[1] \in Requests /\ doc.text[2] \in Positions
  BY DEF Documents, Texts

\* What was stored for a text stays stored for it.
LEMMA GotKept ==
  ASSUME TypeOK, \A r \in Requests : Staged(r), [Next]_vars,
         NEW doc \in Documents, Got(doc)
  PROVE  Got(doc)'
<1>. DEFINE q == doc.text[1]
            j == doc.text[2]
<1>1. q \in Requests /\ j \in Positions /\ op[q][j] = "stored"
  BY DocumentParts DEF Got
<1>2. op'[q][j] = "stored" /\ wanted'[q] = wanted[q]
  BY <1>1, DownloadsKept
<1>. QED
  BY <1>2 DEF Got

LEMMA WholeKept ==
  ASSUME TypeOK, \A r \in Requests : Staged(r), [Next]_vars,
         NEW q \in Requests, Whole(q), wanted'[q] = wanted[q]
  PROVE  Whole(q)'
<1>1. Len(wanted[q]) \in 0 .. MaxFiles
  BY Lengths
<1>2. ASSUME NEW k \in 1 .. Len(wanted[q]) PROVE op'[q][k] = "stored"
  <2>1. k \in Positions /\ op[q][k] = "stored"
    BY <1>1, NumberAssumption DEF Positions, Whole
  <2>. QED
    BY <2>1, DownloadsKept
<1>. QED
  BY <1>2 DEF Whole

LEMMA SettledKept ==
  ASSUME TypeOK, \A r \in Requests : Staged(r), [Next]_vars,
         NEW doc \in Documents, Settled(doc)
  PROVE  Settled(doc)'
<1>1. doc.text[1] \in Requests /\ doc.text[2] \in Positions
  BY DocumentParts
<1>2. wanted'[doc.text[1]] = wanted[doc.text[1]]
  BY <1>1, DownloadsKept DEF Settled, Got
<1>3. Whole(doc.text[1])'
  BY <1>1, <1>2, WholeKept DEF Settled
<1>4. Got(doc)'
  BY GotKept DEF Settled
<1>. QED
  BY <1>3, <1>4 DEF Settled

-----------------------------------------------------------------------------
(* The stages of a request *)

\* Until the append the vector holds one document for every stored download.
LEMMA VectorLength ==
  ASSUME TypeOK, Balance, NEW r \in Requests,
         pc[r] \in {"new", "select", "download", "append"}
  PROVE  /\ IsFiniteSet(Stored(r)) /\ Len(container[r]) = Cardinality(Stored(r))
         /\ Cardinality(Stored(r)) <= Len(wanted[r])
<1>. USE DEF Stored
<1>1. Len(wanted[r]) \in Nat /\ wanted[r] \in Seq(Files) /\ container[r] \in Seq(Documents)
  BY LenProperties DEF TypeOK
<1>2. IsFiniteSet(1 .. Len(wanted[r])) /\ Cardinality(1 .. Len(wanted[r])) = Len(wanted[r])
  BY <1>1, PositionsCount
<1>3. Stored(r) \in SUBSET (1 .. Len(wanted[r]))
  OBVIOUS
<1>4. IsFiniteSet(Stored(r)) /\ Cardinality(Stored(r)) <= Len(wanted[r])
  BY <1>2, <1>3, FS_Subset
<1>5. Files \in SUBSET Files
  OBVIOUS
<1>6. Hits(Files, Ids(container[r])) = Cardinality({k \in Stored(r) : wanted[r][k] \in Files})
  BY <1>5 DEF Balance, Balanced
<1>7. {k \in Stored(r) : wanted[r][k] \in Files} = Stored(r)
  BY <1>1, ElementOfSeq
<1>8. Hits(Files, Ids(container[r])) = Len(container[r])
  BY <1>1, IdsType, HitsAll
<1>. QED
  BY <1>4, <1>6, <1>7, <1>8

\* There is room for one more, and after all downloads for the cached ones.
LEMMA VectorRoom ==
  ASSUME TypeOK, Balance, NEW r \in Requests, Staged(r)
  PROVE  /\ \A k \in Positions : op[r][k] = "parsed" => Len(container[r]) + 1 <= Len(files[r])
         /\ pc[r] = "append" => Len(container[r]) + Len(cached[r]) <= Len(files[r])
<1>. DEFINE all == Len(files[r])
            found == Len(cached[r])
            missing == Len(wanted[r])
            held == Len(container[r])
<1>1. found + missing <= all
  BY DEF TypeOK
<1>2. all \in Nat /\ found \in Nat /\ missing \in Nat /\ held \in Nat
  BY Lengths
<1>3. ASSUME NEW k \in Positions, op[r][k] = "parsed" PROVE held + 1 <= all
  <2>1. pc[r] = "download" /\ k <= missing
    BY <1>3 DEF Staged
  <2>2. IsFiniteSet(Stored(r)) /\ held = Cardinality(Stored(r))
    BY <2>1, VectorLength
  <2>3. k \in 1 .. missing /\ k \notin Stored(r)
    BY <1>2, <1>3, <2>1 DEF Stored, Positions
  <2>4. Cardinality(Stored(r) \cup {k}) = Cardinality(Stored(r)) + 1
    BY <2>2, <2>3, FS_AddElement
  <2>5. IsFiniteSet(1 .. missing) /\ Cardinality(1 .. missing) = missing
    BY <1>2, PositionsCount
  <2>6. Stored(r) \cup {k} \in SUBSET (1 .. missing)
    BY <2>3 DEF Stored
  <2>7. Cardinality(Stored(r) \cup {k}) <= missing
    BY <2>5, <2>6, FS_Subset
  <2>. HIDE DEF all, found, missing, held
  <2>. QED
    BY ONLY <1>1, <1>2, <2>2, <2>4, <2>7
<1>4. ASSUME pc[r] = "append" PROVE held + found <= all
  <2>1. held <= missing
    BY <1>4, VectorLength
  <2>. HIDE DEF all, found, missing, held
  <2>. QED
    BY ONLY <1>1, <1>2, <2>1
<1>. QED
  BY <1>3, <1>4

\* The same request, with everything it has.
LEMMA SameStage ==
  ASSUME NEW q \in Requests, Same(q), Staged(q)
  PROVE  Staged(q)'
  BY DEF Same, Staged, Whole

\* Every action keeps a request in a stage.
LEMMA StagedStep ==
  ASSUME TypeOK, TypeOK', \A q \in Requests : Staged(q), Balance,
         NEW r \in Requests, RequestAction(r)
  PROVE  Staged(r)'
<1>. USE DEF table, request, saving
<1>. Staged(r)
  OBVIOUS
<1>. pc[r] \in {"new"} \cup Steps \cup Ends /\ saver[r] \in {"none", "spawned", "saving", "done"}
  BY DEF TypeOK
<1>1. CASE ReceiveRequest(r)
  <2>1. Len(<<>>) = 0 /\ Len(files'[r]) \in Nat
    BY EmptySeq, LenProperties DEF TypeOK
  <2>2. container[r] = <<>> /\ saver[r] = "none" /\ \A k \in Positions : op[r][k] = "none"
    BY <1>1 DEF ReceiveRequest, Staged
  <2>3. pc'[r] \in {"select", "400", "401", "dropped"}
    BY <1>1 DEF ReceiveRequest, Goto, TypeOK
  <2>4. /\ container'[r] = <<>> /\ saver'[r] = "none" /\ ~freed'[r]
        /\ \A k \in Positions : op'[r][k] = "none"
    BY <1>1, <2>2 DEF ReceiveRequest, Staged
  <2>5. Len(container'[r]) <= Len(files'[r])
    BY <2>1, <2>4
  <2>. QED
    BY ONLY <2>3, <2>4, <2>5 DEF Staged
<1>2. CASE FindCached(r)
  <2>1. pc'[r] = "select" /\ saver'[r] = "none" /\ ~freed'[r]
    BY <1>2 DEF FindCached, Staged, TypeOK
  <2>. QED
    BY <1>2, <2>1 DEF FindCached, Staged, Whole
<1>3. CASE PlanDownload(r)
  <2>1. pc'[r] = "select" /\ saver'[r] = "none" /\ ~freed'[r]
    BY <1>3 DEF PlanDownload, Staged, TypeOK
  <2>. QED
    BY <1>3, <2>1 DEF PlanDownload, Staged, Whole
<1>4. CASE RejectItem(r)
  <2>1. pc'[r] = "dropped" /\ saver'[r] = "none" /\ ~freed'[r]
    BY <1>4 DEF RejectItem, Goto, Staged, TypeOK
  <2>. QED
    BY <1>4, <2>1 DEF RejectItem, Staged, Whole
<1>5. CASE StartDownloads(r)
  <2>1. /\ pc'[r] = IF wanted[r] = <<>> THEN "append" ELSE "download"
        /\ saver'[r] = "none" /\ ~freed'[r] /\ pc[r] = "select"
        /\ \A k \in Positions : op'[r][k] = IF k <= Len(wanted[r]) THEN "get" ELSE "none"
    BY <1>5 DEF StartDownloads, Goto, Staged, TypeOK
  <2>2. Len(cached[r]) + Len(wanted[r]) = Len(files[r])
    BY <1>5, LoopDone DEF StartDownloads
  <2>3. wanted[r] = <<>> => Whole(r)'
    BY <1>5, EmptySeq DEF StartDownloads, Whole
  <2>4. \A k \in Positions : op'[r][k] # "none" => wanted[r] # <<>>
    BY <2>1, EmptySeq DEF Positions
  <2>5. /\ files'[r] = files[r] /\ cached'[r] = cached[r] /\ wanted'[r] = wanted[r]
        /\ container'[r] = container[r] /\ Len(container[r]) <= Len(files[r])
    BY <1>5 DEF StartDownloads, Staged
  <2>. QED
    BY ONLY <2>1, <2>2, <2>3, <2>4, <2>5 DEF Staged
<1>6. CASE JoinDownloads(r)
  <2>1. /\ pc[r] = "download" /\ pc'[r] \in {"append", "dropped"}
        /\ pc'[r] = "append" => \A k \in 1 .. Len(wanted[r]) : op[r][k] = "stored"
        /\ saver'[r] # "none" => pc'[r] = "append"
        /\ saver'[r] # "saving" /\ ~freed[r]
    BY <1>6 DEF JoinDownloads, Goto, Staged, TypeOK
  <2>2. \A k \in Positions : op[r][k] \in {"none", "stored", "failed"}
    <3>1. ASSUME NEW k \in Positions, k <= Len(wanted[r]) PROVE op[r][k] \in {"stored", "failed"}
      BY <1>6, <3>1, StoredDocument DEF JoinDownloads
    <3>. QED
      BY <3>1 DEF Staged
  <2>. QED
    BY <1>6, <2>1, <2>2 DEF JoinDownloads, Staged, Whole
<1>7. CASE AppendCached(r)
  <2>1. cached[r] \in Seq(Documents) /\ container[r] \in Seq(Documents)
    BY DEF TypeOK
  <2>2. /\ container'[r] = container[r] \o cached[r]
        /\ freed'[r] => freed[r] \/ (saver[r] = "saving" /\ cached[r] # <<>>)
    BY <1>7, <2>1, Grown DEF AppendCached
  <2>3. Len(container'[r]) = Len(container[r]) + Len(cached[r])
    BY <2>1, <2>2, ConcatProperties
  <2>4. Len(container'[r]) <= Len(files[r])
    <3>1. Len(container[r]) + Len(cached[r]) <= Len(files[r])
      BY <1>7, VectorRoom DEF AppendCached
    <3>. QED
      BY ONLY <2>3, <3>1
  <2>5. saver[r] = "saving" => range[r].last <= Len(container'[r])
    <3>. DEFINE held == Len(container[r])
                found == Len(cached[r])
                last == range[r].last
    <3>1. held \in Nat /\ found \in Nat /\ last \in 0 .. MaxFiles
      <4>1. range[r] \in [next : 1 .. MaxFiles + 1, last : 0 .. MaxFiles]
        BY DEF TypeOK
      <4>. QED
        BY <4>1, Lengths
    <3>2. saver[r] = "saving" => last <= held
      BY DEF Staged
    <3>. HIDE DEF held, found, last
    <3>3. saver[r] = "saving" => last <= held + found
      BY ONLY <3>1, <3>2
    <3>. QED
      BY <2>3, <3>3 DEF held, found, last
  <2>6. pc'[r] = "analysis"
    BY <1>7 DEF AppendCached, Goto, TypeOK
  <2>. QED
    BY <1>7, <2>2, <2>4, <2>5, <2>6 DEF AppendCached, Staged, Whole
<1>8. CASE Analyse(r)
  <2>1. pc[r] = "analysis" /\ pc'[r] \in {"200", "dropped"}
    BY <1>8 DEF Analyse, Goto, TypeOK
  <2>. QED
    BY <1>8, <2>1 DEF Analyse, Staged, Whole
<1>9. CASE BeginSaving(r)
  <2>1. saver'[r] = "saving" /\ range'[r].last = Len(container[r]) /\ saver[r] = "spawned"
    BY <1>9 DEF BeginSaving, TypeOK
  <2>2. range'[r].last <= Len(container[r])
    <3>1. Len(container[r]) \in Nat
      BY Lengths
    <3>. QED
      BY <2>1, <3>1
  <2>. QED
    BY <1>9, <2>1, <2>2 DEF BeginSaving, Staged, Whole
<1>10. CASE SaveNext(r)
  <2>1. range'[r].last = range[r].last
    BY <1>10, Moved DEF SaveNext
  <2>. QED
    BY <1>10, <2>1 DEF SaveNext, Staged, Whole
<1>11. CASE SaveFreed(r)
  <2>1. range'[r].last = range[r].last /\ saver[r] = "saving" /\ saver'[r] \in {"saving", "done"}
    BY <1>11, Moved DEF SaveFreed, TypeOK
  <2>. QED
    BY <1>11, <2>1 DEF SaveFreed, Staged, Whole
<1>12. CASE EndSaving(r)
  <2>1. saver[r] = "saving" /\ saver'[r] = "done"
    BY <1>12 DEF EndSaving, TypeOK
  <2>. QED
    BY <1>12, <2>1 DEF EndSaving, Staged, Whole
<1>13. ASSUME NEW k \in Positions, Download(r, k) \/ Extract(r, k) PROVE Staged(r)'
  <2>1. PICK step \in {"text", "unreadable", "parsed", "failed"} : OpGoto(r, k, step)
    BY <1>13 DEF Download, Extract
  <2>2. \A j \in Positions : op'[r][j] = IF j = k THEN step ELSE op[r][j]
    BY <2>1, OpTyped
  <2>3. pc[r] = "download" /\ k <= Len(wanted[r])
    BY <1>13 DEF Download, Extract, Staged
  <2>4. saver[r] = "none"
    BY <2>3 DEF Staged
  <2>. QED
    BY <1>13, <2>2, <2>3, <2>4 DEF Download, Extract, Staged
<1>14. ASSUME NEW k \in Positions, StoreInContainer(r, k) PROVE Staged(r)'
  <2>. DEFINE doc == [id |-> wanted[r][k], text |-> <<r, k>>]
  <2>1. pc[r] = "download" /\ k <= Len(wanted[r]) /\ op[r][k] = "parsed"
    BY <1>14 DEF StoreInContainer, Staged
  <2>2. saver[r] = "none" /\ ~freed[r]
    BY <2>1 DEF Staged
  <2>3. doc \in Documents /\ Grow(r, <<doc>>)
    BY <1>14, <2>1, StoredDocument DEF StoreInContainer
  <2>. HIDE DEF doc
  <2>4. <<doc>> \in Seq(Documents) /\ Len(<<doc>>) = 1 /\ container[r] \in Seq(Documents)
    BY <2>3 DEF TypeOK
  <2>5. /\ container'[r] = container[r] \o <<doc>>
        /\ freed'[r] => freed[r] \/ (saver[r] = "saving" /\ <<doc>> # <<>>)
    BY <2>3, <2>4, Grown
  <2>6. Len(container'[r]) <= Len(files[r])
    <3>1. Len(container'[r]) = Len(container[r]) + Len(<<doc>>)
      BY <2>4, <2>5, ConcatProperties
    <3>2. Len(container[r]) + 1 <= Len(files[r])
      BY <2>1, VectorRoom
    <3>. QED
      BY <2>4, <3>1, <3>2
  <2>7. \A j \in Positions : op'[r][j] = IF j = k THEN "stored" ELSE op[r][j]
    BY <1>14, OpTyped DEF StoreInContainer
  <2>. QED
    BY <1>14, <2>1, <2>2, <2>5, <2>6, <2>7 DEF StoreInContainer, Staged
<1>. QED
  BY <1>1, <1>2, <1>3, <1>4, <1>5, <1>6, <1>7, <1>8, <1>9, <1>10, <1>11, <1>12, <1>13,
     <1>14 DEF RequestAction

-----------------------------------------------------------------------------
(* Where the texts come from *)

LEMMA HeldKept ==
  ASSUME TypeOK, \A r \in Requests : Staged(r), [Next]_vars,
         NEW r \in Requests, NEW doc \in Documents, Held(r, doc)
  PROVE  Held(r, doc)'
<1>1. doc.text[1] \in Requests /\ doc.text[2] \in Positions
  BY DocumentParts
<1>2. wanted'[doc.text[1]] = wanted[doc.text[1]]
  BY <1>1, DownloadsKept DEF Held, Got
<1>3. Got(doc)'
  BY GotKept DEF Held
<1>4. doc.text[1] = r \/ Whole(doc.text[1])'
  BY <1>1, <1>2, WholeKept DEF Held
<1>. QED
  BY <1>3, <1>4 DEF Held

\* A row changes when a saver inserts a document.
LEMMA RowChanges ==
  ASSUME TypeOK, [Next]_vars, NEW f \in Files, documents'[f] # documents[f]
  PROVE  \E r \in Requests : /\ SaveNext(r)
                             /\ container[r][range[r].next].id = f
                             /\ documents'[f] = container[r][range[r].next].text
<1>. USE DEF table, request, saving
<1>1. ASSUME NEW r \in Requests, SaveNext(r)
      PROVE  /\ container[r][range[r].next].id = f
             /\ documents'[f] = container[r][range[r].next].text
  BY <1>1 DEF SaveNext, InsertDocument, TypeOK
<1>2. ASSUME NEW r \in Requests,
             \/ ReceiveRequest(r) \/ FindCached(r) \/ PlanDownload(r) \/ RejectItem(r)
             \/ StartDownloads(r) \/ JoinDownloads(r) \/ AppendCached(r) \/ Analyse(r)
             \/ BeginSaving(r) \/ SaveFreed(r) \/ EndSaving(r)
             \/ \E k \in Positions : Download(r, k) \/ Extract(r, k) \/ StoreInContainer(r, k)
      PROVE  FALSE
  BY <1>2 DEF ReceiveRequest, FindCached, PlanDownload, RejectItem, StartDownloads,
              JoinDownloads, AppendCached, Analyse, BeginSaving, SaveFreed, EndSaving,
              Download, Extract, StoreInContainer
<1>3. ~Crash /\ ~UNCHANGED vars
  BY DEF Crash, vars
<1>. QED
  BY <1>1, <1>2, <1>3, NextCases

LEMMA SourcesOf ==
  ASSUME TypeOK, Sources, NEW r \in Requests
  PROVE  /\ \A k \in 1 .. Len(cached[r]) :
              cached[r][k] \in Documents /\ Settled(cached[r][k])
         /\ \A k \in 1 .. Len(container[r]) :
              container[r][k] \in Documents /\ Held(r, container[r][k])
<1>1. cached[r] \in Seq(Documents) /\ container[r] \in Seq(Documents)
  BY DEF TypeOK
<1>2. ASSUME NEW k \in 1 .. Len(cached[r])
      PROVE  cached[r][k] \in Documents /\ Settled(cached[r][k])
  <2>1. Settled(cached[r][k])
    BY DEF Sources
  <2>. QED
    BY <1>1, <2>1, ElementOfSeq
<1>3. ASSUME NEW k \in 1 .. Len(container[r])
      PROVE  container[r][k] \in Documents /\ Held(r, container[r][k])
  <2>1. Held(r, container[r][k])
    BY DEF Sources
  <2>. QED
    BY <1>1, <2>1, ElementOfSeq
<1>. QED
  BY <1>2, <1>3

\* What a saver inserts comes from a request with all its downloads.
LEMMA SavedIsSettled ==
  ASSUME TypeOK, Sources, NEW r \in Requests, Staged(r), SaveNext(r)
  PROVE  /\ container[r][range[r].next] \in Documents
         /\ Settled(container[r][range[r].next])
<1>1. range[r].next \in 1 .. Len(container[r]) /\ container[r] \in Seq(Documents)
  BY SaverPosition DEF SaveNext, TypeOK
<1>2. /\ container[r][range[r].next] \in Documents
      /\ Held(r, container[r][range[r].next])
  BY <1>1, SourcesOf
<1>3. Whole(r)
  BY DEF SaveNext, Staged
<1>. QED
  BY <1>2, <1>3 DEF Held, Settled

\* The cached documents of a request change when it finds another.
LEMMA CachedChanges ==
  ASSUME TypeOK, \A r \in Requests : Staged(r), [Next]_vars,
         NEW q \in Requests, cached'[q] # cached[q]
  PROVE  /\ FindCached(q)
         /\ files[q][Current(q)] \in Files
         /\ documents[files[q][Current(q)]] # None
         /\ cached'[q] = Append(cached[q], Row(files[q][Current(q)]))
<1>. USE DEF table, request, saving
<1>1. ~Crash /\ ~UNCHANGED vars
  BY DEF Crash, vars
<1>2. ASSUME NEW r \in Requests, RequestAction(r) PROVE r = q
  BY <1>2, OthersStay DEF Same
<1>3. RequestAction(q)
  BY <1>1, <1>2, NextCases DEF RequestAction
<1>4. FindCached(q)
  BY <1>3 DEF RequestAction, ReceiveRequest, PlanDownload, RejectItem, StartDownloads,
              JoinDownloads, AppendCached, Analyse, BeginSaving, SaveNext, SaveFreed,
              EndSaving, Download, Extract, StoreInContainer
<1>5. files[q][Current(q)] \in Files
  BY <1>4, CurrentFile DEF FindCached
<1>. QED
  BY <1>4, <1>5 DEF FindCached, Row, TypeOK

\* The vector changes when a download is stored or the cached ones are added.
LEMMA ContainerChanges ==
  ASSUME TypeOK, \A r \in Requests : Staged(r), [Next]_vars,
         NEW q \in Requests, container'[q] # container[q]
  PROVE  AppendCached(q) \/ \E k \in Positions : StoreInContainer(q, k)
<1>. USE DEF table, request, saving
<1>1. ~Crash /\ ~UNCHANGED vars
  BY DEF Crash, vars
<1>2. ASSUME NEW r \in Requests, RequestAction(r) PROVE r = q
  BY <1>2, OthersStay DEF Same
<1>3. RequestAction(q)
  BY <1>1, <1>2, NextCases DEF RequestAction
<1>. QED
  BY <1>3 DEF RequestAction, ReceiveRequest, FindCached, PlanDownload, RejectItem,
              StartDownloads, JoinDownloads, Analyse, BeginSaving, SaveNext, SaveFreed,
              EndSaving, Download, Extract

LEMMA SourcesStep ==
  ASSUME TypeOK, TypeOK', \A r \in Requests : Staged(r), Sources, [Next]_vars
  PROVE  Sources'
<1>1. ASSUME NEW f \in Files, documents'[f] # None PROVE Settled(Row(f))'
  <2>1. CASE documents'[f] = documents[f]
    <3>1. Row(f) \in Documents /\ Settled(Row(f))
      BY <1>1, <2>1, CachedDocument DEF Sources
    <3>2. ASSUME NEW doc \in Documents, doc = Row(f) PROVE Settled(doc)'
      BY <3>1, <3>2, SettledKept
    <3>3. Row(f)' = Row(f)
      BY <2>1 DEF Row
    <3>. QED
      BY <3>1, <3>2, <3>3 DEF Settled, Got
  <2>2. CASE documents'[f] # documents[f]
    <3>1. PICK r \in Requests : /\ SaveNext(r)
                                /\ container[r][range[r].next].id = f
                                /\ documents'[f] = container[r][range[r].next].text
      BY <2>2, RowChanges
    <3>2. ASSUME NEW doc \in Documents, doc = container[r][range[r].next] PROVE Settled(doc)'
      BY <3>1, <3>2, SavedIsSettled, SettledKept
    <3>3. container[r][range[r].next] \in Documents
      BY <3>1, SavedIsSettled
    <3>4. PICK doc \in Documents : doc = container[r][range[r].next]
      BY <3>3
    <3>5. doc.id = f /\ doc.text = documents'[f] /\ Settled(doc)'
      BY <3>1, <3>2, <3>4
    <3>6. (Row(f)').id = f /\ (Row(f)').text = documents'[f]
      BY DEF Row
    <3>. QED
      BY <3>5, <3>6 DEF Settled, Got
  <2>. QED
    BY <2>1, <2>2
<1>2. ASSUME NEW q \in Requests, NEW k \in 1 .. Len(cached'[q]) PROVE Settled(cached[q][k])'
  <2>1. ASSUME NEW doc \in Documents, doc = cached'[q][k], Settled(doc) PROVE Settled(cached[q][k])'
    <3>1. Settled(doc)'
      BY <2>1, SettledKept
    <3>. QED
      BY <2>1, <3>1 DEF Settled, Got
  <2>2. CASE cached'[q] = cached[q]
    <3>1. cached[q][k] \in Documents /\ Settled(cached[q][k])
      BY <2>2, SourcesOf
    <3>. QED
      BY <2>1, <2>2, <3>1
  <2>3. CASE cached'[q] # cached[q]
    <3>. DEFINE f == files[q][Current(q)]
    <3>1. f \in Files /\ documents[f] # None /\ cached'[q] = Append(cached[q], Row(f))
      BY <2>3, CachedChanges
    <3>. HIDE DEF f
    <3>2. Row(f) \in Documents /\ Settled(Row(f))
      BY <3>1, CachedDocument DEF Sources
    <3>3. cached[q] \in Seq(Documents) /\ Len(cached[q]) \in Nat
      BY LenProperties DEF TypeOK
    <3>4. CASE k <= Len(cached[q])
      <4>1. k \in 1 .. Len(cached[q]) /\ cached'[q][k] = cached[q][k]
        BY <3>1, <3>2, <3>3, <3>4, AppendProperties
      <4>2. cached[q][k] \in Documents /\ Settled(cached[q][k])
        BY <4>1, SourcesOf
      <4>. QED
        BY <2>1, <4>1, <4>2
    <3>5. CASE ~(k <= Len(cached[q]))
      <4>1. k = Len(cached[q]) + 1 /\ cached'[q][k] = Row(f)
        BY <3>1, <3>2, <3>3, <3>5, AppendProperties
      <4>. QED
        BY <2>1, <3>2, <4>1
    <3>. QED
      BY <3>4, <3>5
  <2>. QED
    BY <2>2, <2>3
<1>3. ASSUME NEW q \in Requests, NEW k \in 1 .. Len(container'[q]) PROVE Held(q, container[q][k])'
  <2>1. ASSUME NEW doc \in Documents, doc = container'[q][k], Held(q, doc)
        PROVE  Held(q, container[q][k])'
    <3>1. Held(q, doc)'
      BY <2>1, HeldKept
    <3>. QED
      BY <2>1, <3>1 DEF Held, Got
  <2>2. /\ container[q] \in Seq(Documents) /\ Len(container[q]) \in Nat
        /\ cached[q] \in Seq(Documents) /\ Len(cached[q]) \in Nat
    BY LenProperties DEF TypeOK
  <2>3. ASSUME k \in 1 .. Len(container[q]), container'[q][k] = container[q][k]
        PROVE  Held(q, container[q][k])'
    <3>1. container[q][k] \in Documents /\ Held(q, container[q][k])
      BY <2>3, SourcesOf
    <3>. QED
      BY <2>1, <2>3, <3>1
  <2>4. CASE container'[q] = container[q]
    BY <2>3, <2>4
  <2>5. CASE AppendCached(q)
    <3>1. container'[q] = container[q] \o cached[q]
      BY <2>2, <2>5, Grown DEF AppendCached
    <3>. DEFINE m == Len(container[q])
                n == Len(cached[q])
    <3>2. /\ Len(container[q] \o cached[q]) = m + n
          /\ \A i \in 1 .. m + n : (container[q] \o cached[q])[i] =
               IF i <= m THEN container[q][i] ELSE cached[q][i - m]
      BY <2>2, ConcatProperties
    <3>3. m \in Nat /\ n \in Nat /\ k \in 1 .. m + n
      BY <2>2, <3>1, <3>2
    <3>4. container'[q][k] = IF k <= m THEN container[q][k] ELSE cached[q][k - m]
      BY <3>1, <3>2, <3>3
    <3>5. CASE k <= m
      <4>1. k \in 1 .. m /\ container'[q][k] = container[q][k]
        BY <3>3, <3>4, <3>5
      <4>. QED
        BY <2>3, <4>1
    <3>6. CASE ~(k <= m)
      <4>. DEFINE j == k - m
      <4>1. j \in 1 .. Len(cached[q]) /\ container'[q][k] = cached[q][j]
        <5>. HIDE DEF m, n
        <5>1. k - m \in 1 .. n
          BY ONLY <3>3, <3>6
        <5>. QED
          BY <3>4, <3>6, <5>1 DEF n
      <4>. HIDE DEF j
      <4>2. cached[q][j] \in Documents /\ Settled(cached[q][j])
        BY <4>1, SourcesOf
      <4>3. Held(q, cached[q][j])
        BY <4>2 DEF Settled, Held
      <4>. QED
        BY <2>1, <4>1, <4>2, <4>3
    <3>. QED
      BY <3>5, <3>6
  <2>6. ASSUME NEW i \in Positions, StoreInContainer(q, i) PROVE Held(q, container[q][k])'
    <3>. DEFINE doc == [id |-> wanted[q][i], text |-> <<q, i>>]
    <3>1. i <= Len(wanted[q]) /\ wanted'[q] = wanted[q]
      BY <2>6 DEF StoreInContainer, Staged, request
    <3>2. doc \in Documents /\ <<doc>> \in Seq(Documents)
      BY <3>1, StoredDocument
    <3>3. container'[q] = container[q] \o <<doc>>
      BY <2>6, <3>2, Grown DEF StoreInContainer
    <3>4. op'[q][i] = "stored"
      BY <2>6, OpTyped DEF StoreInContainer
    <3>5. doc.id = wanted[q][i] /\ doc.text = <<q, i>>
      OBVIOUS
    <3>. HIDE DEF doc
    <3>6. <<doc>> \in Seq(Documents) /\ Len(<<doc>>) = 1 /\ <<doc>>[1] = doc
      BY <3>2
    <3>. DEFINE m == Len(container[q])
    <3>7. /\ Len(container[q] \o <<doc>>) = m + 1
          /\ \A j \in 1 .. m + 1 : (container[q] \o <<doc>>)[j] =
               IF j <= m THEN container[q][j] ELSE <<doc>>[j - m]
      BY <2>2, <3>6, ConcatProperties
    <3>8. m \in Nat /\ k \in 1 .. m + 1
      BY <2>2, <3>3, <3>7
    <3>9. container'[q][k] = IF k <= m THEN container[q][k] ELSE <<doc>>[k - m]
      BY <3>3, <3>7, <3>8
    <3>10. CASE k <= m
      <4>1. k \in 1 .. m /\ container'[q][k] = container[q][k]
        BY <3>8, <3>9, <3>10
      <4>. QED
        BY <2>3, <4>1
    <3>11. CASE ~(k <= m)
      <4>1. k - m = 1
        BY <3>8, <3>11
      <4>2. container'[q][k] = doc
        BY <3>6, <3>9, <3>11, <4>1
      <4>. QED
        BY <3>1, <3>4, <3>5, <4>2 DEF Held, Got
    <3>. QED
      BY <3>10, <3>11
  <2>. QED
    BY <2>4, <2>5, <2>6, ContainerChanges
<1>. QED
  BY <1>1, <1>2, <1>3 DEF Sources

-----------------------------------------------------------------------------
(* The documents of a request, counted *)

\* One document more is one hit more or none.
LEMMA IdsAppend ==
  ASSUME NEW docs \in Seq(Documents), NEW doc \in Documents, NEW G
  PROVE  Hits(G, Ids(Append(docs, doc))) = Hits(G, Ids(docs)) + (IF doc.id \in G THEN 1 ELSE 0)
<1>1. <<doc>> \in Seq(Documents)
  OBVIOUS
<1>2. Append(docs, doc) = docs \o <<doc>>
  BY <1>1
<1>3. Hits(G, Ids(docs \o <<doc>>)) = Hits(G, Ids(docs)) + Hits(G, Ids(<<doc>>))
  BY <1>1, HitsDocuments
<1>4. Hits(G, Ids(<<doc>>)) = IF doc.id \in G THEN 1 ELSE 0
  BY HitsOne
<1>. QED
  BY ONLY <1>2, <1>3, <1>4

\* A file more among the looked-up ones.
LEMMA LookedAppend ==
  ASSUME NEW list \in Seq(Files), NEW n \in Nat, n + 1 <= Len(list), NEW G
  PROVE  Cardinality({k \in 1 .. n + 1 : list[k] \in G})
           = Cardinality({k \in 1 .. n : list[k] \in G}) + (IF list[n + 1] \in G THEN 1 ELSE 0)
<1>. DEFINE old == {k \in 1 .. n : list[k] \in G}
            new == {k \in 1 .. n + 1 : list[k] \in G}
<1>1. IsFiniteSet(1 .. n)
  BY PositionsCount
<1>2. old \in SUBSET (1 .. n) /\ n + 1 \notin old
  OBVIOUS
<1>3. IsFiniteSet(old) /\ Cardinality(old) \in Nat
  BY <1>1, <1>2, FS_Subset, FS_CardinalityType
<1>4. new = IF list[n + 1] \in G THEN old \cup {n + 1} ELSE old
  OBVIOUS
<1>. HIDE DEF old, new
<1>5. Cardinality(old \cup {n + 1}) = Cardinality(old) + 1
  BY <1>2, <1>3, FS_AddElement
<1>6. Cardinality(new) = Cardinality(old) + (IF list[n + 1] \in G THEN 1 ELSE 0)
  BY <1>3, <1>4, <1>5
<1>. QED
  BY <1>6 DEF old, new

\* A step that adds no document and stores no download keeps the balance,
\* unless it passes the append.
LEMMA BalanceFrame ==
  ASSUME NEW r \in Requests, NEW G \in SUBSET Files, Balanced(r, G),
         files'[r] = files[r], cached'[r] = cached[r], wanted'[r] = wanted[r],
         container'[r] = container[r], Stored(r)' = Stored(r),
         \/ pc'[r] = pc[r]
         \/ pc'[r] \notin {"new", "select", "download", "append", "analysis", "200"}
         \/ /\ pc[r] \in {"new", "select", "download", "append"}
            /\ pc'[r] \in {"new", "select", "download", "append"}
         \/ pc[r] \in {"analysis", "200"} /\ pc'[r] \in {"analysis", "200"}
  PROVE  Balanced(r, G)'
  BY DEF Balanced, Looked

\* One more on either side of a sum.
LEMMA OneMore ==
  ASSUME NEW a \in Nat, NEW b \in Nat
  PROVE  (a + 1) + b = (a + b) + 1 /\ a + (b + 1) = (a + b) + 1
  OBVIOUS

\* Every action of a request keeps its balance.
LEMMA RequestBalance ==
  ASSUME TypeOK, TypeOK', \A q \in Requests : Staged(q), NEW r \in Requests, Staged(r)',
         RequestAction(r), NEW G \in SUBSET Files, Balanced(r, G)
  PROVE  Balanced(r, G)'
<1>. USE DEF table, request, saving
<1>. Staged(r)
  OBVIOUS
<1>1. CASE ReceiveRequest(r)
  <2>1. cached'[r] = <<>> /\ wanted'[r] = <<>> /\ container'[r] = <<>>
    BY <1>1 DEF ReceiveRequest, Staged
  <2>2. pc'[r] \in {"select", "400", "401", "dropped"}
    BY <1>1 DEF ReceiveRequest, Goto, TypeOK
  <2>3. Hits(G, Ids(<<>>)) = 0 /\ Hits(G, <<>>) = 0 /\ Len(<<>>) = 0
    BY HitsEmpty, EmptySeq
  <2>4. Looked(r)' = {} /\ Stored(r)' = {}
    BY <2>1, <2>3 DEF Looked, Stored
  <2>5. /\ Cardinality({k \in Looked(r)' : files'[r][k] \in G}) = 0
        /\ Cardinality({k \in Stored(r)' : wanted'[r][k] \in G}) = 0
    BY <2>4, FS_EmptySet
  <2>. QED
    BY ONLY <2>1, <2>2, <2>3, <2>5 DEF Balanced
<1>2. CASE FindCached(r)
  <2>. DEFINE f == files[r][Current(r)]
              n == Len(cached[r]) + Len(wanted[r])
  <2>1. f \in Files /\ documents[f] # None /\ cached' = [cached EXCEPT ![r] = Append(@, Row(f))]
    BY <1>2, CurrentFile DEF FindCached, Row
  <2>2. Row(f) \in Documents /\ Row(f).id = f
    BY <2>1, CachedDocument DEF Row
  <2>3. cached[r] \in Seq(Documents) /\ cached'[r] = Append(cached[r], Row(f))
    BY <2>1 DEF TypeOK
  <2>4. /\ Hits(G, Ids(cached'[r])) = Hits(G, Ids(cached[r])) + (IF f \in G THEN 1 ELSE 0)
        /\ Len(cached'[r]) = Len(cached[r]) + 1
    BY <2>2, <2>3, IdsAppend, AppendProperties
  <2>5. Current(r) = n + 1 /\ n \in Nat /\ files[r] \in Seq(Files) /\ n + 1 <= Len(files[r])
    BY <1>2, Lengths DEF Current, FindCached, TypeOK
  <2>6. Cardinality({k \in 1 .. n + 1 : files[r][k] \in G})
          = Cardinality({k \in 1 .. n : files[r][k] \in G}) + (IF f \in G THEN 1 ELSE 0)
    BY <2>5, LookedAppend
  <2>7. Looked(r)' = 1 .. n + 1 /\ Looked(r) = 1 .. n
    <3>1. Len(cached'[r]) + Len(wanted'[r]) = n + 1
      <4>1. Len(cached[r]) \in Nat /\ Len(wanted[r]) \in Nat
        BY Lengths
      <4>2. wanted' = wanted
        BY <1>2 DEF FindCached
      <4>3. Len(cached'[r]) = Len(cached[r]) + 1 /\ Len(wanted'[r]) = Len(wanted[r])
        BY <2>4, <4>2
      <4>4. Len(cached'[r]) + Len(wanted'[r]) = (Len(cached[r]) + 1) + Len(wanted[r])
        BY ONLY <4>3
      <4>5. (Len(cached[r]) + 1) + Len(wanted[r]) = n + 1
        BY <4>1, OneMore
      <4>. QED
        BY ONLY <4>4, <4>5
    <3>. QED
      BY <3>1 DEF Looked
  <2>8. Hits(G, Ids(cached[r])) \in Nat /\ Hits(G, wanted[r]) \in Nat
    BY <2>3, IdsType, HitsType DEF TypeOK
  <2>9. /\ files' = files /\ wanted' = wanted /\ container' = container /\ op' = op
        /\ pc'[r] = "select" /\ pc[r] = "select"
    BY <1>2 DEF FindCached
  <2>10. Stored(r)' = Stored(r)
    BY <2>9 DEF Stored
  <2>11. Cardinality({k \in 1 .. n : files[r][k] \in G})
           = Hits(G, Ids(cached[r])) + Hits(G, wanted[r])
    BY <2>7 DEF Balanced
  <2>12. Cardinality({k \in 1 .. n + 1 : files[r][k] \in G})
           = Hits(G, Ids(cached'[r])) + Hits(G, wanted[r])
    BY ONLY <2>4, <2>6, <2>8, <2>11
  <2>13. Hits(G, Ids(container[r])) = Cardinality({k \in Stored(r) : wanted[r][k] \in G})
    BY <2>9 DEF Balanced
  <2>. HIDE DEF f, n
  <2>. QED
    BY ONLY <2>7, <2>9, <2>10, <2>12, <2>13 DEF Balanced
<1>3. CASE PlanDownload(r)
  <2>. DEFINE f == files[r][Current(r)]
              n == Len(cached[r]) + Len(wanted[r])
  <2>1. f \in Files /\ wanted' = [wanted EXCEPT ![r] = Append(@, f)]
    BY <1>3, CurrentFile DEF PlanDownload
  <2>2. wanted[r] \in Seq(Files) /\ wanted'[r] = Append(wanted[r], f)
    BY <2>1 DEF TypeOK
  <2>3. /\ Hits(G, wanted'[r]) = Hits(G, wanted[r]) + (IF f \in G THEN 1 ELSE 0)
        /\ Len(wanted'[r]) = Len(wanted[r]) + 1
    BY <2>1, <2>2, HitsAppend, AppendProperties
  <2>4. Current(r) = n + 1 /\ n \in Nat /\ files[r] \in Seq(Files) /\ n + 1 <= Len(files[r])
    BY <1>3, Lengths DEF Current, PlanDownload, TypeOK
  <2>5. Cardinality({k \in 1 .. n + 1 : files[r][k] \in G})
          = Cardinality({k \in 1 .. n : files[r][k] \in G}) + (IF f \in G THEN 1 ELSE 0)
    BY <2>4, LookedAppend
  <2>6. Looked(r)' = 1 .. n + 1 /\ Looked(r) = 1 .. n
    <3>1. Len(cached'[r]) + Len(wanted'[r]) = n + 1
      <4>1. Len(cached[r]) \in Nat /\ Len(wanted[r]) \in Nat
        BY Lengths
      <4>2. cached' = cached
        BY <1>3 DEF PlanDownload
      <4>3. Len(wanted'[r]) = Len(wanted[r]) + 1 /\ Len(cached'[r]) = Len(cached[r])
        BY <2>3, <4>2
      <4>4. Len(cached'[r]) + Len(wanted'[r]) = Len(cached[r]) + (Len(wanted[r]) + 1)
        BY ONLY <4>3
      <4>5. Len(cached[r]) + (Len(wanted[r]) + 1) = n + 1
        BY <4>1, OneMore
      <4>. QED
        BY ONLY <4>4, <4>5
    <3>. QED
      BY <3>1 DEF Looked
  <2>7. Hits(G, Ids(cached[r])) \in Nat /\ Hits(G, wanted[r]) \in Nat
    BY <2>2, IdsType, HitsType DEF TypeOK
  <2>8. /\ files' = files /\ cached' = cached /\ container' = container /\ op' = op
        /\ pc'[r] = "select" /\ pc[r] = "select"
    BY <1>3 DEF PlanDownload
  <2>9. Cardinality({k \in 1 .. n : files[r][k] \in G})
          = Hits(G, Ids(cached[r])) + Hits(G, wanted[r])
    BY <2>6 DEF Balanced
  <2>10. Cardinality({k \in 1 .. n + 1 : files[r][k] \in G})
           = Hits(G, Ids(cached[r])) + Hits(G, wanted'[r])
    BY ONLY <2>3, <2>5, <2>7, <2>9
  <2>11. (Hits(G, Ids(container[r])) = Cardinality({k \in Stored(r) : wanted[r][k] \in G}))'
    <3>1. Len(wanted'[r]) <= MaxFiles
      <4>. DEFINE all == Len(files[r])
                  found == Len(cached[r])
                  missing == Len(wanted[r])
      <4>1. all \in 0 .. MaxFiles /\ found \in 0 .. MaxFiles /\ missing \in 0 .. MaxFiles
        BY Lengths
      <4>2. found + missing + 1 <= all /\ Len(wanted'[r]) = missing + 1
        BY <2>3, <2>4
      <4>3. MaxFiles \in Nat
        BY NumberAssumption
      <4>. HIDE DEF all, found, missing
      <4>. QED
        BY ONLY <4>1, <4>2, <4>3
    <3>2. container'[r] = <<>> /\ \A k \in Positions : op'[r][k] # "stored"
      BY <2>8 DEF Staged
    <3>3. Stored(r)' = {}
      <4>1. Len(wanted'[r]) \in Nat /\ MaxFiles \in Nat
        BY <2>3, NumberAssumption, Lengths
      <4>2. \A k \in 1 .. Len(wanted'[r]) : k \in Positions
        BY <3>1, <4>1 DEF Positions
      <4>. QED
        BY <3>2, <4>2 DEF Stored
    <3>4. Cardinality({k \in Stored(r)' : wanted'[r][k] \in G}) = 0
      BY <3>3, FS_EmptySet
    <3>5. Hits(G, Ids(container'[r])) = 0
      BY <3>2, HitsEmpty
    <3>. QED
      BY <3>4, <3>5
  <2>. HIDE DEF f, n
  <2>. QED
    BY ONLY <2>6, <2>8, <2>10, <2>11 DEF Balanced
<1>4. CASE RejectItem(r)
  <2>1. pc'[r] = "dropped"
    BY <1>4 DEF RejectItem, Goto, TypeOK
  <2>. QED
    BY <1>4, <2>1, BalanceFrame DEF RejectItem, Stored
<1>5. CASE StartDownloads(r)
  <2>1. /\ pc[r] = "select" /\ pc'[r] \in {"append", "download"}
        /\ \A k \in Positions : op'[r][k] # "stored" /\ op[r][k] # "stored"
    BY <1>5 DEF StartDownloads, Goto, Staged, TypeOK
  <2>2. Stored(r) = {} /\ Stored(r)' = {}
    <3>1. Len(wanted[r]) \in 0 .. MaxFiles /\ wanted' = wanted
      BY <1>5, Lengths DEF StartDownloads
    <3>. QED
      BY <2>1, <3>1, NumberAssumption DEF Stored, Positions
  <2>. QED
    BY <1>5, <2>1, <2>2, BalanceFrame DEF StartDownloads
<1>6. CASE JoinDownloads(r)
  <2>1. pc[r] = "download" /\ pc'[r] \in {"append", "dropped"}
    BY <1>6 DEF JoinDownloads, Goto, TypeOK
  <2>. QED
    BY <1>6, <2>1, BalanceFrame DEF JoinDownloads, Stored
<1>7. CASE AppendCached(r)
  <2>1. cached[r] \in Seq(Documents) /\ container[r] \in Seq(Documents) /\ wanted[r] \in Seq(Files)
    BY DEF TypeOK
  <2>2. container'[r] = container[r] \o cached[r]
    BY <1>7, <2>1, Grown DEF AppendCached
  <2>3. Hits(G, Ids(container'[r])) = Hits(G, Ids(container[r])) + Hits(G, Ids(cached[r]))
    BY <2>1, <2>2, HitsDocuments
  <2>4. Hits(G, Ids(container[r])) = Cardinality({k \in Stored(r) : wanted[r][k] \in G})
    BY <1>7 DEF Balanced, AppendCached
  <2>5. {k \in Stored(r) : wanted[r][k] \in G} = {k \in DOMAIN wanted[r] : wanted[r][k] \in G}
    <3>1. Whole(r) /\ DOMAIN wanted[r] = 1 .. Len(wanted[r])
      BY <1>7, <2>1, LenProperties DEF AppendCached, Staged
    <3>. QED
      BY <3>1 DEF Whole, Stored
  <2>6. Hits(G, Ids(cached[r])) \in Nat /\ Hits(G, wanted[r]) \in Nat
    BY <2>1, IdsType, HitsType
  <2>7. Hits(G, Ids(container[r])) = Hits(G, wanted[r])
    BY <2>4, <2>5 DEF Hits
  <2>8. Hits(G, Ids(container'[r])) = Hits(G, Ids(cached[r])) + Hits(G, wanted[r])
    BY ONLY <2>3, <2>6, <2>7
  <2>9. pc'[r] = "analysis" /\ files' = files /\ cached' = cached /\ wanted' = wanted
    BY <1>7 DEF AppendCached, Goto, TypeOK
  <2>10. Looked(r)' = Looked(r)
    BY <2>9 DEF Looked
  <2>11. Cardinality({k \in Looked(r) : files[r][k] \in G})
           = Hits(G, Ids(cached[r])) + Hits(G, wanted[r])
    BY DEF Balanced
  <2>. QED
    BY ONLY <2>8, <2>9, <2>10, <2>11 DEF Balanced
<1>8. CASE Analyse(r)
  <2>1. pc[r] = "analysis" /\ pc'[r] \in {"200", "dropped"}
    BY <1>8 DEF Analyse, Goto, TypeOK
  <2>. QED
    BY <1>8, <2>1, BalanceFrame DEF Analyse, Stored
<1>9. CASE BeginSaving(r) \/ SaveNext(r) \/ SaveFreed(r) \/ EndSaving(r)
  BY <1>9, BalanceFrame DEF BeginSaving, SaveNext, SaveFreed, EndSaving, Stored
<1>10. ASSUME NEW k \in Positions, Download(r, k) \/ Extract(r, k) PROVE Balanced(r, G)'
  <2>1. PICK step \in {"text", "unreadable", "parsed", "failed"} : OpGoto(r, k, step)
    BY <1>10 DEF Download, Extract
  <2>2. op[r][k] # "stored" /\ \A j \in Positions : op'[r][j] = IF j = k THEN step ELSE op[r][j]
    BY <1>10, <2>1, OpTyped DEF Download, Extract
  <2>3. Stored(r)' = Stored(r)
    <3>1. Len(wanted[r]) \in 0 .. MaxFiles /\ wanted' = wanted
      BY <1>10, Lengths DEF Download, Extract
    <3>2. \A j \in 1 .. Len(wanted[r]) : j \in Positions
      BY <3>1, NumberAssumption DEF Positions
    <3>3. \A j \in 1 .. Len(wanted[r]) : op'[r][j] = "stored" <=> op[r][j] = "stored"
      BY <2>2, <3>2
    <3>. QED
      BY <3>1, <3>3 DEF Stored
  <2>. QED
    BY <1>10, <2>3, BalanceFrame DEF Download, Extract
<1>11. ASSUME NEW k \in Positions, StoreInContainer(r, k) PROVE Balanced(r, G)'
  <2>. DEFINE doc == [id |-> wanted[r][k], text |-> <<r, k>>]
              old == {j \in Stored(r) : wanted[r][j] \in G}
  <2>1. pc[r] = "download" /\ k <= Len(wanted[r]) /\ op[r][k] = "parsed"
    BY <1>11 DEF StoreInContainer, Staged
  <2>2. doc \in Documents /\ <<doc>> \in Seq(Documents) /\ k \in 1 .. Len(wanted[r])
    BY <2>1, StoredDocument
  <2>3. container'[r] = container[r] \o <<doc>> /\ container[r] \in Seq(Documents)
    BY <1>11, <2>2, Grown DEF StoreInContainer, TypeOK
  <2>4. doc.id = wanted[r][k]
    OBVIOUS
  <2>. HIDE DEF doc
  <2>5. Hits(G, Ids(container'[r]))
          = Hits(G, Ids(container[r])) + (IF wanted[r][k] \in G THEN 1 ELSE 0)
    <3>1. Hits(G, Ids(container'[r])) = Hits(G, Ids(container[r])) + Hits(G, Ids(<<doc>>))
      BY <2>2, <2>3, HitsDocuments
    <3>2. Hits(G, Ids(<<doc>>)) = IF doc.id \in G THEN 1 ELSE 0
      BY <2>2, HitsOne
    <3>. QED
      BY ONLY <2>4, <3>1, <3>2
  <2>6. /\ files' = files /\ cached' = cached /\ wanted' = wanted /\ pc' = pc
        /\ \A j \in Positions : op'[r][j] = IF j = k THEN "stored" ELSE op[r][j]
    BY <1>11, OpTyped DEF StoreInContainer
  <2>7. Stored(r)' = Stored(r) \cup {k} /\ k \notin Stored(r)
    <3>1. Len(wanted[r]) \in 0 .. MaxFiles
      BY Lengths
    <3>2. \A j \in 1 .. Len(wanted[r]) : j \in Positions
      BY <3>1, NumberAssumption DEF Positions
    <3>3. \A j \in 1 .. Len(wanted[r]) : op'[r][j] = "stored" <=> (op[r][j] = "stored" \/ j = k)
      BY <2>6, <3>2
    <3>. QED
      BY <2>1, <2>2, <2>6, <3>3 DEF Stored
  <2>8. {j \in Stored(r)' : wanted[r][j] \in G} = IF wanted[r][k] \in G THEN old \cup {k} ELSE old
    BY <2>7
  <2>9. IsFiniteSet(old) /\ Cardinality(old) \in Nat /\ k \notin old
    <3>1. Len(wanted[r]) \in Nat
      BY Lengths
    <3>2. IsFiniteSet(1 .. Len(wanted[r])) /\ old \in SUBSET (1 .. Len(wanted[r]))
      BY <3>1, PositionsCount DEF Stored
    <3>3. k \notin old
      BY <2>7
    <3>. QED
      BY <3>2, <3>3, FS_Subset, FS_CardinalityType
  <2>10. Hits(G, Ids(container[r])) = Cardinality(old)
    BY <2>1 DEF Balanced
  <2>11. Cardinality({j \in Stored(r)' : wanted[r][j] \in G})
           = Cardinality(old) + (IF wanted[r][k] \in G THEN 1 ELSE 0)
    <3>. HIDE DEF old
    <3>1. Cardinality(old \cup {k}) = Cardinality(old) + 1
      BY <2>9, FS_AddElement
    <3>2. CASE wanted[r][k] \in G
      <4>1. {j \in Stored(r)' : wanted[r][j] \in G} = old \cup {k}
        BY <2>8, <3>2
      <4>. QED
        BY <3>1, <3>2, <4>1
    <3>3. CASE wanted[r][k] \notin G
      <4>1. {j \in Stored(r)' : wanted[r][j] \in G} = old
        BY <2>8, <3>3
      <4>. QED
        BY <2>9, <3>3, <4>1
    <3>. QED
      BY <3>2, <3>3
  <2>12. Hits(G, Ids(container'[r])) = Cardinality({j \in Stored(r)' : wanted[r][j] \in G})
    BY ONLY <2>5, <2>10, <2>11
  <2>13. Looked(r)' = Looked(r)
    BY <2>6 DEF Looked
  <2>14. Cardinality({j \in Looked(r) : files[r][j] \in G})
           = Hits(G, Ids(cached[r])) + Hits(G, wanted[r])
    BY DEF Balanced
  <2>. QED
    BY ONLY <2>1, <2>6, <2>12, <2>13, <2>14 DEF Balanced
<1>. QED
  BY <1>1, <1>2, <1>3, <1>4, <1>5, <1>6, <1>7, <1>8, <1>9, <1>10, <1>11 DEF RequestAction

\* The crash drops requests and keeps what they have stored.
LEMMA CrashKeeps ==
  ASSUME TypeOK, Crash, NEW q \in Requests
  PROVE  /\ files'[q] = files[q] /\ cached'[q] = cached[q] /\ wanted'[q] = wanted[q]
         /\ container'[q] = container[q] /\ range'[q] = range[q] /\ freed'[q] = freed[q]
         /\ (pc'[q] = pc[q] /\ pc[q] \notin Steps) \/ (pc'[q] = "dropped" /\ pc[q] \in Steps)
         /\ \A k \in Positions : op'[q][k] = IF op[q][k] \in {"none", "stored"}
                                             THEN op[q][k] ELSE "failed"
         /\ saver'[q] = IF saver[q] = "none" THEN "none" ELSE "done"
  BY DEF Crash, table, TypeOK

LEMMA CrashStaged ==
  ASSUME TypeOK, Crash, NEW q \in Requests, Staged(q)
  PROVE  Staged(q)'
<1>1. \A k \in 1 .. Len(wanted[q]) : k \in Positions
  <2>1. Len(wanted[q]) \in 0 .. MaxFiles
    BY Lengths
  <2>. QED
    BY <2>1, NumberAssumption DEF Positions
<1>2. Whole(q) => Whole(q)'
  BY <1>1, CrashKeeps DEF Whole
<1>3. pc[q] \in {"new"} \cup Steps \cup Ends
  BY DEF TypeOK
<1>4. \A k \in Positions : /\ op'[q][k] # "none" => op[q][k] # "none"
                           /\ op'[q][k] \in {"none", "stored", "failed"}
  BY CrashKeeps
<1>. QED
  BY <1>2, <1>3, <1>4, CrashKeeps DEF Staged, Steps, Ends

LEMMA CrashBalanced ==
  ASSUME TypeOK, Crash, NEW q \in Requests, NEW G \in SUBSET Files, Balanced(q, G)
  PROVE  Balanced(q, G)'
<1>1. \A k \in 1 .. Len(wanted[q]) : k \in Positions
  <2>1. Len(wanted[q]) \in 0 .. MaxFiles
    BY Lengths
  <2>. QED
    BY <2>1, NumberAssumption DEF Positions
<1>2. \A k \in 1 .. Len(wanted[q]) : op'[q][k] = "stored" <=> op[q][k] = "stored"
  BY <1>1, CrashKeeps
<1>3. Stored(q)' = Stored(q)
  BY <1>2, CrashKeeps DEF Stored
<1>4. pc'[q] = pc[q] \/ pc'[q] = "dropped"
  BY CrashKeeps
<1>. QED
  BY <1>3, <1>4, CrashKeeps, BalanceFrame

-----------------------------------------------------------------------------
\* A row without id needs a saver whose memory was freed.
LEMMA BlankStep ==
  ASSUME TypeOK, TypeOK', \A r \in Requests : Staged(r), \A r \in Requests : Staged(r)',
         BlankNeedsMixedRequest, [Next]_vars
  PROVE  BlankNeedsMixedRequest'
<1>. USE DEF table, request, saving
<1>1. ASSUME NEW q \in Requests, cached[q] # <<>>, wanted[q] # <<>>
      PROVE  cached'[q] # <<>> /\ wanted'[q] # <<>>
  <2>1. CASE RequestAction(q)
    <3>1. CASE FindCached(q)
      <4>1. wanted' = wanted /\ cached[q] \in Seq(Documents)
        BY <3>1 DEF FindCached, TypeOK
      <4>2. CASE cached'[q] = cached[q]
        BY <1>1, <4>1, <4>2
      <4>3. CASE cached'[q] # cached[q]
        <5>1. /\ files[q][Current(q)] \in Files /\ documents[files[q][Current(q)]] # None
              /\ cached'[q] = Append(cached[q], Row(files[q][Current(q)]))
          BY <4>3, CachedChanges
        <5>2. Row(files[q][Current(q)]) \in Documents
          BY <5>1, CachedDocument
        <5>. QED
          BY <1>1, <4>1, <5>1, <5>2, AppendProperties
      <4>. QED
        BY <4>2, <4>3
    <3>2. CASE PlanDownload(q)
      <4>1. cached' = cached /\ wanted[q] \in Seq(Files)
        BY <3>2 DEF PlanDownload, TypeOK
      <4>2. files[q][Current(q)] \in Files
        BY <3>2, CurrentFile DEF PlanDownload
      <4>3. wanted'[q] = Append(wanted[q], files[q][Current(q)])
        BY <3>2 DEF PlanDownload, TypeOK
      <4>. QED
        BY <1>1, <4>1, <4>2, <4>3, AppendProperties
    <3>3. CASE ~FindCached(q) /\ ~PlanDownload(q)
      BY <1>1, <2>1, <3>3 DEF RequestAction, ReceiveRequest, RejectItem, StartDownloads,
           JoinDownloads, AppendCached, Analyse, BeginSaving, SaveNext, SaveFreed,
           EndSaving, Download, Extract, StoreInContainer
    <3>. QED
      BY <3>1, <3>2, <3>3
  <2>2. ASSUME NEW r \in Requests \ {q}, RequestAction(r)
        PROVE  cached'[q] # <<>> /\ wanted'[q] # <<>>
    BY <1>1, <2>2, OthersStay DEF Same
  <2>3. CASE Crash \/ UNCHANGED vars
    BY <1>1, <2>3 DEF Crash, vars
  <2>. QED
    BY <2>1, <2>2, <2>3, NextCases DEF RequestAction
<1>2. CASE blank
  <2>1. PICK q \in Requests : cached[q] # <<>> /\ wanted[q] # <<>>
    BY <1>2 DEF BlankNeedsMixedRequest
  <2>2. cached'[q] # <<>> /\ wanted'[q] # <<>>
    BY <1>1, <2>1
  <2>. QED
    BY <2>2 DEF BlankNeedsMixedRequest
<1>3. ASSUME ~blank, NEW r \in Requests, SaveFreed(r) PROVE BlankNeedsMixedRequest'
  <2>1. cached[r] # <<>> /\ wanted[r] # <<>>
    BY <1>3 DEF SaveFreed, Staged
  <2>2. cached'[r] # <<>> /\ wanted'[r] # <<>>
    BY <1>1, <2>1
  <2>. QED
    BY <2>2 DEF BlankNeedsMixedRequest
<1>4. ASSUME ~blank, ~(\E r \in Requests : SaveFreed(r)) PROVE ~blank'
  <2>1. ASSUME NEW r \in Requests,
               \/ ReceiveRequest(r) \/ FindCached(r) \/ PlanDownload(r) \/ RejectItem(r)
               \/ StartDownloads(r) \/ JoinDownloads(r) \/ AppendCached(r) \/ Analyse(r)
               \/ BeginSaving(r) \/ SaveNext(r) \/ EndSaving(r)
               \/ \E k \in Positions : Download(r, k) \/ Extract(r, k) \/ StoreInContainer(r, k)
        PROVE  blank' = blank
    BY <2>1 DEF ReceiveRequest, FindCached, PlanDownload, RejectItem, StartDownloads,
                JoinDownloads, AppendCached, Analyse, BeginSaving, SaveNext, EndSaving,
                Download, Extract, StoreInContainer
  <2>2. ASSUME Crash \/ UNCHANGED vars PROVE blank' = blank
    BY <2>2 DEF Crash, vars
  <2>. QED
    BY <1>4, <2>1, <2>2, NextCases
<1>. QED
  BY <1>2, <1>3, <1>4 DEF BlankNeedsMixedRequest

-----------------------------------------------------------------------------
(* The theorems *)

LEMMA PipelineStep == PipelineInv /\ [Next]_vars => PipelineInv'
<1>. SUFFICES ASSUME PipelineInv, [Next]_vars PROVE PipelineInv'
  OBVIOUS
<1>1. TypeOK /\ (\A q \in Requests : Staged(q)) /\ Sources /\ Balance /\ BlankNeedsMixedRequest
  BY DEF PipelineInv
<1>2. TypeOK'
  BY <1>1, TypeStep
<1>3. \/ \E r \in Requests : RequestAction(r)
      \/ Crash
      \/ UNCHANGED vars
  BY NextCases DEF RequestAction
<1>4. ASSUME NEW q \in Requests PROVE Staged(q)'
  <2>1. CASE RequestAction(q)
    BY <1>1, <1>2, <2>1, StagedStep
  <2>2. ASSUME NEW r \in Requests, RequestAction(r), r # q PROVE Staged(q)'
    BY <1>1, <2>2, OthersStay, SameStage
  <2>3. CASE Crash
    BY <1>1, <2>3, CrashStaged
  <2>4. CASE UNCHANGED vars
    BY <1>1, <2>4, SameStage DEF vars, table, request, saving, Same
  <2>. QED
    BY <1>3, <2>1, <2>2, <2>3, <2>4
<1>5. Sources'
  BY <1>1, <1>2, SourcesStep
<1>6. ASSUME NEW q \in Requests, NEW G \in SUBSET Files PROVE Balanced(q, G)'
  <2>1. Balanced(q, G)
    BY <1>1 DEF Balance
  <2>2. CASE RequestAction(q)
    BY <1>1, <1>2, <1>4, <2>1, <2>2, RequestBalance
  <2>3. ASSUME Same(q) PROVE Balanced(q, G)'
    <3>1. Stored(q)' = Stored(q)
      BY <2>3 DEF Same, Stored
    <3>. QED
      BY <2>1, <2>3, <3>1, BalanceFrame DEF Same
  <2>4. ASSUME NEW r \in Requests, RequestAction(r), r # q PROVE Balanced(q, G)'
    BY <1>1, <2>3, <2>4, OthersStay
  <2>5. CASE Crash
    BY <1>1, <2>1, <2>5, CrashBalanced
  <2>6. CASE UNCHANGED vars
    BY <2>3, <2>6 DEF vars, table, request, saving, Same
  <2>. QED
    BY <1>3, <2>2, <2>4, <2>5, <2>6
<1>7. BlankNeedsMixedRequest'
  BY <1>1, <1>2, <1>4, BlankStep
<1>. QED
  BY <1>2, <1>4, <1>5, <1>6, <1>7 DEF PipelineInv, Balance

\* The invariant holds in every state, whatever requests, savers and crashes do.
THEOREM PipelineInvariant == Spec => []PipelineInv
<1>. QED
  BY InitPipelineInv, PipelineStep, PTL DEF Spec

\* The variables of the pipeline keep their types.
THEOREM TypeCorrect == Spec => []TypeOK
<1>1. PipelineInv => TypeOK
  BY DEF PipelineInv
<1>. QED
  BY <1>1, PipelineInvariant, PTL

LEMMA CountIsHits ==
  ASSUME NEW f, NEW ids
  PROVE  Count(f, ids) = Hits({f}, ids)
<1>1. {k \in DOMAIN ids : ids[k] = f} = {k \in DOMAIN ids : ids[k] \in {f}}
  OBVIOUS
<1>. QED
  BY <1>1 DEF Count, Hits

\* The ML server gets every file as often as the request lists it.
THEOREM PayloadComplete == Spec => []PayloadIsComplete
<1>1. ASSUME PipelineInv, NEW r \in Requests, pc[r] \in {"analysis", "200"}, NEW f \in Files
      PROVE  Count(f, [k \in DOMAIN container[r] |-> container[r][k].id]) = Count(f, files[r])
  <2>1. Balanced(r, {f}) /\ Staged(r) /\ TypeOK
    BY <1>1 DEF PipelineInv, Balance
  <2>2. Looked(r) = DOMAIN files[r]
    <3>1. Len(cached[r]) + Len(wanted[r]) = Len(files[r])
      BY <1>1, <2>1 DEF Staged
    <3>2. DOMAIN files[r] = 1 .. Len(files[r])
      BY <2>1, LenProperties DEF TypeOK
    <3>. QED
      BY <3>1, <3>2 DEF Looked
  <2>3. Hits({f}, Ids(container[r])) = Cardinality({k \in Looked(r) : files[r][k] \in {f}})
    BY <1>1, <2>1 DEF Balanced
  <2>4. Hits({f}, Ids(container[r])) = Hits({f}, files[r])
    BY <2>2, <2>3 DEF Hits
  <2>. QED
    BY <2>4, CountIsHits DEF Ids
<1>2. PipelineInv => PayloadIsComplete
  BY <1>1 DEF PayloadIsComplete
<1>. QED
  BY <1>2, PipelineInvariant, PTL

\* No text goes under another file's id.
THEOREM Authenticity == Spec => []TextsAreAuthentic
<1>1. ASSUME PipelineInv, NEW f \in Files, documents[f] # None
      PROVE  Authentic([id |-> f, text |-> documents[f]])
  BY <1>1 DEF PipelineInv, Sources, Settled, Got, Row, Authentic
<1>2. ASSUME PipelineInv, NEW r \in Requests, NEW k \in DOMAIN container[r]
      PROVE  Authentic(container[r][k])
  <2>1. TypeOK /\ Sources
    BY <1>2 DEF PipelineInv
  <2>2. k \in 1 .. Len(container[r])
    BY <1>2, <2>1, LenProperties DEF TypeOK
  <2>3. Held(r, container[r][k])
    BY <2>1, <2>2, SourcesOf
  <2>. QED
    BY <2>3 DEF Held, Got, Authentic
<1>3. PipelineInv => TextsAreAuthentic
  BY <1>1, <1>2 DEF TextsAreAuthentic
<1>. QED
  BY <1>3, PipelineInvariant, PTL

\* A request one of whose downloads failed leaves nothing in the table.
THEOREM Wholeness == Spec => []StoredFromWholeRequests
<1>1. ASSUME PipelineInv, NEW f \in Files, documents[f] # None
      PROVE  \A k \in 1 .. Len(wanted[documents[f][1]]) : op[documents[f][1]][k] = "stored"
  BY <1>1 DEF PipelineInv, Sources, Settled, Whole, Row
<1>2. PipelineInv => StoredFromWholeRequests
  BY <1>1 DEF StoredFromWholeRequests
<1>. QED
  BY <1>2, PipelineInvariant, PTL

\* A row without id needs a request with cached and new files.
THEOREM BlankRows == Spec => []BlankNeedsMixedRequest
<1>1. PipelineInv => BlankNeedsMixedRequest
  BY DEF PipelineInv
<1>. QED
  BY <1>1, PipelineInvariant, PTL
=============================================================================
