----------------------------- MODULE LoopsProofs ------------------------------
(***************************************************************************)
(* The loops over data of any size or shape.  For entries of any length    *)
(* and a buffer of any first size zipReader releases what it created and   *)
(* hands on what was read whole; for any styles, in circles or not, the    *)
(* headings are those the file says; for tokens of any length and any int  *)
(* of 16 bits or more base64UrlEncode writes every bit.                    *)
(***************************************************************************)
EXTENDS MCLoops, FiniteSetTheorems, SequenceTheorems, WellFoundedInduction, TLAPS

LEMMA Sizes == InitialSize \in Nat /\ InitialSize > 0 /\ MaxLength \in Nat
  BY SizeAssumption

LEMMA InitReaderInv == Init => ReaderInv
<1>. SUFFICES ASSUME Init PROVE ReaderInv
  OBVIOUS
<1>1. TypeOK
  BY Sizes DEF Init, TypeOK, Entries, Ends
<1>2. HandlesFollow
  BY DEF Init, HandlesFollow, Ends
<1>3. ReadSoFar
  BY DEF Init, ReadSoFar, Opening, Entries
<1>. QED
  BY <1>1, <1>2, <1>3 DEF ReaderInv

-----------------------------------------------------------------------------
\* After cleanup nothing is held, and the stream was deleted once.
LEMMA CleanupReleases ==
  ASSUME ReaderInv, cleanup
  PROVE  /\ memStream' = "null" /\ zipHandle' = "null"
         /\ deletes' \in [{"memStream", "zipHandle"} -> Nat]
         /\ deletes'.memStream = 1 /\ deletes'.zipHandle \in {0, 1}
  BY DEF ReaderInv, TypeOK, HandlesFollow, cleanup

\* An exception leaves a state of the invariant, whatever was going on.
LEMMA ThrowStep ==
  ASSUME ReaderInv, Throw
  PROVE  ReaderInv'
<1>1. /\ memStream' = "null" /\ zipHandle' = "null"
      /\ deletes' \in [{"memStream", "zipHandle"} -> Nat]
      /\ deletes'.memStream = 1 /\ deletes'.zipHandle \in {0, 1}
  BY CleanupReleases DEF Throw
<1>2. pc' = "exception" /\ UNCHANGED <<zip, entry, size, total, texts>>
  BY DEF Throw, End, buffer
<1>3. TypeOK'
  BY <1>1, <1>2 DEF ReaderInv, TypeOK, Ends
<1>4. HandlesFollow' /\ ReadSoFar'
  BY <1>1, <1>2 DEF HandlesFollow, ReadSoFar, Ends, Opening
<1>. QED
  BY <1>3, <1>4 DEF ReaderInv

\* A turn of the loop leaves room in the buffer, also when it was filled.
LEMMA ReadSomeStep ==
  ASSUME ReaderInv, NEW count \in 1 .. MaxLength, ReadSome(count)
  PROVE  ReaderInv'
<1>1. /\ pc = "read" /\ pc' = "read" /\ UNCHANGED <<zip, entry, texts, memStream, zipHandle, deletes>>
      /\ count \in 1 .. size - total /\ total + count <= zip[entry]
      /\ total' = total + count /\ size' = Grown(total + count)
  BY DEF ReadSome, handles
<1>2. size \in Nat /\ total \in Nat /\ zip[entry] \in 0 .. MaxLength
  BY <1>1 DEF ReaderInv, TypeOK, ReadSoFar
<1>3. total' \in 0 .. MaxLength /\ total' <= zip[entry] /\ size' \in Nat /\ total' < size'
  BY ONLY <1>1, <1>2, Sizes DEF Grown
<1>4. TypeOK'
  BY <1>1, <1>3 DEF ReaderInv, TypeOK
<1>5. HandlesFollow' /\ ReadSoFar'
  BY <1>1, <1>3 DEF ReaderInv, HandlesFollow, ReadSoFar
<1>. QED
  BY <1>4, <1>5 DEF ReaderInv

\* A read of nothing is the end of the entry: there was room for more.
LEMMA EntryEndsStep ==
  ASSUME ReaderInv, EntryEnds
  PROVE  ReaderInv'
<1>1. pc = "read" /\ zip[entry] # None /\ texts' = [texts EXCEPT ![entry] = total] /\ UNCHANGED zip
  BY DEF EntryEnds, ReaderInv, ReadSoFar, End
<1>2. total = zip[entry] /\ total \in 0 .. MaxLength
  <2>1. total < size /\ size \in Nat /\ total \in 0 .. MaxLength
    BY <1>1 DEF ReaderInv, ReadSoFar, TypeOK
  <2>. QED
    BY <2>1 DEF EntryEnds
<1>3. texts' \in [Entries -> 0 .. MaxLength \cup {None}]
  BY <1>1, <1>2 DEF ReaderInv, TypeOK
<1>4. CASE entry = "document"
  <2>1. entry' = "styles" /\ pc' = "locate" /\ UNCHANGED <<memStream, zipHandle, deletes, size, total>>
    BY <1>4 DEF EntryEnds, handles, buffer
  <2>2. texts'.document = zip.document /\ texts'.styles = texts.styles
    BY <1>1, <1>2, <1>4 DEF ReaderInv, TypeOK, Entries
  <2>3. TypeOK'
    BY <1>1, <1>3, <2>1 DEF ReaderInv, TypeOK, Entries
  <2>4. HandlesFollow'
    BY <1>1, <2>1 DEF ReaderInv, HandlesFollow, Ends
  <2>5. ReadSoFar'
    BY <1>1, <1>4, <2>1, <2>2 DEF ReaderInv, ReadSoFar, Opening
  <2>. QED
    BY <2>3, <2>4, <2>5 DEF ReaderInv
<1>5. CASE entry = "styles"
  <2>1. pc' = "parse" /\ cleanup /\ UNCHANGED <<entry, size, total>>
    BY <1>5 DEF EntryEnds, End, buffer
  <2>2. texts'.styles = zip.styles /\ texts'.document = texts.document
    BY <1>1, <1>2, <1>5 DEF ReaderInv, TypeOK, Entries
  <2>3. TypeOK'
    BY <1>1, <1>3, <2>1, CleanupReleases DEF ReaderInv, TypeOK, Ends
  <2>4. HandlesFollow'
    BY <2>1, CleanupReleases DEF HandlesFollow, Ends
  <2>5. ReadSoFar'
    BY <1>1, <1>5, <2>1, <2>2 DEF ReaderInv, ReadSoFar, Opening
  <2>. QED
    BY <2>3, <2>4, <2>5 DEF ReaderInv
<1>. QED
  BY <1>4, <1>5 DEF ReaderInv, TypeOK, Entries

\* An entry that is there is read from its start.
LEMMA LocateStep ==
  ASSUME ReaderInv, LocateEntry
  PROVE  ReaderInv'
<1>1. pc = "locate" /\ zip[entry] # None /\ UNCHANGED <<zip, entry, texts>>
  BY DEF LocateEntry
<1>2. pc' = "read" /\ size' = InitialSize /\ total' = 0 /\ UNCHANGED <<memStream, zipHandle, deletes>>
  BY DEF LocateEntry, handles
<1>3. zip[entry] \in 0 .. MaxLength
  BY <1>1 DEF ReaderInv, TypeOK
<1>4. total' \in 0 .. MaxLength /\ size' \in Nat /\ total' < size' /\ total' <= zip[entry]
  BY ONLY <1>2, <1>3, Sizes
<1>5. TypeOK'
  BY <1>1, <1>2, <1>4 DEF ReaderInv, TypeOK
<1>6. HandlesFollow'
  BY <1>1, <1>2 DEF ReaderInv, HandlesFollow, Ends
<1>7. ReadSoFar'
  BY <1>1, <1>2, <1>4 DEF ReaderInv, ReadSoFar, Opening
<1>. QED
  BY <1>5, <1>6, <1>7 DEF ReaderInv

\* Styles that are not found are no styles, a document that is not found is
\* no document.
LEMMA LocateFailsStep ==
  ASSUME ReaderInv, LocateFails
  PROVE  ReaderInv'
<1>1. /\ pc = "locate" /\ pc' = (IF entry = "document" THEN "nullopt" ELSE "parse") /\ cleanup
      /\ UNCHANGED <<zip, entry, size, total, texts>>
  BY DEF LocateFails, AfterMissing, End, buffer
<1>2. TypeOK'
  BY <1>1, CleanupReleases DEF ReaderInv, TypeOK, Ends
<1>3. HandlesFollow'
  BY <1>1, CleanupReleases DEF HandlesFollow, Ends
<1>4. ReadSoFar'
  BY <1>1 DEF ReaderInv, TypeOK, Entries, ReadSoFar, Opening
<1>. QED
  BY <1>2, <1>3, <1>4 DEF ReaderInv

-----------------------------------------------------------------------------
LEMMA ReaderInvStep ==
  ASSUME ReaderInv, [Next]_vars
  PROVE  ReaderInv'
<1>1. CASE Throw
  BY <1>1, ThrowStep
<1>2. CASE OpenStream /\ ~Throw
  BY <1>2 DEF OpenStream, ReaderInv, TypeOK, HandlesFollow, ReadSoFar, Opening, Ends, buffer
<1>3. CASE CreateZip /\ ~Throw
  BY <1>3 DEF CreateZip, ReaderInv, TypeOK, HandlesFollow, ReadSoFar, Opening, Ends, buffer
<1>4. CASE OpenZip /\ ~Throw
  BY <1>4 DEF OpenZip, ReaderInv, TypeOK, HandlesFollow, ReadSoFar, Opening, Ends, buffer
<1>5. CASE LocateEntry
  BY <1>5, LocateStep
<1>12. CASE LocateFails
  BY <1>12, LocateFailsStep
<1>6. CASE OpenEntryFails
  BY <1>6, ThrowStep DEF OpenEntryFails
<1>7. CASE EntryEnds
  BY <1>7, EntryEndsStep
<1>8. CASE ReadFails
  BY <1>8, ThrowStep DEF ReadFails
<1>9. CASE Parse /\ ~Throw
  BY <1>9 DEF Parse, End, handles, buffer, ReaderInv, TypeOK, HandlesFollow, ReadSoFar, Opening, Ends
<1>10. ASSUME NEW count \in 1 .. MaxLength, ReadSome(count)
       PROVE  ReaderInv'
  BY <1>10, ReadSomeStep
<1>11. CASE UNCHANGED vars
  BY <1>11 DEF vars, handles, buffer, ReaderInv, TypeOK, HandlesFollow, ReadSoFar, Opening
<1>. QED
  BY <1>1, <1>2, <1>3, <1>4, <1>5, <1>6, <1>7, <1>8, <1>9, <1>10, <1>11, <1>12 DEF Next, Step, Ended

LEMMA ReaderInvHolds == Spec => []ReaderInv
  BY InitReaderInv, ReaderInvStep, PTL DEF Spec

(***************************************************************************)
(* TypeOK for entries of any length.                                       *)
(***************************************************************************)
THEOREM TypeCorrect == Spec => []TypeOK
  BY ReaderInvHolds, PTL DEF ReaderInv

(***************************************************************************)
(* HandlesAreReleased for every way out of zipReader.                      *)
(***************************************************************************)
THEOREM Released == Spec => []HandlesAreReleased
<1>1. ReaderInv => HandlesAreReleased
  BY DEF ReaderInv, TypeOK, HandlesFollow, HandlesAreReleased, Ends
<1>. QED
  BY ReaderInvHolds, <1>1, PTL

(***************************************************************************)
(* EntriesAreWhole for every length of an entry, every first size of the   *)
(* buffer and every way of the library to cut the bytes into reads.        *)
(***************************************************************************)
THEOREM Whole == Spec => []EntriesAreWhole
<1>1. ReaderInv => EntriesAreWhole
  BY DEF ReaderInv, ReadSoFar, EntriesAreWhole, Entries
<1>. QED
  BY ReaderInvHolds, <1>1, PTL
-----------------------------------------------------------------------------
(***************************************************************************)
(* parseStyles: resolveOutlineLevel walks one line of descent, so what it  *)
(* finds is what any line of descent finds.                                *)
(***************************************************************************)


LEMMA NatMin ==
  ASSUME NEW T, T \subseteq Nat, T # {}
  PROVE  \E x \in T : \A y \in T : x <= y
<1>1. PICK R : R = OpToRel(<, Nat)
  OBVIOUS
<1>2. IsWellFoundedOn(R, Nat)
  BY <1>1, NatLessThanWellFounded
<1>3. PICK x \in T : \A y \in T : ~(<<y, x>> \in R)
  BY <1>2, WFMin
<1>4. \A m, n \in Nat : m < n => <<m, n>> \in R
  BY <1>1 DEF OpToRel
<1>5. ASSUME NEW y \in T, ~(x <= y) PROVE FALSE
  <2>1. x \in Nat /\ y \in Nat
    OBVIOUS
  <2>2. y < x
    BY <1>5, <2>1
  <2>. QED
    BY <1>3, <1>4, <2>1, <2>2
<1>. QED
  BY <1>5

-----------------------------------------------------------------------------
\* The map of styles has the first node of each id.
FirstOf(id, i) == i \in 1 .. Len(nodes) /\ nodes[i].id = id /\ \A j \in 1 .. i - 1 : nodes[j].id # id
MapInv(id) ==
  IF styles[id] = None THEN \A i \in 1 .. Len(nodes) : nodes[i].id # id
  ELSE \E i \in 1 .. Len(nodes) : FirstOf(id, i) /\ styles[id] = nodes[i]

\* What resolveOutlineLevel has come through: a line of descent of styles
\* without a level, each in visiting, to the one it looks at.
Base(id) == styles[id].basedOn
Follows(f, n) == \A i \in 1 .. n - 1 : f[i + 1] = Base(f[i])
Path(f, n) ==
  /\ n \in Nat \ {0} /\ f \in [1 .. n -> Ids] /\ f[1] = current.style
  /\ \A i \in 1 .. n - 1 : f[i + 1] = Base(f[i])
SearchInv ==
  /\ current.style \in Ids /\ current.at \in Ids /\ styles[current.style] # None
  /\ current.style \notin todo /\ current.style \notin topLevelHeadingStyles
  /\ current.style \in visiting \cup {current.at}
  /\ \A id \in visiting : styles[id] # None /\ styles[id].outlineLevel = None /\ Base(id) \in visiting \cup {current.at}
  /\ \E n \in Nat \ {0} : \E f \in [1 .. n -> Ids] :
       /\ n = Cardinality(visiting) + 1
       /\ Path(f, n) /\ f[n] = current.at /\ \A i \in 1 .. n - 1 : f[i] \in visiting
Heading(id) == Styles!LevelOf(id) = 0 \/ (Styles!LevelOf(id) = None /\ Styles!First(id).headingOne)

MapsInv ==
  /\ nodes \in Seq(Styles!StyleInfo) /\ styles \in [Ids -> Styles!StyleInfo \cup {None}]
  /\ todo \subseteq Ids /\ visiting \subseteq Ids /\ topLevelHeadingStyles \subseteq Ids
  /\ current \in [style : Ids \cup {None}, at : Ids \cup {None}]
  /\ \A id \in Ids : MapInv(id)
  /\ \A id \in todo : styles[id] # None /\ id \notin topLevelHeadingStyles
StylesInv ==
  /\ MapsInv
  /\ current # Styles!Idle => SearchInv
  /\ \A id \in Ids : styles[id] # None /\ id \notin todo /\ current.style # id =>
       (id \in topLevelHeadingStyles <=> Heading(id))

LEMMA IdsAreFinite == IsFiniteSet(Ids) /\ Cardinality(Ids) \in Nat
  BY StyleAssumption, FS_CardinalityType

LEMMA NoneApart == /\ None \notin Ids /\ None \notin Styles!Levels /\ None \notin Styles!StyleInfo /\ StyleNodes \subseteq Styles!StyleInfo
                   /\ IsFiniteSet(Ids)
  BY StyleAssumption DEF Styles!Levels

\* The map has the styles that are defined.
LEMMA Known ==
  ASSUME MapsInv, NEW id \in Ids
  PROVE  /\ Styles!Defined(id) <=> styles[id] # None
         /\ styles[id] # None => Styles!First(id) = styles[id] /\ styles[id] \in Styles!StyleInfo
<1>1. DOMAIN nodes = 1 .. Len(nodes) /\ Len(nodes) \in Nat
  BY LenProperties DEF MapsInv
<1>2. MapInv(id)
  BY DEF MapsInv
<1>3. Styles!Defined(id) <=> styles[id] # None
  BY <1>1, <1>2 DEF MapInv, Styles!Defined, FirstOf
<1>4. ASSUME styles[id] # None PROVE Styles!First(id) = styles[id]
  <2>1. PICK i \in 1 .. Len(nodes) : FirstOf(id, i) /\ styles[id] = nodes[i]
    BY <1>2, <1>4 DEF MapInv
  <2>2. \A k \in 1 .. Len(nodes) : FirstOf(id, k) => k = i
    BY ONLY <1>1, <2>1 DEF FirstOf
  <2>3. Styles!First(id) = nodes[CHOOSE k \in 1 .. Len(nodes) : FirstOf(id, k)]
    BY ONLY <1>1 DEF Styles!First, FirstOf
  <2>4. (CHOOSE k \in 1 .. Len(nodes) : FirstOf(id, k)) = i
    BY ONLY <2>1, <2>2
  <2>. QED
    BY <2>1, <2>3, <2>4
<1>5. styles[id] # None => styles[id] \in Styles!StyleInfo
  BY DEF MapsInv
<1>. QED
  BY <1>3, <1>4, <1>5

\* A line of descent is determined by where it begins.
LEMMA LinesAgree ==
  ASSUME NEW f, NEW g, NEW m \in Nat, NEW n \in Nat, f[1] = g[1], Follows(f, n), Follows(g, m)
  PROVE  \A k \in 1 .. n : k <= m => f[k] = g[k]
<1>. DEFINE T == {k \in 1 .. n : k <= m /\ f[k] # g[k]}
<1>1. SUFFICES ASSUME T # {} PROVE FALSE
  OBVIOUS
<1>0. T \subseteq Nat
  OBVIOUS
<1>. HIDE DEF T
<1>2. PICK k \in T : \A j \in T : k <= j
  BY <1>0, <1>1, NatMin
<1>. USE DEF T
<1>3. k # 1 /\ k \in 1 .. n /\ k <= m
  BY <1>2
<1>4. k - 1 \in 1 .. n - 1 /\ k - 1 \in 1 .. m - 1 /\ k - 1 \in 1 .. n /\ (k - 1) + 1 = k
  BY <1>3
<1>5. f[k - 1] = g[k - 1]
  BY <1>2, <1>3, <1>4
<1>6. f[k] = Base(f[k - 1]) /\ g[k] = Base(g[k - 1])
  BY <1>4 DEF Follows
<1>. QED
  BY <1>2, <1>5, <1>6

\* What LevelOf looks at, said with the map.
Line(g, m, id) ==
  /\ m \in 1 .. Cardinality(Ids) /\ g \in [1 .. m -> Ids] /\ g[1] = id
  /\ \A i \in 1 .. m : styles[g[i]] # None
  /\ \A i \in 1 .. m - 1 : styles[g[i]].outlineLevel = None /\ g[i + 1] = Base(g[i])

LEMMA LineLength == ASSUME NEW S, NEW m \in Nat, NEW g \in [1 .. m -> S] PROVE Len(g) = m /\ DOMAIN g = 1 .. m
<1>1. g \in Seq(S) /\ DOMAIN g = 1 .. m
  BY SeqDef
<1>2. Len(g) \in Nat /\ DOMAIN g = 1 .. Len(g)
  BY <1>1, LenProperties
<1>. QED
  BY <1>1, <1>2

\* The cardinality of the instance is that of FiniteSets.
LEMMA LinesSaid ==
  ASSUME NEW id
  PROVE  Styles!Lines(id) = {line \in UNION {[1 .. n -> Ids] : n \in 1 .. Cardinality(Ids)} :
                               line[1] = id /\ Styles!Descent(line) /\ Styles!Without(line)}
<1>1. Styles!Cardinality(Ids) = Cardinality(Ids)
  BY DEF Cardinality, Styles!Cardinality
<1>. QED
  BY <1>1 DEF Styles!Lines

LEMMA LinesAre ==
  ASSUME MapsInv, NEW id \in Ids, NEW m \in 1 .. Cardinality(Ids), NEW g \in [1 .. m -> Ids]
  PROVE  /\ g \in Styles!Lines(id) <=> Line(g, m, id)
         /\ Line(g, m, id) => Styles!First(g[Len(g)]).outlineLevel = styles[g[m]].outlineLevel
<1>0. Cardinality(Ids) \in Nat
  BY NoneApart, FS_CardinalityType
<1>1. m \in Nat /\ Len(g) = m /\ DOMAIN g = 1 .. m
  BY <1>0, LineLength
<1>2. \A i \in 1 .. m : g[i] \in Ids
  OBVIOUS
<1>3. \A i \in 1 .. m : /\ Styles!Defined(g[i]) <=> styles[g[i]] # None
                        /\ styles[g[i]] # None => Styles!First(g[i]) = styles[g[i]]
  BY <1>2, Known
<1>4. g \in Styles!Lines(id) <=> g[1] = id /\ Styles!Descent(g) /\ Styles!Without(g)
  BY <1>0, <1>1, LinesSaid
<1>5. Styles!Descent(g) <=> (\A i \in 1 .. m : styles[g[i]] # None) /\ (\A i \in 1 .. m - 1 : g[i + 1] = Base(g[i]))
  <2>1. ASSUME \A i \in 1 .. m : styles[g[i]] # None
        PROVE  (\A i \in 1 .. m \ {1} : g[i] = Styles!First(g[i - 1]).basedOn) <=> (\A i \in 1 .. m - 1 : g[i + 1] = Base(g[i]))
    <3>1. \A i \in 1 .. m - 1 : i \in 1 .. m /\ i + 1 \in (1 .. m) \ {1} /\ (i + 1) - 1 = i
      BY <1>1
    <3>2. \A i \in (1 .. m) \ {1} : i - 1 \in 1 .. m - 1 /\ (i - 1) + 1 = i
      BY <1>1
    <3>3. \A i \in 1 .. m - 1 : Styles!First(g[i]).basedOn = Base(g[i])
      BY <1>3, <2>1, <3>1 DEF Base
    <3>. QED
      BY <3>1, <3>2, <3>3
  <2>. QED
    BY <1>1, <1>3, <2>1 DEF Styles!Descent
<1>6. ASSUME \A i \in 1 .. m : styles[g[i]] # None
      PROVE  Styles!Without(g) <=> \A i \in 1 .. m - 1 : styles[g[i]].outlineLevel = None
  BY <1>1, <1>3, <1>6 DEF Styles!Without
<1>7. Line(g, m, id) => Styles!First(g[Len(g)]).outlineLevel = styles[g[m]].outlineLevel
  BY <1>1, <1>3 DEF Line
<1>. QED
  BY <1>4, <1>5, <1>6, <1>7 DEF Line

\* Any line from the style follows the path of the search.
Guide(f, n) ==
  /\ n \in Nat \ {0} /\ f \in [1 .. n -> Ids] /\ n = Cardinality(visiting) + 1
  /\ f[1] = current.style /\ f[n] = current.at
  /\ \A i \in 1 .. n - 1 : f[i] \in visiting /\ f[i + 1] = Base(f[i])
  /\ \A m \in 1 .. Cardinality(Ids) : \A g \in [1 .. m -> Ids] :
       Line(g, m, current.style) => \A k \in 1 .. n : k <= m => f[k] = g[k]

LEMMA SearchPath ==
  ASSUME MapsInv, SearchInv
  PROVE  \E n, f : Guide(f, n)
<1>s. PICK n \in Nat \ {0} : \E f \in [1 .. n -> Ids] :
         n = Cardinality(visiting) + 1 /\ Path(f, n) /\ f[n] = current.at /\ \A i \in 1 .. n - 1 : f[i] \in visiting
  BY DEF SearchInv
<1>1. PICK f \in [1 .. n -> Ids] :
         n = Cardinality(visiting) + 1 /\ Path(f, n) /\ f[n] = current.at /\ \A i \in 1 .. n - 1 : f[i] \in visiting
  BY <1>s
<1>2. ASSUME NEW m \in 1 .. Cardinality(Ids), NEW g \in [1 .. m -> Ids], Line(g, m, current.style)
      PROVE  \A k \in 1 .. n : k <= m => f[k] = g[k]
  <2>1. m \in Nat /\ n \in Nat
    BY <1>1, IdsAreFinite
  <2>2. f[1] = g[1]
    BY <1>1, <1>2 DEF Path, Line
  <2>3. Follows(f, n) /\ Follows(g, m)
    BY <1>1, <1>2 DEF Path, Line, Follows
  <2>. QED
    BY <2>1, <2>2, <2>3, LinesAgree
<1>. QED
  BY <1>1, <1>2 DEF Path, Guide

\* The search is at a style with a level: it is the level of the style.
LEMMA LevelFound ==
  ASSUME MapsInv, SearchInv, styles[current.at] # None, styles[current.at].outlineLevel # None
  PROVE  Styles!LevelOf(current.style) = styles[current.at].outlineLevel
<1>. DEFINE id == current.style
            level == styles[current.at].outlineLevel
<1>0. /\ id \in Ids /\ current.at \in Ids /\ visiting \subseteq Ids
      /\ \A v \in visiting : styles[v] # None /\ styles[v].outlineLevel = None
  BY DEF SearchInv, MapsInv
<1>a. PICK n, f : Guide(f, n)
  BY SearchPath
<1>1. /\ n \in Nat \ {0} /\ f \in [1 .. n -> Ids] /\ n = Cardinality(visiting) + 1
      /\ f[1] = id /\ f[n] = current.at
      /\ \A i \in 1 .. n - 1 : f[i] \in visiting /\ f[i + 1] = Base(f[i])
      /\ \A m \in 1 .. Cardinality(Ids) : \A g \in [1 .. m -> Ids] :
           Line(g, m, id) => \A k \in 1 .. n : k <= m => f[k] = g[k]
  BY <1>a DEF Guide
<1>2. n \in 1 .. Cardinality(Ids)
  <2>1. IsFiniteSet(visiting) /\ current.at \notin visiting
    BY <1>0, NoneApart, FS_Subset
  <2>2. Cardinality(visiting \cup {current.at}) = n
    BY <1>1, <2>1, FS_AddElement
  <2>3. Cardinality(visiting \cup {current.at}) <= Cardinality(Ids)
    BY <1>0, IdsAreFinite, FS_Subset
  <2>. QED
    BY <1>1, <2>2, <2>3, IdsAreFinite
<1>3. Line(f, n, id)
  <2>1. ASSUME NEW i \in 1 .. n PROVE styles[f[i]] # None
    <3>1. i = n \/ i \in 1 .. n - 1
      BY <1>1
    <3>. QED
      BY <1>0, <1>1, <3>1
  <2>. QED
    BY <1>0, <1>1, <1>2, <2>1 DEF Line
<1>4. f \in Styles!Lines(id) /\ Styles!First(f[Len(f)]).outlineLevel = level
  BY <1>0, <1>1, <1>2, <1>3, LinesAre
<1>5. ASSUME NEW g \in Styles!Lines(id), Styles!First(g[Len(g)]).outlineLevel # None
      PROVE  Styles!First(g[Len(g)]).outlineLevel = level
  <2>1. PICK m \in 1 .. Cardinality(Ids) : g \in [1 .. m -> Ids]
    BY LinesSaid
  <2>2. Line(g, m, id) /\ Styles!First(g[Len(g)]).outlineLevel = styles[g[m]].outlineLevel
    BY <1>0, <2>1, LinesAre
  <2>3. \A k \in 1 .. n : k <= m => f[k] = g[k]
    BY <1>1, <2>1, <2>2
  <2>4. m \in Nat /\ n \in Nat
    BY <1>1, IdsAreFinite
  <2>5. CASE m < n
    <3>1. m \in 1 .. n - 1 /\ m \in 1 .. n
      BY <2>4, <2>5
    <3>2. g[m] \in visiting
      BY <1>1, <2>3, <2>4, <3>1
    <3>. QED
      BY <1>0, <1>5, <2>2, <3>2
  <2>6. CASE m > n
    <3>1. n \in 1 .. m - 1 /\ g[n] = current.at
      BY <1>1, <2>3, <2>4, <2>6
    <3>. QED
      BY <2>2, <3>1 DEF Line
  <2>7. CASE m = n
    BY <1>1, <2>2, <2>3, <2>4, <2>7
  <2>. QED
    BY <2>4, <2>5, <2>6, <2>7
<1>. DEFINE ends == {Styles!First(line[Len(line)]).outlineLevel : line \in Styles!Lines(id)} \ {None}
<1>6. ends = {level}
  BY <1>4, <1>5
<1>7. Styles!LevelOf(id) = IF ends = {} THEN None ELSE CHOOSE l \in ends : TRUE
  BY DEF Styles!LevelOf
<1>. QED
  BY ONLY <1>6, <1>7

\* The search ends without a level: no ancestor of the style has one.
LEMMA LevelMissing ==
  ASSUME MapsInv, SearchInv, Styles!Dead(current.at), styles[current.at] # None => styles[current.at].outlineLevel = None
  PROVE  Styles!LevelOf(current.style) = None
<1>. DEFINE id == current.style
<1>0. /\ id \in Ids /\ current.at \in Ids /\ visiting \subseteq Ids /\ id \in visiting \cup {current.at}
      /\ \A v \in visiting : /\ styles[v] # None /\ styles[v].outlineLevel = None
                            /\ Base(v) \in visiting \cup {current.at}
  BY DEF SearchInv, MapsInv
<1>a. PICK n, f : Guide(f, n)
  BY SearchPath
<1>1. /\ n \in Nat \ {0} /\ f \in [1 .. n -> Ids] /\ n = Cardinality(visiting) + 1
      /\ f[1] = id /\ f[n] = current.at
      /\ \A i \in 1 .. n - 1 : f[i] \in visiting /\ f[i + 1] = Base(f[i])
      /\ \A m \in 1 .. Cardinality(Ids) : \A g \in [1 .. m -> Ids] :
           Line(g, m, id) => \A k \in 1 .. n : k <= m => f[k] = g[k]
  BY <1>a DEF Guide
<1>2. ASSUME NEW g \in Styles!Lines(id), Styles!First(g[Len(g)]).outlineLevel # None
      PROVE  FALSE
  <2>1. PICK m \in 1 .. Cardinality(Ids) : g \in [1 .. m -> Ids]
    BY LinesSaid
  <2>2. Line(g, m, id) /\ Styles!First(g[Len(g)]).outlineLevel = styles[g[m]].outlineLevel
    BY <1>0, <2>1, LinesAre
  <2>3. \A k \in 1 .. n : k <= m => f[k] = g[k]
    BY <1>1, <2>1, <2>2
  <2>4. m \in Nat /\ n \in Nat
    BY <1>1, IdsAreFinite
  <2>5. CASE m < n
    <3>1. m \in 1 .. n - 1 /\ m \in 1 .. n
      BY <2>4, <2>5
    <3>2. g[m] \in visiting
      BY <1>1, <2>3, <2>4, <3>1
    <3>. QED
      BY <1>0, <1>2, <2>2, <3>2
  <2>6. CASE m >= n
    <3>1. n \in 1 .. m /\ g[n] = current.at
      BY <1>1, <2>3, <2>4, <2>6
    <3>2. styles[current.at] # None /\ styles[current.at].outlineLevel = None
      BY <2>2, <3>1 DEF Line
    <3>3. n \in 1 .. m - 1
      BY <1>2, <2>2, <2>4, <3>1, <3>2
    <3>4. Base(current.at) \in Ids
      <4>1. n + 1 \in 1 .. m /\ g[n + 1] = Base(g[n])
        BY <2>2, <2>4, <3>3 DEF Line
      <4>. QED
        BY <2>1, <3>1, <4>1
    <3>5. current.at \in visiting
      BY <3>2, <3>4, NoneApart DEF Styles!Dead, Base
    <3>6. id \in visiting /\ \A v \in visiting : Base(v) \in visiting
      BY <1>0, <3>5
    <3>. DEFINE T == {k \in 1 .. m : g[k] \notin visiting}
    <3>7. m \in T /\ T \subseteq Nat
      BY <1>0, <1>2, <2>2, <2>4
    <3>8. ASSUME NEW k \in T, \A j \in T : k <= j PROVE FALSE
      <4>1. k # 1
        BY <2>2, <3>6 DEF Line
      <4>2. k - 1 \in 1 .. m - 1 /\ k - 1 \in 1 .. m /\ (k - 1) + 1 = k /\ ~(k <= k - 1)
        BY <2>4, <4>1
      <4>3. g[k - 1] \in visiting
        BY <3>8, <4>2
      <4>4. g[k] = Base(g[k - 1])
        BY <2>2, <4>2 DEF Line
      <4>. QED
        BY <3>6, <4>3, <4>4
    <3>. HIDE DEF T
    <3>. QED
      BY <3>7, <3>8, NatMin
  <2>. QED
    BY <2>4, <2>5, <2>6
<1>. DEFINE ends == {Styles!First(line[Len(line)]).outlineLevel : line \in Styles!Lines(id)} \ {None}
<1>6. ends = {}
  BY <1>2
<1>7. Styles!LevelOf(id) = IF ends = {} THEN None ELSE CHOOSE l \in ends : TRUE
  BY DEF Styles!LevelOf
<1>. QED
  BY ONLY <1>6, <1>7

-----------------------------------------------------------------------------
LEMMA StylesInit == Styles!Init => StylesInv
<1>. SUFFICES ASSUME Styles!Init PROVE StylesInv
  OBVIOUS
<1>1. Len(nodes) = 0 /\ nodes \in Seq(Styles!StyleInfo)
  BY EmptySeq DEF Styles!Init
<1>2. MapsInv
  BY <1>1 DEF Styles!Init, Styles!Idle, MapsInv, MapInv
<1>. QED
  BY <1>2 DEF Styles!Init, StylesInv

\* What a heading is depends on the nodes alone.
LEMMA NodesTell == ASSUME UNCHANGED nodes, NEW id PROVE Heading(id)' <=> Heading(id)
<1>1. Styles!First(id)' = Styles!First(id) /\ Styles!LevelOf(id)' = Styles!LevelOf(id)
  BY DEF Styles!First, Styles!LevelOf, Styles!Lines, Styles!Descent, Styles!Without, Styles!Defined
<1>. QED
  BY <1>1 DEF Heading

\* While the nodes are read, everything known is still to resolve.
LEMMA ReadStyleStep ==
  ASSUME StylesInv, NEW style \in StyleNodes, Styles!ReadStyle(style)
  PROVE  StylesInv'
<1>1. /\ current = Styles!Idle /\ todo = {id \in Ids : styles[id] # None} /\ topLevelHeadingStyles = {}
      /\ nodes' = Append(nodes, style) /\ todo' = todo \cup {style.id}
      /\ UNCHANGED <<current, visiting, topLevelHeadingStyles>>
      /\ style \in Styles!StyleInfo /\ style.id \in Ids /\ style # None
      /\ nodes \in Seq(Styles!StyleInfo) /\ styles \in [Ids -> Styles!StyleInfo \cup {None}]
  BY NoneApart DEF Styles!ReadStyle, StylesInv, MapsInv, Styles!StyleInfo
<1>2. styles' = IF styles[style.id] = None THEN [styles EXCEPT ![style.id] = style] ELSE styles
  BY DEF Styles!ReadStyle, Styles!Emplaced
<1>3. /\ Len(nodes) \in Nat /\ Len(nodes') = Len(nodes) + 1 /\ nodes' \in Seq(Styles!StyleInfo)
      /\ nodes'[Len(nodes) + 1] = style /\ \A i \in 1 .. Len(nodes) : nodes'[i] = nodes[i]
  BY <1>1, AppendProperties, LenProperties
<1>4. /\ styles' \in [Ids -> Styles!StyleInfo \cup {None}]
      /\ \A id \in Ids : id # style.id => styles'[id] = styles[id]
      /\ styles'[style.id] = (IF styles[style.id] = None THEN style ELSE styles[style.id])
  BY <1>1, <1>2
<1>5. ASSUME NEW id \in Ids PROVE MapInv(id)'
  <2>1. MapInv(id)
    BY DEF StylesInv, MapsInv
  <2>2. CASE styles[id] = None /\ id # style.id
    BY <1>3, <1>4, <2>1, <2>2 DEF MapInv
  <2>3. CASE styles[id] = None /\ id = style.id
    <3>1. \A i \in 1 .. Len(nodes) : nodes[i].id # id
      BY <2>1, <2>3 DEF MapInv
    <3>2. PICK k : k = Len(nodes) + 1
      OBVIOUS
    <3>3. k \in 1 .. Len(nodes') /\ nodes'[k] = style /\ \A j \in 1 .. k - 1 : nodes'[j].id # id
      BY <1>3, <3>1, <3>2
    <3>4. FirstOf(id, k)' /\ styles'[id] = nodes'[k]
      BY <1>4, <2>3, <3>3 DEF FirstOf
    <3>5. styles'[id] # None
      BY <1>1, <1>4, <2>3
    <3>. QED
      BY <3>3, <3>4, <3>5 DEF MapInv
  <2>4. CASE styles[id] # None
    <3>1. PICK i \in 1 .. Len(nodes) : FirstOf(id, i) /\ styles[id] = nodes[i]
      BY <2>1, <2>4 DEF MapInv
    <3>2. FirstOf(id, i)' /\ i \in 1 .. Len(nodes')
      BY <1>3, <3>1 DEF FirstOf
    <3>3. styles'[id] = styles[id] /\ nodes'[i] = nodes[i]
      BY <1>3, <1>4, <2>4
    <3>. QED
      BY <2>4, <3>1, <3>2, <3>3 DEF MapInv
  <2>. QED
    BY <2>2, <2>3, <2>4
<1>6. todo' = {id \in Ids : styles'[id] # None}
  BY <1>1, <1>4
<1>7. MapsInv'
  BY <1>1, <1>3, <1>4, <1>5, <1>6 DEF StylesInv, MapsInv
<1>. QED
  BY <1>1, <1>6, <1>7 DEF StylesInv

\* A search begins with a line of one style.
LEMMA StartStyleStep ==
  ASSUME StylesInv, NEW id \in Ids, Styles!StartStyle(id)
  PROVE  StylesInv'
<1>1. /\ current = Styles!Idle /\ id \in todo /\ todo' = todo \ {id} /\ current' = [style |-> id, at |-> id]
      /\ visiting' = {} /\ UNCHANGED <<nodes, styles, topLevelHeadingStyles>>
  BY DEF Styles!StartStyle
<1>2. MapsInv'
  BY <1>1 DEF StylesInv, MapsInv, MapInv, FirstOf
<1>3. SearchInv'
  <2>. DEFINE f == [i \in 1 .. 1 |-> id]
  <2>1. Cardinality(visiting') = 0
    BY <1>1, FS_EmptySet
  <2>2. f \in [1 .. 1 -> Ids] /\ f[1] = id /\ 1 \in Nat \ {0}
    OBVIOUS
  <2>3. Path(f, 1)'
    BY <1>1, <2>2 DEF Path, Follows
  <2>4. \E n \in Nat \ {0} : \E g \in [1 .. n -> Ids] :
          /\ n = Cardinality(visiting') + 1
          /\ Path(g, n)' /\ g[n] = current'.at /\ \A i \in 1 .. n - 1 : g[i] \in visiting'
    <3>. HIDE DEF f
    <3>1. 1 = Cardinality(visiting') + 1 /\ f[1] = current'.at /\ \A i \in 1 .. 1 - 1 : f[i] \in visiting'
      BY <1>1, <2>1, <2>2
    <3>. QED
      BY <2>2, <2>3, <3>1
  <2>5. styles[id] # None /\ id \notin topLevelHeadingStyles
    BY <1>1 DEF StylesInv, MapsInv
  <2>. QED
    BY <1>1, <2>4, <2>5 DEF SearchInv
<1>4. ASSUME NEW x \in Ids, styles'[x] # None, x \notin todo', current'.style # x
      PROVE  x \in topLevelHeadingStyles' <=> Heading(x)'
  <2>1. styles[x] # None /\ x \notin todo /\ current.style # x
    BY <1>1, <1>4, NoneApart DEF Styles!Idle
  <2>. QED
    BY <1>1, <2>1, NodesTell DEF StylesInv
<1>. QED
  BY <1>2, <1>3, <1>4 DEF StylesInv

\* Following basedOn makes the line one style longer.
LEMMA VisitBaseStep ==
  ASSUME StylesInv, Styles!VisitBase
  PROVE  StylesInv'
<1>. DEFINE base == Base(current.at)
<1>1. /\ MapsInv /\ SearchInv /\ visiting' = visiting \cup {current.at}
      /\ current' = [current EXCEPT !.at = base]
      /\ UNCHANGED <<nodes, styles, todo, topLevelHeadingStyles>>
      /\ styles[current.at] # None /\ styles[current.at].outlineLevel = None
      /\ base # None /\ current.at \notin visiting
  BY DEF Styles!VisitBase, StylesInv, Styles!Dead, Base
<1>2. current.style \in Ids /\ current.at \in Ids /\ styles[current.at] \in Styles!StyleInfo /\ base \in Ids
  BY <1>1 DEF SearchInv, MapsInv, Base, Styles!StyleInfo
<1>3. current'.style = current.style /\ current'.at = base /\ current' \in [style : Ids \cup {None}, at : Ids \cup {None}]
  BY <1>1, <1>2 DEF MapsInv
<1>4. MapsInv'
  BY <1>1, <1>2, <1>3 DEF MapsInv, MapInv, FirstOf
<1>s. PICK n \in Nat \ {0} : \E f \in [1 .. n -> Ids] :
         n = Cardinality(visiting) + 1 /\ Path(f, n) /\ f[n] = current.at /\ \A i \in 1 .. n - 1 : f[i] \in visiting
  BY <1>1 DEF SearchInv
<1>5. PICK f \in [1 .. n -> Ids] :
         n = Cardinality(visiting) + 1 /\ Path(f, n) /\ f[n] = current.at /\ \A i \in 1 .. n - 1 : f[i] \in visiting
  BY <1>s
<1>c. PICK g : g = [i \in 1 .. n + 1 |-> IF i = n + 1 THEN base ELSE f[i]]
  OBVIOUS
<1>6. /\ g \in [1 .. n + 1 -> Ids] /\ g[n + 1] = base /\ \A i \in 1 .. n : g[i] = f[i]
      /\ n + 1 \in Nat \ {0}
  BY <1>2, <1>5, <1>c
<1>7. Cardinality(visiting') + 1 = n + 1
  <2>1. IsFiniteSet(visiting)
    BY <1>1, IdsAreFinite, FS_Subset DEF MapsInv
  <2>. QED
    BY <1>1, <1>5, <2>1, FS_AddElement
<1>8. \A i \in 1 .. n : g[i] \in visiting'
  <2>1. \A i \in 1 .. n : i = n \/ i \in 1 .. n - 1
    BY <1>5
  <2>. QED
    BY <1>1, <1>5, <1>6, <2>1
<1>9. Path(g, n + 1)'
  <2>1. \A i \in 1 .. n : g[i + 1] = Base(g[i])
    <3>1. ASSUME NEW i \in 1 .. n - 1 PROVE g[i + 1] = Base(g[i])
      <4>1. i \in 1 .. n /\ i + 1 \in 1 .. n
        BY <1>5
      <4>2. f[i + 1] = Base(f[i])
        BY <1>5 DEF Path, Follows
      <4>. QED
        BY <1>6, <4>1, <4>2
    <3>2. g[n + 1] = Base(g[n])
      BY <1>5, <1>6
    <3>3. \A i \in 1 .. n : i = n \/ i \in 1 .. n - 1
      BY <1>5
    <3>. QED
      BY <3>1, <3>2, <3>3
  <2>2. g[1] = current'.style /\ (n + 1) - 1 = n
    BY <1>3, <1>5, <1>6 DEF Path
  <2>3. \A i \in 1 .. n : Base(g[i])' = Base(g[i])
    BY <1>1 DEF Base
  <2>. QED
    BY <1>6, <2>1, <2>2, <2>3 DEF Path, Follows
<1>10. SearchInv'
  <2>1. \E k \in Nat \ {0} : \E h \in [1 .. k -> Ids] :
          /\ k = Cardinality(visiting') + 1
          /\ Path(h, k)' /\ h[k] = current'.at /\ \A i \in 1 .. k - 1 : h[i] \in visiting'
    <3>1. /\ n + 1 = Cardinality(visiting') + 1 /\ g[n + 1] = current'.at
          /\ \A i \in 1 .. (n + 1) - 1 : g[i] \in visiting'
      BY <1>3, <1>5, <1>6, <1>7, <1>8
    <3>. QED
      BY <1>6, <1>9, <3>1
  <2>2. \A id \in visiting' : /\ styles'[id] # None /\ styles'[id].outlineLevel = None
                              /\ Base(id)' \in visiting' \cup {current'.at}
    BY <1>1, <1>3 DEF SearchInv, Base
  <2>3. /\ styles'[current'.style] # None /\ current'.style \notin todo' /\ current'.style \notin topLevelHeadingStyles'
        /\ current'.style \in visiting' \cup {current'.at}
    BY <1>1, <1>3 DEF SearchInv
  <2>. QED
    BY <1>2, <1>3, <2>1, <2>2, <2>3 DEF SearchInv
<1>11. \A id \in Ids : styles'[id] # None /\ id \notin todo' /\ current'.style # id =>
         (id \in topLevelHeadingStyles' <=> Heading(id)')
  BY <1>1, <1>3, NodesTell DEF StylesInv
<1>. QED
  BY <1>4, <1>10, <1>11 DEF StylesInv

\* The style is entered as a heading if and only if it is one.
LEMMA ResolvedStep ==
  ASSUME StylesInv, current # Styles!Idle, NEW level, level = Styles!LevelOf(current.style), Styles!Resolved(level)
  PROVE  StylesInv'
<1>1. /\ MapsInv /\ SearchInv /\ current' = Styles!Idle /\ UNCHANGED <<nodes, styles, todo, visiting>>
      /\ topLevelHeadingStyles' = topLevelHeadingStyles \cup (IF Styles!IsHeading(level) THEN {current.style} ELSE {})
      /\ current.style \in Ids /\ styles[current.style] # None
      /\ current.style \notin todo /\ current.style \notin topLevelHeadingStyles
  BY DEF StylesInv, Styles!Resolved, Styles!WithStyle, SearchInv
<1>2. MapsInv'
  BY <1>1 DEF MapsInv, MapInv, FirstOf, Styles!Idle
<1>3. Styles!IsHeading(level) <=> Heading(current.style)
  BY <1>1, Known DEF Styles!IsHeading, Heading
<1>4. ASSUME NEW id \in Ids, styles'[id] # None, id \notin todo'
      PROVE  id \in topLevelHeadingStyles' <=> Heading(id)'
  <2>1. CASE id = current.style
    BY <1>1, <1>3, <2>1, NodesTell
  <2>2. CASE id # current.style
    BY <1>1, <1>4, <2>2, NodesTell DEF StylesInv
  <2>. QED
    BY <2>1, <2>2
<1>. QED
  BY <1>1, <1>2, <1>4 DEF StylesInv

LEMMA StylesStep ==
  ASSUME StylesInv, [Styles!Next]_(Styles!vars)
  PROVE  StylesInv'
<1>1. CASE \E style \in StyleNodes : Styles!ReadStyle(style)
  BY <1>1, ReadStyleStep
<1>2. CASE \E id \in Ids : Styles!StartStyle(id)
  BY <1>2, StartStyleStep
<1>3. CASE Styles!ReturnLevel
  BY <1>3, LevelFound, ResolvedStep DEF Styles!ReturnLevel, StylesInv
<1>4. CASE Styles!ReturnNullopt
  BY <1>4, LevelMissing, ResolvedStep DEF Styles!ReturnNullopt, StylesInv
<1>5. CASE Styles!VisitBase
  BY <1>5, VisitBaseStep
<1>6. CASE UNCHANGED Styles!vars
  <2>1. UNCHANGED <<nodes, styles, todo, current, visiting, topLevelHeadingStyles>>
    BY <1>6 DEF Styles!vars
  <2>2. MapsInv => MapsInv'
    BY <2>1 DEF MapsInv, MapInv, FirstOf
  <2>3. SearchInv => SearchInv'
    BY <2>1 DEF SearchInv, Path, Follows, Base
  <2>. QED
    BY <2>1, <2>2, <2>3, NodesTell DEF StylesInv, Styles!Idle
<1>. QED
  BY <1>1, <1>2, <1>3, <1>4, <1>5, <1>6 DEF Styles!Next, Styles!Resolve, Styles!Idling

LEMMA StylesInvSuffices == StylesInv => Styles!HeadingsAreInherited
<1>. SUFFICES ASSUME StylesInv PROVE Styles!HeadingsAreInherited
  OBVIOUS
<1>1. MapsInv
  BY DEF StylesInv
<1>. QED
  BY <1>1, Known DEF StylesInv, Styles!HeadingsAreInherited, Heading

-----------------------------------------------------------------------------
(***************************************************************************)
(* base64UrlEncode: what an overflow changes is above the sixteenth bit, and *)
(* never more than thirteen are waiting.                                   *)
(***************************************************************************)


\* The bits of a number, and what of them an overflow leaves.
BitOf(x, k) == (x \div 2 ^ k) % 2

LEMMA LowBits ==
  ASSUME NEW x \in Int, NEW c \in 0 .. 255
  PROVE  \A k \in 0 .. 7 : BitOf(256 * x + c, k) = BitOf(c, k)
<1>0. BitOf(256 * x + c, 0) = BitOf(c, 0) /\ BitOf(256 * x + c, 1) = BitOf(c, 1)
  BY DEF BitOf
<1>1. BitOf(256 * x + c, 2) = BitOf(c, 2) /\ BitOf(256 * x + c, 3) = BitOf(c, 3)
  BY DEF BitOf
<1>2. BitOf(256 * x + c, 4) = BitOf(c, 4) /\ BitOf(256 * x + c, 5) = BitOf(c, 5)
  BY DEF BitOf
<1>3. BitOf(256 * x + c, 6) = BitOf(c, 6) /\ BitOf(256 * x + c, 7) = BitOf(c, 7)
  BY DEF BitOf
<1>4. \A k \in 0 .. 7 : k \in {0, 1, 2, 3, 4, 5, 6, 7}
  OBVIOUS
<1>. QED
  BY <1>0, <1>1, <1>2, <1>3, <1>4

ShiftedBy8(x, y) == \E q \in Int, c \in 0 .. 255 : y = 256 * (x + 256 * q) + c
LEMMA HighBits ==
  ASSUME NEW x \in Int, NEW y, ShiftedBy8(x, y)
  PROVE  \A k \in 0 .. 5 : BitOf(y, k + 8) = BitOf(x, k)
<1>. PICK q \in Int, c \in 0 .. 255 : y = 256 * (x + 256 * q) + c
  BY DEF ShiftedBy8
<1>1. /\ y \div 256 = x + 256 * q /\ y \div 512 = x \div 2 + 128 * q /\ y \div 1024 = x \div 4 + 64 * q
      /\ y \div 2048 = x \div 8 + 32 * q /\ y \div 4096 = x \div 16 + 16 * q /\ y \div 8192 = x \div 32 + 8 * q
  OBVIOUS
<1>2. /\ BitOf(y, 8) = (y \div 256) % 2 /\ BitOf(y, 9) = (y \div 512) % 2 /\ BitOf(y, 10) = (y \div 1024) % 2
      /\ BitOf(y, 11) = (y \div 2048) % 2 /\ BitOf(y, 12) = (y \div 4096) % 2 /\ BitOf(y, 13) = (y \div 8192) % 2
      /\ BitOf(x, 0) = x % 2 /\ BitOf(x, 1) = (x \div 2) % 2 /\ BitOf(x, 2) = (x \div 4) % 2
      /\ BitOf(x, 3) = (x \div 8) % 2 /\ BitOf(x, 4) = (x \div 16) % 2 /\ BitOf(x, 5) = (x \div 32) % 2
  BY y \in Int DEF BitOf
<1>3. /\ (x + 256 * q) % 2 = x % 2 /\ (x \div 2 + 128 * q) % 2 = (x \div 2) % 2
      /\ (x \div 4 + 64 * q) % 2 = (x \div 4) % 2 /\ (x \div 8 + 32 * q) % 2 = (x \div 8) % 2
      /\ (x \div 16 + 16 * q) % 2 = (x \div 16) % 2 /\ (x \div 32 + 8 * q) % 2 = (x \div 32) % 2
  OBVIOUS
<1>4. BitOf(y, 8) = BitOf(x, 0) /\ BitOf(y, 9) = BitOf(x, 1) /\ BitOf(y, 10) = BitOf(x, 2)
  BY ONLY <1>1, <1>2, <1>3
<1>5. BitOf(y, 11) = BitOf(x, 3) /\ BitOf(y, 12) = BitOf(x, 4) /\ BitOf(y, 13) = BitOf(x, 5)
  BY ONLY <1>1, <1>2, <1>3
<1>6. \A k \in 0 .. 5 : k \in {0, 1, 2, 3, 4, 5}
  OBVIOUS
<1>. QED
  BY <1>4, <1>5, <1>6

Six(y) == 32 * ((y \div 32) % 2) + 16 * ((y \div 16) % 2) + 8 * ((y \div 8) % 2)
          + 4 * ((y \div 4) % 2) + 2 * ((y \div 2) % 2) + (y % 2)

LEMMA SixParities == ASSUME NEW y \in Int PROVE y % 64 = Six(y)
<1>1. /\ y = 2 * (y \div 2) + (y % 2)
      /\ y \div 2 = 2 * (y \div 4) + ((y \div 2) % 2) /\ y \div 4 = 2 * (y \div 8) + ((y \div 4) % 2)
      /\ y \div 8 = 2 * (y \div 16) + ((y \div 8) % 2) /\ y \div 16 = 2 * (y \div 32) + ((y \div 16) % 2)
      /\ y \div 32 = 2 * (y \div 64) + ((y \div 32) % 2)
  OBVIOUS
<1>2. y = 64 * (y \div 64) + (y % 64)
  OBVIOUS
<1>. QED
  BY <1>1, <1>2 DEF Six

LEMMA SixBits ==
  ASSUME NEW x \in Int, NEW s \in 0 .. 7
  PROVE  /\ Base64!LowSix(x, s) \in Int
         /\ Base64!LowSix(x, s) = 32 * BitOf(x, s + 5) + 16 * BitOf(x, s + 4) + 8 * BitOf(x, s + 3)
                           + 4 * BitOf(x, s + 2) + 2 * BitOf(x, s + 1) + BitOf(x, s)
<1>0. CASE s = 0
  <2>. DEFINE y == x \div 1
  <2>1. /\ y \div 32 = x \div 32 /\ y \div 16 = x \div 16 /\ y \div 8 = x \div 8
        /\ y \div 4 = x \div 4 /\ y \div 2 = x \div 2 /\ y \in Int
    OBVIOUS
  <2>2. /\ BitOf(x, s + 5) = (x \div 32) % 2 /\ BitOf(x, s + 4) = (x \div 16) % 2
        /\ BitOf(x, s + 3) = (x \div 8) % 2 /\ BitOf(x, s + 2) = (x \div 4) % 2
        /\ BitOf(x, s + 1) = (x \div 2) % 2 /\ BitOf(x, s) = y % 2 /\ Base64!LowSix(x, s) = y % 64
    BY <1>0 DEF BitOf, Base64!LowSix
  <2>. HIDE DEF y
  <2>3. /\ BitOf(x, s + 5) = (y \div 32) % 2 /\ BitOf(x, s + 4) = (y \div 16) % 2
        /\ BitOf(x, s + 3) = (y \div 8) % 2 /\ BitOf(x, s + 2) = (y \div 4) % 2
        /\ BitOf(x, s + 1) = (y \div 2) % 2 /\ BitOf(x, s) = y % 2
    BY ONLY <2>1, <2>2
  <2>4. y % 64 = Six(y)
    BY <2>1, SixParities
  <2>. QED
    BY ONLY <2>1, <2>2, <2>3, <2>4 DEF Six
<1>1. CASE s = 1
  <2>. DEFINE y == x \div 2
  <2>1. /\ y \div 32 = x \div 64 /\ y \div 16 = x \div 32 /\ y \div 8 = x \div 16
        /\ y \div 4 = x \div 8 /\ y \div 2 = x \div 4 /\ y \in Int
    OBVIOUS
  <2>2. /\ BitOf(x, s + 5) = (x \div 64) % 2 /\ BitOf(x, s + 4) = (x \div 32) % 2
        /\ BitOf(x, s + 3) = (x \div 16) % 2 /\ BitOf(x, s + 2) = (x \div 8) % 2
        /\ BitOf(x, s + 1) = (x \div 4) % 2 /\ BitOf(x, s) = y % 2 /\ Base64!LowSix(x, s) = y % 64
    BY <1>1 DEF BitOf, Base64!LowSix
  <2>. HIDE DEF y
  <2>3. /\ BitOf(x, s + 5) = (y \div 32) % 2 /\ BitOf(x, s + 4) = (y \div 16) % 2
        /\ BitOf(x, s + 3) = (y \div 8) % 2 /\ BitOf(x, s + 2) = (y \div 4) % 2
        /\ BitOf(x, s + 1) = (y \div 2) % 2 /\ BitOf(x, s) = y % 2
    BY ONLY <2>1, <2>2
  <2>4. y % 64 = Six(y)
    BY <2>1, SixParities
  <2>. QED
    BY ONLY <2>1, <2>2, <2>3, <2>4 DEF Six
<1>2. CASE s = 2
  <2>. DEFINE y == x \div 4
  <2>1. /\ y \div 32 = x \div 128 /\ y \div 16 = x \div 64 /\ y \div 8 = x \div 32
        /\ y \div 4 = x \div 16 /\ y \div 2 = x \div 8 /\ y \in Int
    OBVIOUS
  <2>2. /\ BitOf(x, s + 5) = (x \div 128) % 2 /\ BitOf(x, s + 4) = (x \div 64) % 2
        /\ BitOf(x, s + 3) = (x \div 32) % 2 /\ BitOf(x, s + 2) = (x \div 16) % 2
        /\ BitOf(x, s + 1) = (x \div 8) % 2 /\ BitOf(x, s) = y % 2 /\ Base64!LowSix(x, s) = y % 64
    BY <1>2 DEF BitOf, Base64!LowSix
  <2>. HIDE DEF y
  <2>3. /\ BitOf(x, s + 5) = (y \div 32) % 2 /\ BitOf(x, s + 4) = (y \div 16) % 2
        /\ BitOf(x, s + 3) = (y \div 8) % 2 /\ BitOf(x, s + 2) = (y \div 4) % 2
        /\ BitOf(x, s + 1) = (y \div 2) % 2 /\ BitOf(x, s) = y % 2
    BY ONLY <2>1, <2>2
  <2>4. y % 64 = Six(y)
    BY <2>1, SixParities
  <2>. QED
    BY ONLY <2>1, <2>2, <2>3, <2>4 DEF Six
<1>3. CASE s = 3
  <2>. DEFINE y == x \div 8
  <2>1. /\ y \div 32 = x \div 256 /\ y \div 16 = x \div 128 /\ y \div 8 = x \div 64
        /\ y \div 4 = x \div 32 /\ y \div 2 = x \div 16 /\ y \in Int
    OBVIOUS
  <2>2. /\ BitOf(x, s + 5) = (x \div 256) % 2 /\ BitOf(x, s + 4) = (x \div 128) % 2
        /\ BitOf(x, s + 3) = (x \div 64) % 2 /\ BitOf(x, s + 2) = (x \div 32) % 2
        /\ BitOf(x, s + 1) = (x \div 16) % 2 /\ BitOf(x, s) = y % 2 /\ Base64!LowSix(x, s) = y % 64
    BY <1>3 DEF BitOf, Base64!LowSix
  <2>. HIDE DEF y
  <2>3. /\ BitOf(x, s + 5) = (y \div 32) % 2 /\ BitOf(x, s + 4) = (y \div 16) % 2
        /\ BitOf(x, s + 3) = (y \div 8) % 2 /\ BitOf(x, s + 2) = (y \div 4) % 2
        /\ BitOf(x, s + 1) = (y \div 2) % 2 /\ BitOf(x, s) = y % 2
    BY ONLY <2>1, <2>2
  <2>4. y % 64 = Six(y)
    BY <2>1, SixParities
  <2>. QED
    BY ONLY <2>1, <2>2, <2>3, <2>4 DEF Six
<1>4. CASE s = 4
  <2>. DEFINE y == x \div 16
  <2>1. /\ y \div 32 = x \div 512 /\ y \div 16 = x \div 256 /\ y \div 8 = x \div 128
        /\ y \div 4 = x \div 64 /\ y \div 2 = x \div 32 /\ y \in Int
    OBVIOUS
  <2>2. /\ BitOf(x, s + 5) = (x \div 512) % 2 /\ BitOf(x, s + 4) = (x \div 256) % 2
        /\ BitOf(x, s + 3) = (x \div 128) % 2 /\ BitOf(x, s + 2) = (x \div 64) % 2
        /\ BitOf(x, s + 1) = (x \div 32) % 2 /\ BitOf(x, s) = y % 2 /\ Base64!LowSix(x, s) = y % 64
    BY <1>4 DEF BitOf, Base64!LowSix
  <2>. HIDE DEF y
  <2>3. /\ BitOf(x, s + 5) = (y \div 32) % 2 /\ BitOf(x, s + 4) = (y \div 16) % 2
        /\ BitOf(x, s + 3) = (y \div 8) % 2 /\ BitOf(x, s + 2) = (y \div 4) % 2
        /\ BitOf(x, s + 1) = (y \div 2) % 2 /\ BitOf(x, s) = y % 2
    BY ONLY <2>1, <2>2
  <2>4. y % 64 = Six(y)
    BY <2>1, SixParities
  <2>. QED
    BY ONLY <2>1, <2>2, <2>3, <2>4 DEF Six
<1>5. CASE s = 5
  <2>. DEFINE y == x \div 32
  <2>1. /\ y \div 32 = x \div 1024 /\ y \div 16 = x \div 512 /\ y \div 8 = x \div 256
        /\ y \div 4 = x \div 128 /\ y \div 2 = x \div 64 /\ y \in Int
    OBVIOUS
  <2>2. /\ BitOf(x, s + 5) = (x \div 1024) % 2 /\ BitOf(x, s + 4) = (x \div 512) % 2
        /\ BitOf(x, s + 3) = (x \div 256) % 2 /\ BitOf(x, s + 2) = (x \div 128) % 2
        /\ BitOf(x, s + 1) = (x \div 64) % 2 /\ BitOf(x, s) = y % 2 /\ Base64!LowSix(x, s) = y % 64
    BY <1>5 DEF BitOf, Base64!LowSix
  <2>. HIDE DEF y
  <2>3. /\ BitOf(x, s + 5) = (y \div 32) % 2 /\ BitOf(x, s + 4) = (y \div 16) % 2
        /\ BitOf(x, s + 3) = (y \div 8) % 2 /\ BitOf(x, s + 2) = (y \div 4) % 2
        /\ BitOf(x, s + 1) = (y \div 2) % 2 /\ BitOf(x, s) = y % 2
    BY ONLY <2>1, <2>2
  <2>4. y % 64 = Six(y)
    BY <2>1, SixParities
  <2>. QED
    BY ONLY <2>1, <2>2, <2>3, <2>4 DEF Six
<1>6. CASE s = 6
  <2>. DEFINE y == x \div 64
  <2>1. /\ y \div 32 = x \div 2048 /\ y \div 16 = x \div 1024 /\ y \div 8 = x \div 512
        /\ y \div 4 = x \div 256 /\ y \div 2 = x \div 128 /\ y \in Int
    OBVIOUS
  <2>2. /\ BitOf(x, s + 5) = (x \div 2048) % 2 /\ BitOf(x, s + 4) = (x \div 1024) % 2
        /\ BitOf(x, s + 3) = (x \div 512) % 2 /\ BitOf(x, s + 2) = (x \div 256) % 2
        /\ BitOf(x, s + 1) = (x \div 128) % 2 /\ BitOf(x, s) = y % 2 /\ Base64!LowSix(x, s) = y % 64
    BY <1>6 DEF BitOf, Base64!LowSix
  <2>. HIDE DEF y
  <2>3. /\ BitOf(x, s + 5) = (y \div 32) % 2 /\ BitOf(x, s + 4) = (y \div 16) % 2
        /\ BitOf(x, s + 3) = (y \div 8) % 2 /\ BitOf(x, s + 2) = (y \div 4) % 2
        /\ BitOf(x, s + 1) = (y \div 2) % 2 /\ BitOf(x, s) = y % 2
    BY ONLY <2>1, <2>2
  <2>4. y % 64 = Six(y)
    BY <2>1, SixParities
  <2>. QED
    BY ONLY <2>1, <2>2, <2>3, <2>4 DEF Six
<1>7. CASE s = 7
  <2>. DEFINE y == x \div 128
  <2>1. /\ y \div 32 = x \div 4096 /\ y \div 16 = x \div 2048 /\ y \div 8 = x \div 1024
        /\ y \div 4 = x \div 512 /\ y \div 2 = x \div 256 /\ y \in Int
    OBVIOUS
  <2>2. /\ BitOf(x, s + 5) = (x \div 4096) % 2 /\ BitOf(x, s + 4) = (x \div 2048) % 2
        /\ BitOf(x, s + 3) = (x \div 1024) % 2 /\ BitOf(x, s + 2) = (x \div 512) % 2
        /\ BitOf(x, s + 1) = (x \div 256) % 2 /\ BitOf(x, s) = y % 2 /\ Base64!LowSix(x, s) = y % 64
    BY <1>7 DEF BitOf, Base64!LowSix
  <2>. HIDE DEF y
  <2>3. /\ BitOf(x, s + 5) = (y \div 32) % 2 /\ BitOf(x, s + 4) = (y \div 16) % 2
        /\ BitOf(x, s + 3) = (y \div 8) % 2 /\ BitOf(x, s + 2) = (y \div 4) % 2
        /\ BitOf(x, s + 1) = (y \div 2) % 2 /\ BitOf(x, s) = y % 2
    BY ONLY <2>1, <2>2
  <2>4. y % 64 = Six(y)
    BY <2>1, SixParities
  <2>. QED
    BY ONLY <2>1, <2>2, <2>3, <2>4 DEF Six
<1>. QED
  BY <1>0, <1>1, <1>2, <1>3, <1>4, <1>5, <1>6, <1>7

\* Overflow changes only bits from the sixteenth on.
LEMMA Overflow ==
  ASSUME NEW x \in Int
  PROVE  \E q \in Int : Base64!AsInt(x) = x + 65536 * q
<1>. DEFINE W == 2 ^ Width
            H == 2 ^ (Width - 1)
            e == W \div 65536
            d == (x + H) \div W
<1>1. W \in Nat /\ W > 0 /\ H \in Nat /\ W % 65536 = 0
  BY TokenAssumption
<1>2. Base64!AsInt(x) = ((x + H) % W) - H
  BY DEF Base64!AsInt
<1>. HIDE DEF W, H
<1>3. e \in Int /\ W = 65536 * e
  BY <1>1
<1>4. d \in Int /\ x + H = W * d + ((x + H) % W)
  BY <1>1
<1>. HIDE DEF e, d
<1>5. W * d = 65536 * (e * d) /\ e * d \in Int
  BY <1>3, <1>4
<1>6. Base64!AsInt(x) = x + 65536 * (-(e * d)) /\ -(e * d) \in Int
  BY <1>1, <1>2, <1>4, <1>5
<1>. QED
  BY <1>6

-----------------------------------------------------------------------------
\* The low bits of val are the bits of data that are not yet written, and
\* what is written are groups of the bits before them.
Waiting == \A k \in 0 .. valb + 5 : BitOf(val, k) = Base64!Bit(8 * Len(data) - 1 - k)
Written == \A i \in 1 .. Len(result) : result[i] = Base64!Group(i - 1)
EncodeInv ==
  /\ data \in Seq(TokenBytes) /\ result \in Seq(Int) /\ val \in Int /\ valb \in -6 .. 7
  /\ Waiting /\ Written
  /\ IF ended THEN valb < 0 /\ Len(result) = (8 * Len(data) + 5) \div 6
     ELSE 6 * Len(result) + valb + 6 = 8 * Len(data)

LEMMA EncodeInit == Base64!Init => EncodeInv
<1>. SUFFICES ASSUME Base64!Init PROVE EncodeInv
  OBVIOUS
<1>1. Len(data) = 0 /\ Len(result) = 0 /\ data \in Seq(TokenBytes) /\ result \in Seq(Int)
  BY EmptySeq DEF Base64!Init
<1>. QED
  BY <1>1 DEF Base64!Init, EncodeInv, Waiting, Written

\* A byte more leaves the bits of those before it.
LEMMA BitsStay ==
  ASSUME data \in Seq(TokenBytes), NEW c \in TokenBytes, data' = Append(data, c), NEW k \in 0 .. 8 * Len(data) - 1
  PROVE  Base64!Bit(k)' = Base64!Bit(k)
<1>1. Len(data) \in Nat /\ Len(data') = Len(data) + 1 /\ \A i \in 1 .. Len(data) : data'[i] = data[i]
  BY AppendProperties, LenProperties
<1>2. k \div 8 + 1 \in 1 .. Len(data) /\ k < 8 * Len(data) /\ k < 8 * Len(data')
  BY <1>1
<1>. QED
  BY <1>1, <1>2 DEF Base64!Bit

LEMMA NewBits ==
  ASSUME data \in Seq(TokenBytes), NEW c \in TokenBytes, data' = Append(data, c), NEW L, L = Len(data)
  PROVE  \A k \in 0 .. 7 : Base64!Bit(8 * L + 7 - k)' = BitOf(c, k)
<1>1. L \in Nat /\ Len(data') = L + 1 /\ data'[L + 1] = c
  BY AppendProperties, LenProperties
<1>2. ASSUME NEW k \in 0 .. 7 PROVE Base64!Bit(8 * L + 7 - k)' = BitOf(c, k)
  <2>1. PICK j : j = 8 * L + 7 - k
    OBVIOUS
  <2>2. j \div 8 = L /\ j % 8 = 7 - k /\ j < 8 * Len(data') /\ 7 - (7 - k) = k
    BY <1>1, <2>1
  <2>3. Base64!Bit(j)' = BitOf(c, k)
    BY <1>1, <2>2 DEF Base64!Bit, BitOf
  <2>. QED
    BY <2>1, <2>3
<1>. QED
  BY <1>2

LEMMA GroupsStay ==
  ASSUME data \in Seq(TokenBytes), NEW c \in TokenBytes, data' = Append(data, c), NEW i \in Nat, 6 * i + 6 <= 8 * Len(data)
  PROVE  Base64!Group(i)' = Base64!Group(i)
<1>1. Len(data) \in Nat
  BY LenProperties
<1>2. \A j \in 0 .. 5 : 6 * i + j \in 0 .. 8 * Len(data) - 1
  BY <1>1
<1>3. \A k \in 0 .. 8 * Len(data) - 1 : Base64!Bit(k)' = Base64!Bit(k)
  BY BitsStay
<1>4. 6 * i \in 0 .. 8 * Len(data) - 1
  BY <1>1
<1>5. /\ Base64!Bit(6 * i)' = Base64!Bit(6 * i) /\ Base64!Bit(6 * i + 1)' = Base64!Bit(6 * i + 1) /\ Base64!Bit(6 * i + 2)' = Base64!Bit(6 * i + 2)
      /\ Base64!Bit(6 * i + 3)' = Base64!Bit(6 * i + 3) /\ Base64!Bit(6 * i + 4)' = Base64!Bit(6 * i + 4) /\ Base64!Bit(6 * i + 5)' = Base64!Bit(6 * i + 5)
  BY <1>2, <1>3, <1>4
<1>. QED
  BY <1>5 DEF Base64!Group

LEMMA ShiftInStep ==
  ASSUME EncodeInv, NEW c \in TokenBytes, Base64!ShiftIn(c)
  PROVE  EncodeInv'
<1>1. /\ ~ended /\ valb < 0 /\ valb \in -6 .. 7 /\ data' = Append(data, c) /\ valb' = valb + 8
      /\ result' = result /\ ended' = ended
      /\ val' = Base64!AsInt(Base64!AsInt(val * 256) + c) /\ val \in Int /\ data \in Seq(TokenBytes)
      /\ result \in Seq(Int) /\ 6 * Len(result) + valb + 6 = 8 * Len(data)
  BY DEF EncodeInv, Base64!ShiftIn, Base64!ShiftedIn
<1>0. c \in 0 .. 255
  BY TokenAssumption
<1>2. PICK q \in Int : val' = 256 * (val + 256 * q) + c
  <2>1. PICK q1 \in Int : Base64!AsInt(val * 256) = val * 256 + 65536 * q1
    BY <1>1, Overflow
  <2>2. val * 256 + 65536 * q1 + c \in Int
    BY <1>0, <1>1
  <2>3. PICK q2 \in Int : Base64!AsInt(val * 256 + 65536 * q1 + c) = val * 256 + 65536 * q1 + c + 65536 * q2
    BY <2>2, Overflow
  <2>4. PICK q : q = q1 + q2
    OBVIOUS
  <2>5. q \in Int /\ val' = 256 * (val + 256 * q) + c
    BY <1>0, <1>1, <2>1, <2>3, <2>4
  <2>. QED
    BY <2>5
<1>d. PICK L : L = Len(data)
  OBVIOUS
<1>3. /\ L \in Nat /\ Len(result) \in Nat /\ data' \in Seq(TokenBytes) /\ Len(data') = L + 1
  BY <1>1, <1>d, AppendProperties, LenProperties
<1>4. Waiting'
  <2>1. ASSUME NEW k \in 0 .. 7 PROVE BitOf(val, k)' = Base64!Bit(8 * L + 7 - k)'
    <3>1. PICK x : x = val + 256 * q
      OBVIOUS
    <3>2. x \in Int /\ val' = 256 * x + c
      BY <1>1, <1>2, <3>1
    <3>3. BitOf(256 * x + c, k) = BitOf(c, k)
      BY <1>0, <3>2, LowBits
    <3>4. BitOf(val, k)' = BitOf(256 * x + c, k)
      BY <3>2 DEF BitOf
    <3>. QED
      BY <1>1, <1>d, <3>3, <3>4, NewBits
  <2>2. ASSUME NEW k \in 0 .. valb + 5 PROVE BitOf(val, k + 8)' = Base64!Bit(8 * L - 1 - k)'
    <3>1. k \in 0 .. 5 /\ 8 * L - 1 - k \in 0 .. 8 * L - 1
      BY <1>1, <1>3, <1>d
    <3>0. ShiftedBy8(val, val')
      BY <1>0, <1>2 DEF ShiftedBy8
    <3>2. BitOf(val', k + 8) = BitOf(val, k)
      BY <1>1, <3>0, <3>1, HighBits
    <3>3. BitOf(val, k + 8)' = BitOf(val, k)
      BY <3>2 DEF BitOf
    <3>4. BitOf(val, k) = Base64!Bit(8 * L - 1 - k)
      BY <1>d DEF EncodeInv, Waiting
    <3>5. Base64!Bit(8 * L - 1 - k)' = Base64!Bit(8 * L - 1 - k)
      BY <1>1, <1>d, <3>1, BitsStay
    <3>. QED
      BY <3>3, <3>4, <3>5
  <2>3. ASSUME NEW k \in 0 .. valb' + 5 PROVE BitOf(val, k)' = Base64!Bit(8 * L + 7 - k)'
    <3>1. CASE k <= 7
      BY <2>1, <3>1
    <3>2. CASE k > 7
      <4>1. PICK j : j = k - 8
        OBVIOUS
      <4>2. j \in 0 .. valb + 5 /\ j + 8 = k /\ 8 * L - 1 - j = 8 * L + 7 - k
        BY <1>1, <1>3, <3>2, <4>1
      <4>. QED
        BY <2>2, <4>2
    <3>. QED
      BY <3>1, <3>2
  <2>4. ASSUME NEW k \in 0 .. valb' + 5 PROVE BitOf(val, k)' = Base64!Bit(8 * Len(data) - 1 - k)'
    <3>1. 8 * Len(data') - 1 - k = 8 * L + 7 - k
      BY <1>1, <1>3
    <3>. QED
      BY <2>3, <3>1 DEF Base64!Bit
  <2>. QED
    BY <2>4 DEF Waiting
<1>5. Written'
  <2>1. ASSUME NEW i \in 1 .. Len(result) PROVE result'[i] = Base64!Group(i - 1)'
    <3>1. i - 1 \in Nat /\ 6 * (i - 1) + 6 <= 8 * Len(data)
      BY <1>1, <1>3, <1>d
    <3>2. Base64!Group(i - 1)' = Base64!Group(i - 1)
      BY <1>1, <3>1, GroupsStay
    <3>. QED
      BY <1>1, <3>2 DEF EncodeInv, Written
  <2>. QED
    BY <1>1, <2>1 DEF Written
<1>6. valb' \in -6 .. 7 /\ val' \in Int /\ 6 * Len(result') + valb' + 6 = 8 * Len(data')
  <2>1. val' \in Int /\ valb' \in -6 .. 7
    BY <1>0, <1>1, <1>2
  <2>2. 6 * Len(result) + valb + 6 = 8 * L /\ Len(result') = Len(result)
    BY <1>1, <1>d
  <2>3. valb' = valb + 8 /\ valb \in Int
    BY <1>1
  <2>. QED
    BY ONLY <1>3, <2>1, <2>2, <2>3
<1>. QED
  BY <1>1, <1>3, <1>4, <1>5, <1>6 DEF EncodeInv

LEMMA AppendGroup ==
  ASSUME result \in Seq(Int), Written, NEW g \in Int, result' = Append(result, g), data' = data, g = Base64!Group(Len(result))
  PROVE  Written' /\ result' \in Seq(Int) /\ Len(result') = Len(result) + 1
<1>1. /\ result' \in Seq(Int) /\ Len(result) \in Nat /\ Len(result') = Len(result) + 1
      /\ result'[Len(result) + 1] = g /\ \A i \in 1 .. Len(result) : result'[i] = result[i]
  BY AppendProperties, LenProperties
<1>2. \A i : Base64!Group(i)' = Base64!Group(i)
  BY DEF Base64!Group, Base64!Bit
<1>3. ASSUME NEW i \in 1 .. Len(result') PROVE result'[i] = Base64!Group(i - 1)'
  <2>1. CASE i \in 1 .. Len(result)
    BY <1>1, <1>2, <2>1 DEF Written
  <2>2. CASE i = Len(result) + 1
    BY <1>1, <1>2, <2>2
  <2>. QED
    BY <1>1, <2>1, <2>2
<1>. QED
  BY <1>1, <1>3 DEF Written

LEMMA PushSixStep ==
  ASSUME EncodeInv, Base64!PushSix
  PROVE  EncodeInv'
<1>1. /\ valb \in 0 .. 7 /\ valb' = valb - 6 /\ UNCHANGED <<data, val, ended>> /\ ~ended
      /\ result' = Append(result, Base64!LowSix(val, valb))
      /\ 6 * Len(result) + valb + 6 = 8 * Len(data) /\ val \in Int /\ result \in Seq(Int) /\ data \in Seq(TokenBytes)
  BY DEF EncodeInv, Base64!PushSix
<1>2. Len(result) \in Nat /\ Len(data) \in Nat
  BY <1>1, LenProperties
<1>3. Base64!LowSix(val, valb) = Base64!Group(Len(result))
  <2>. DEFINE r == 6 * Len(result)
  <2>1. /\ BitOf(val, valb + 5) = Base64!Bit(r) /\ BitOf(val, valb + 4) = Base64!Bit(r + 1) /\ BitOf(val, valb + 3) = Base64!Bit(r + 2)
        /\ BitOf(val, valb + 2) = Base64!Bit(r + 3) /\ BitOf(val, valb + 1) = Base64!Bit(r + 4) /\ BitOf(val, valb) = Base64!Bit(r + 5)
    <3>1. ASSUME NEW j \in 0 .. 5 PROVE BitOf(val, valb + (5 - j)) = Base64!Bit(r + j)
      <4>1. PICK k : k = valb + (5 - j)
        OBVIOUS
      <4>2. k \in 0 .. valb + 5
        BY <1>1, <4>1
      <4>3. 8 * Len(data) - 1 - k = r + j
        <5>1. r \in Int /\ r + valb + 6 = 8 * Len(data) /\ valb \in Int
          BY <1>1, <1>2
        <5>. HIDE DEF r
        <5>. QED
          BY <1>2, <4>1, <5>1
      <4>4. BitOf(val, k) = Base64!Bit(8 * Len(data) - 1 - k)
        BY <4>2 DEF EncodeInv, Waiting
      <4>. QED
        BY <4>1, <4>3, <4>4
    <3>2. /\ BitOf(val, valb + (5 - 0)) = Base64!Bit(r + 0) /\ BitOf(val, valb + (5 - 1)) = Base64!Bit(r + 1)
          /\ BitOf(val, valb + (5 - 2)) = Base64!Bit(r + 2) /\ BitOf(val, valb + (5 - 3)) = Base64!Bit(r + 3)
          /\ BitOf(val, valb + (5 - 4)) = Base64!Bit(r + 4) /\ BitOf(val, valb + (5 - 5)) = Base64!Bit(r + 5)
      BY <3>1
    <3>3. r + 0 = r /\ valb + (5 - 5) = valb /\ valb + (5 - 0) = valb + 5 /\ valb + (5 - 1) = valb + 4
          /\ valb + (5 - 2) = valb + 3 /\ valb + (5 - 3) = valb + 2 /\ valb + (5 - 4) = valb + 1
      BY <1>1, <1>2
    <3>. QED
      BY <3>2, <3>3
  <2>2. Base64!LowSix(val, valb) = 32 * BitOf(val, valb + 5) + 16 * BitOf(val, valb + 4) + 8 * BitOf(val, valb + 3)
                            + 4 * BitOf(val, valb + 2) + 2 * BitOf(val, valb + 1) + BitOf(val, valb)
    BY <1>1, SixBits
  <2>. QED
    BY <2>1, <2>2 DEF Base64!Group
<1>4. Base64!LowSix(val, valb) \in Int
  BY <1>1, SixBits
<1>5. Written' /\ result' \in Seq(Int) /\ Len(result') = Len(result) + 1
  BY <1>1, <1>3, <1>4, AppendGroup DEF EncodeInv
<1>6. Waiting'
  <2>1. \A k \in 0 .. valb' + 5 : k \in 0 .. valb + 5
    BY <1>1
  <2>2. \A k \in 0 .. valb' + 5 : BitOf(val, k) = Base64!Bit(8 * Len(data) - 1 - k)
    BY <2>1 DEF EncodeInv, Waiting
  <2>3. \A k : BitOf(val, k)' = BitOf(val, k) /\ Base64!Bit(8 * Len(data) - 1 - k)' = Base64!Bit(8 * Len(data) - 1 - k)
    BY <1>1 DEF Base64!Bit, BitOf
  <2>. QED
    BY <2>2, <2>3 DEF Waiting
<1>. QED
  BY <1>1, <1>2, <1>5, <1>6 DEF EncodeInv

\* The bits that are left fill a last group with zeros.
LEMMA FinishStep ==
  ASSUME EncodeInv, Base64!Finish
  PROVE  EncodeInv'
<1>1. /\ ~ended /\ valb < 0 /\ valb \in -6 .. 7 /\ valb \in Int /\ ended' = TRUE
      /\ data' = data /\ val' = val /\ valb' = valb
      /\ result' = (IF valb > -6 THEN Append(result, Base64!LowSix(Base64!AsInt(val * 256), valb + 8)) ELSE result)
      /\ val \in Int /\ result \in Seq(Int) /\ data \in Seq(TokenBytes)
      /\ 6 * Len(result) + valb + 6 = 8 * Len(data)
  BY DEF EncodeInv, Base64!Finish
<1>2. Len(result) \in Nat /\ Len(data) \in Nat
  BY <1>1, LenProperties
<1>3. Waiting'
  <2>1. \A k : BitOf(val, k)' = BitOf(val, k) /\ Base64!Bit(8 * Len(data) - 1 - k)' = Base64!Bit(8 * Len(data) - 1 - k)
    BY <1>1 DEF Base64!Bit, BitOf
  <2>. QED
    BY <1>1, <2>1 DEF EncodeInv, Waiting
<1>4. CASE valb = -6
  <2>1. result' = result
    BY <1>1, <1>4
  <2>2. \A i : Base64!Group(i)' = Base64!Group(i)
    BY <1>1 DEF Base64!Group, Base64!Bit
  <2>3. Written'
    BY <2>1, <2>2 DEF EncodeInv, Written
  <2>4. Len(result) = (8 * Len(data) + 5) \div 6
    BY <1>1, <1>2, <1>4
  <2>. QED
    BY <1>1, <1>3, <2>1, <2>3, <2>4 DEF EncodeInv
<1>5. CASE valb \in -5 .. -1
  <2>. DEFINE x == Base64!AsInt(val * 256)
              r == 6 * Len(result)
              s == valb + 8
  <2>1. PICK q \in Int : x = 256 * (val + 256 * q) + 0
    <3>1. PICK q \in Int : Base64!AsInt(val * 256) = val * 256 + 65536 * q
      BY <1>1, Overflow
    <3>. QED
      BY <1>1, <3>1
  <2>2. x \in Int /\ s \in 3 .. 7 /\ r \in Int /\ r + valb + 6 = 8 * Len(data)
    BY <1>1, <1>2, <1>5, <2>1
  <2>3. result' = Append(result, Base64!LowSix(x, s))
    BY <1>1, <1>5
  <2>. HIDE DEF x, r
  <2>4. \A k \in 0 .. 7 : BitOf(x, k) = 0
    <3>1. PICK y : y = val + 256 * q
      OBVIOUS
    <3>2. y \in Int /\ x = 256 * y + 0
      BY <1>1, <2>1, <3>1
    <3>3. \A k \in 0 .. 7 : BitOf(256 * y + 0, k) = BitOf(0, k)
      BY <3>2, LowBits
    <3>4. \A k \in 0 .. 7 : BitOf(0, k) = 0
      <4>1. \A k \in 0 .. 7 : k \in {0, 1, 2, 3, 4, 5, 6, 7}
        OBVIOUS
      <4>2. /\ BitOf(0, 0) = 0 /\ BitOf(0, 1) = 0 /\ BitOf(0, 2) = 0 /\ BitOf(0, 3) = 0
            /\ BitOf(0, 4) = 0 /\ BitOf(0, 5) = 0 /\ BitOf(0, 6) = 0 /\ BitOf(0, 7) = 0
        BY DEF BitOf
      <4>. QED
        BY <4>1, <4>2
    <3>. QED
      BY <3>2, <3>3, <3>4
  <2>5. \A k \in 0 .. 5 : BitOf(x, k + 8) = BitOf(val, k)
    <3>1. ShiftedBy8(val, x)
      BY <2>1 DEF ShiftedBy8
    <3>. QED
      BY <1>1, <3>1, HighBits
  <2>6. ASSUME NEW j \in 0 .. 5 PROVE BitOf(x, s + (5 - j)) = Base64!Bit(r + j)
    <3>1. CASE j <= valb + 5
      <4>1. PICK k : k = valb + 5 - j
        OBVIOUS
      <4>2. k \in 0 .. valb + 5 /\ k \in 0 .. 5 /\ s + (5 - j) = k + 8
        BY <1>5, <3>1, <4>1
      <4>3. 8 * Len(data) - 1 - k = r + j
        <5>1. valb \in Int
          BY <1>1
        <5>. QED
          BY ONLY j \in 0 .. 5, <1>2, <2>2, <4>1, <5>1
      <4>4. BitOf(val, k) = Base64!Bit(8 * Len(data) - 1 - k)
        BY <4>2 DEF EncodeInv, Waiting
      <4>. QED
        BY <2>5, <4>2, <4>3, <4>4
    <3>2. CASE j > valb + 5
      <4>1. s + (5 - j) \in 0 .. 7
        BY <1>5, <3>2
      <4>2. ~(r + j < 8 * Len(data))
        BY <1>1, <1>2, <2>2, <3>2
      <4>. QED
        BY <2>4, <4>1, <4>2 DEF Base64!Bit
    <3>. QED
      BY <1>1, <3>1, <3>2
  <2>7. Base64!LowSix(x, s) = Base64!Group(Len(result)) /\ Base64!LowSix(x, s) \in Int
    <3>1. /\ BitOf(x, s + (5 - 0)) = Base64!Bit(r + 0) /\ BitOf(x, s + (5 - 1)) = Base64!Bit(r + 1)
          /\ BitOf(x, s + (5 - 2)) = Base64!Bit(r + 2) /\ BitOf(x, s + (5 - 3)) = Base64!Bit(r + 3)
          /\ BitOf(x, s + (5 - 4)) = Base64!Bit(r + 4) /\ BitOf(x, s + (5 - 5)) = Base64!Bit(r + 5)
      BY <2>6
    <3>2. r + 0 = r /\ s + (5 - 5) = s /\ s + (5 - 0) = s + 5 /\ s + (5 - 1) = s + 4
          /\ s + (5 - 2) = s + 3 /\ s + (5 - 3) = s + 2 /\ s + (5 - 4) = s + 1
      BY <1>1, <2>2
    <3>3. s \in 0 .. 7
      BY <2>2
    <3>. HIDE DEF s
    <3>4. /\ Base64!LowSix(x, s) \in Int
          /\ Base64!LowSix(x, s) = 32 * BitOf(x, s + 5) + 16 * BitOf(x, s + 4) + 8 * BitOf(x, s + 3)
                            + 4 * BitOf(x, s + 2) + 2 * BitOf(x, s + 1) + BitOf(x, s)
      BY <2>2, <3>3, SixBits
    <3>. QED
      BY <3>1, <3>2, <3>4 DEF Base64!Group, r
  <2>8. Written' /\ result' \in Seq(Int) /\ Len(result') = Len(result) + 1
    BY <1>1, <2>3, <2>7, AppendGroup DEF EncodeInv
  <2>9. Len(result') = (8 * Len(data) + 5) \div 6
    <3>1. 6 * Len(result) + valb + 6 = 8 * Len(data)
      BY <1>1
    <3>. QED
      BY ONLY <1>2, <1>5, <2>8, <3>1
  <2>. QED
    BY <1>1, <1>3, <2>8, <2>9 DEF EncodeInv
<1>. QED
  BY <1>1, <1>4, <1>5

LEMMA EncodeStep ==
  ASSUME EncodeInv, [Base64!Next]_(Base64!vars)
  PROVE  EncodeInv'
<1>1. CASE \E c \in TokenBytes : Base64!ShiftIn(c)
  BY <1>1, ShiftInStep
<1>2. CASE Base64!PushSix
  BY <1>2, PushSixStep
<1>3. CASE Base64!Finish
  BY <1>3, FinishStep
<1>4. CASE UNCHANGED Base64!vars
  BY <1>4 DEF Base64!vars, EncodeInv, Waiting, Written, Base64!Group, Base64!Bit, BitOf
<1>. QED
  BY <1>1, <1>2, <1>3, <1>4 DEF Base64!Next

LEMMA EncodeInvSuffices == EncodeInv => Base64!EncodesEveryBit
<1>. SUFFICES ASSUME EncodeInv PROVE Base64!EncodesEveryBit
  OBVIOUS
<1>1. result = [i \in 1 .. Len(result) |-> result[i]]
  BY LenProperties DEF EncodeInv
<1>2. result = Base64!Encoding(Len(result))
  BY <1>1 DEF EncodeInv, Written, Base64!Encoding
<1>. QED
  BY <1>2 DEF EncodeInv, Base64!EncodesEveryBit

-----------------------------------------------------------------------------
\* Each of the three loops leaves the variables of the others.
LEMMA LoopsStep ==
  ASSUME [ReadFile \/ ReadStyles \/ EncodeToken \/ (Ended /\ UNCHANGED <<stylesVars, tokenVars>>)]_all
  PROVE  [Styles!Next]_(Styles!vars) /\ [Base64!Next]_(Base64!vars)
  BY DEF ReadFile, ReadStyles, EncodeToken, all, stylesVars, tokenVars, Styles!vars, Base64!vars

(***************************************************************************)
(* HeadingsAreInherited for any number of styles, based on each other in   *)
(* any way, and any order of the map.                                      *)
(***************************************************************************)
THEOREM Headings == LoopsSpec => []HeadingsAreInherited
<1>1. LoopsInit => StylesInv
  BY StylesInit DEF LoopsInit
<1>2. StylesInv /\ [ReadFile \/ ReadStyles \/ EncodeToken \/ (Ended /\ UNCHANGED <<stylesVars, tokenVars>>)]_all
        => StylesInv'
  BY LoopsStep, StylesStep
<1>3. StylesInv => HeadingsAreInherited
  BY StylesInvSuffices DEF HeadingsAreInherited
<1>. QED
  BY <1>1, <1>2, <1>3, PTL DEF LoopsSpec

(***************************************************************************)
(* EncodesEveryBit for any bytes, any number of them and any int, however  *)
(* often it overflows.                                                     *)
(***************************************************************************)
THEOREM Encodes == LoopsSpec => []EncodesEveryBit
<1>1. LoopsInit => EncodeInv
  BY EncodeInit DEF LoopsInit
<1>2. EncodeInv /\ [ReadFile \/ ReadStyles \/ EncodeToken \/ (Ended /\ UNCHANGED <<stylesVars, tokenVars>>)]_all
        => EncodeInv'
  BY LoopsStep, EncodeStep
<1>3. EncodeInv => EncodesEveryBit
  BY EncodeInvSuffices DEF EncodesEveryBit
<1>. QED
  BY <1>1, <1>2, <1>3, PTL DEF LoopsSpec
=============================================================================
