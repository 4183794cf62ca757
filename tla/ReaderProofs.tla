----------------------------- MODULE ReaderProofs -----------------------------
(***************************************************************************)
(* For documents of any length and shape, any texts, styles and titles,    *)
(* and PDFs of any pages: the titles collected are those the contents      *)
(* list, the sections are those of the document, and the two agree.        *)
(***************************************************************************)
EXTENDS MCDocumentReader, FiniteSetTheorems, SequenceTheorems, TLAPS

\* The place i of a set is the Rank(places, i)-th.
UpTo(places, i) == {j \in places : j <= i}
Rank(places, i) == Cardinality(UpTo(places, i))
IsPlaces(S) == S \in SUBSET Nat /\ IsFiniteSet(S)

LEMMA RankRange ==
  ASSUME NEW S, IsPlaces(S), NEW i \in S
  PROVE  Rank(S, i) \in 1 .. Cardinality(S)
<1>1. UpTo(S, i) \in SUBSET S /\ i \in UpTo(S, i)
  BY DEF UpTo, IsPlaces
<1>2. /\ IsFiniteSet(UpTo(S, i)) /\ Cardinality(UpTo(S, i)) <= Cardinality(S)
  BY <1>1, FS_Subset DEF IsPlaces
<1>3. Cardinality(UpTo(S, i)) \in Nat /\ Cardinality(S) \in Nat
  BY <1>2, FS_CardinalityType DEF IsPlaces
<1>4. Cardinality(UpTo(S, i)) # 0
  BY <1>1, <1>2, FS_EmptySet
<1>. QED
  BY <1>2, <1>3, <1>4 DEF Rank

LEMMA RankInjective ==
  ASSUME NEW S, IsPlaces(S), NEW i \in S, NEW j \in S, Rank(S, i) = Rank(S, j)
  PROVE  i = j
<1>1. ASSUME NEW x \in S, NEW y \in S, Rank(S, x) = Rank(S, y), x <= y
      PROVE  x = y
  <2>0. \A z \in S : z \in Nat
    BY DEF IsPlaces
  <2>1. UpTo(S, y) \in SUBSET S /\ UpTo(S, x) \in SUBSET UpTo(S, y)
    <3>1. \A z \in S : z <= x => z <= y
      BY <1>1, <2>0
    <3>. QED
      BY <3>1 DEF UpTo
  <2>2. IsFiniteSet(UpTo(S, y))
    BY <2>1, FS_Subset DEF IsPlaces
  <2>3. UpTo(S, x) = UpTo(S, y)
    BY <2>1, <2>2, <1>1, FS_Subset DEF Rank
  <2>4. y \in UpTo(S, y) /\ \A z \in UpTo(S, x) : z <= x
    BY DEF UpTo, IsPlaces
  <2>. QED
    BY <1>1, <2>3, <2>4 DEF IsPlaces
<1>2. i <= j \/ j <= i
  BY DEF IsPlaces
<1>. QED
  BY <1>1, <1>2

LEMMA RankOnto ==
  ASSUME NEW S, IsPlaces(S), NEW k \in 1 .. Cardinality(S)
  PROVE  \E i \in S : Rank(S, i) = k
<1>. DEFINE T == {Rank(S, i) : i \in S}
            f == [i \in S |-> Rank(S, i)]
<1>1. f \in Bijection(S, T)
  BY RankInjective DEF Bijection, Injection, Surjection, IsInjective
<1>2. IsFiniteSet(T) /\ Cardinality(T) = Cardinality(S)
  <2>1. ExistsBijection(S, T)
    BY <1>1 DEF ExistsBijection
  <2>. QED
    BY ONLY <2>1, FS_Bijection, IsPlaces(S) DEF IsPlaces
<1>3. Cardinality(S) \in Nat
  BY FS_CardinalityType DEF IsPlaces
<1>4. T \in SUBSET (1 .. Cardinality(S))
  BY RankRange
<1>5. IsFiniteSet(1 .. Cardinality(S)) /\ Cardinality(1 .. Cardinality(S)) = Cardinality(S)
  BY <1>3, FS_Interval
<1>6. T = 1 .. Cardinality(S)
  BY ONLY <1>2, <1>4, <1>5, FS_Subset
<1>. QED
  BY <1>6

\* Nth gives the place of a rank, and a place is the one of its rank.
LEMMA NthPlace ==
  ASSUME NEW S, IsPlaces(S), NEW k \in 1 .. Cardinality(S)
  PROVE  Nth(S, k) \in S /\ Rank(S, Nth(S, k)) = k
<1>1. \E i : i \in WithRank(S, k)
  BY RankOnto DEF WithRank, Rank, UpTo
<1>2. Nth(S, k) \in WithRank(S, k)
  BY <1>1 DEF Nth
<1>. QED
  BY <1>2 DEF WithRank, Rank, UpTo

LEMMA NthOfRank ==
  ASSUME NEW S, IsPlaces(S), NEW i \in S
  PROVE  Nth(S, Rank(S, i)) = i
<1>1. Rank(S, i) \in 1 .. Cardinality(S)
  BY RankRange
<1>2. Nth(S, Rank(S, i)) \in S /\ Rank(S, Nth(S, Rank(S, i))) = Rank(S, i)
  BY <1>1, NthPlace
<1>. QED
  BY <1>2, RankInjective

\* A place beyond the others is the last, and leaves them theirs.
Beyond(S, m) == m \in Nat /\ \A i \in S : i < m
LEMMA PlaceAdded ==
  ASSUME NEW S, IsPlaces(S), NEW m, Beyond(S, m)
  PROVE  /\ IsPlaces(S \cup {m}) /\ Cardinality(S) \in Nat
         /\ Cardinality(S \cup {m}) = Cardinality(S) + 1
         /\ \A k \in 1 .. Cardinality(S) : Nth(S \cup {m}, k) = Nth(S, k)
         /\ Nth(S \cup {m}, Cardinality(S) + 1) = m
<1>. DEFINE U == S \cup {m}
<1>1. IsPlaces(U) /\ Cardinality(U) = Cardinality(S) + 1 /\ Cardinality(S) \in Nat
  <2>1. m \notin S
    BY DEF Beyond
  <2>. QED
    BY <2>1, FS_AddElement, FS_CardinalityType DEF IsPlaces, Beyond
<1>2. \A i \in S : Rank(U, i) = Rank(S, i)
  BY DEF Rank, UpTo, IsPlaces, Beyond
<1>3. UpTo(U, m) = U
  <2>1. m \in Nat /\ \A i \in S : i \in Nat /\ i < m
    BY DEF IsPlaces, Beyond
  <2>2. \A i \in U : i <= m
    BY <2>1
  <2>. QED
    BY <2>2 DEF UpTo
<1>4. Rank(U, m) = Cardinality(S) + 1
  BY <1>1, <1>3 DEF Rank
<1>5. Nth(U, Cardinality(S) + 1) = m
  BY <1>1, <1>4, NthOfRank
<1>6. ASSUME NEW k \in 1 .. Cardinality(S) PROVE Nth(U, k) = Nth(S, k)
  <2>1. Nth(S, k) \in S /\ Rank(S, Nth(S, k)) = k
    BY NthPlace
  <2>2. Nth(S, k) \in U /\ Rank(U, Nth(S, k)) = k
    BY <2>1, <1>2
  <2>3. Nth(U, Rank(U, Nth(S, k))) = Nth(S, k)
    BY ONLY <2>2, <1>1, NthOfRank
  <2>. QED
    BY <2>2, <2>3
<1>. QED
  BY <1>1, <1>5, <1>6

LEMMA PickedAdded ==
  ASSUME NEW S, IsPlaces(S), NEW m, Beyond(S, m), NEW values
  PROVE  Picked(S \cup {m}, values) = Append(Picked(S, values), values[m])
<1>. DEFINE n == Cardinality(S)
            T == S \cup {m}
<1>1. /\ n \in Nat /\ Cardinality(T) = n + 1
      /\ \A k \in 1 .. n : Nth(T, k) = Nth(S, k)
      /\ Nth(T, n + 1) = m
  BY PlaceAdded
<1>2. Picked(T, values) = [k \in 1 .. n + 1 |-> values[Nth(T, k)]]
  BY <1>1 DEF Picked
<1>3. Picked(S, values) = [k \in 1 .. n |-> values[Nth(S, k)]]
  BY DEF Picked
<1>4. Len(Picked(S, values)) = n
  BY <1>1, <1>3
<1>5. Append(Picked(S, values), values[m])
        = [k \in 1 .. n + 1 |-> IF k = n + 1 THEN values[m] ELSE Picked(S, values)[k]]
  BY <1>4 DEF Append
<1>6. ASSUME NEW k \in 1 .. n + 1
      PROVE  values[Nth(T, k)] = IF k = n + 1 THEN values[m] ELSE Picked(S, values)[k]
  <2>1. CASE k = n + 1
    BY <2>1, <1>1
  <2>2. CASE k # n + 1
    <3>1. k \in 1 .. n
      BY <2>2, <1>1
    <3>. QED
      BY <3>1, <2>2, <1>1, <1>3
  <2>. QED
    BY <2>1, <2>2
<1>. HIDE DEF n, T
<1>. QED
  BY <1>2, <1>5, <1>6 DEF T

LEMMA PickedSame ==
  ASSUME NEW S, IsPlaces(S), NEW v, NEW w, \A i \in S : v[i] = w[i]
  PROVE  Picked(S, v) = Picked(S, w)
<1>1. \A k \in 1 .. Cardinality(S) : Nth(S, k) \in S
  BY NthPlace
<1>. QED
  BY <1>1 DEF Picked

\* The places of a sequence are a set of places.
LEMMA PlacesOfSequence ==
  ASSUME NEW n \in Nat, NEW S \in SUBSET (1 .. n)
  PROVE  IsPlaces(S) /\ Beyond(S, n + 1)
<1>1. IsFiniteSet(1 .. n)
  BY FS_Interval
<1>2. IsFiniteSet(S)
  BY ONLY <1>1, FS_Subset, S \in SUBSET (1 .. n)
<1>. QED
  BY <1>2 DEF IsPlaces, Beyond

LEMMA PickedNone == ASSUME NEW v PROVE Picked({}, v) = <<>>
<1>1. Cardinality({}) = 0
  BY FS_EmptySet
<1>. QED
  BY <1>1 DEF Picked

-----------------------------------------------------------------------------
(***************************************************************************)
(* collectTopLevelTocTitles.  What its flags say of the paragraphs read so *)
(* far: where the typed contents begin, whether they have had a row, and   *)
(* whether something else has come after one.                              *)
(***************************************************************************)
HeadsContents(i) == isManualTocHeading(cleanTocTitle(paras[i].text))
FlagsFollow ==
  /\ paras \in Seq(Paras)
  /\ \A flag \in {manualTocStarted, collectedManualTocRows, manualTocFinished} : flag \in BOOLEAN
  /\ IF manualTocStarted THEN \E s \in Outside : Starts(s) ELSE \A i \in Outside : ~HeadsContents(i)
  /\ collectedManualTocRows <=> \E s, j \in Outside : Starts(s) /\ s < j /\ isTocRow(paras[j])
  /\ manualTocFinished <=>
       \E s, j, k \in Outside : Starts(s) /\ s < j /\ j < k /\ isTocRow(paras[j]) /\ ~isTocRow(paras[k])
TocInv == FlagsFollow /\ TitlesAreListed

LEMMA TocInitInv == TocInit => TocInv
<1>. SUFFICES ASSUME TocInit PROVE TocInv
  OBVIOUS
<1>1. DOMAIN paras = {} /\ Outside = {}
  BY DEF TocInit, Outside
<1>2. FlagsFollow
  <2>1. paras \in Seq(Paras)
    BY DEF TocInit
  <2>. QED
    BY <1>1, <2>1 DEF FlagsFollow, TocInit
<1>3. {i \in DOMAIN paras : Listed(i)} = {}
  BY <1>1
<1>4. TitlesAreListed
  BY <1>3, PickedNone DEF TitlesAreListed, TocInit
<1>. QED
  BY <1>2, <1>4 DEF TocInv

\* A paragraph more says nothing new of those before it.
LEMMA Appended ==
  ASSUME paras \in Seq(Paras), NEW par, paras' = Append(paras, par), par \in Paras
  PROVE  LET n == Len(paras)
         IN /\ n \in Nat /\ DOMAIN paras = 1 .. n /\ DOMAIN paras' = 1 .. n + 1
            /\ \A i \in 1 .. n : paras'[i] = paras[i]
            /\ paras'[n + 1] = par
            /\ paras' \in Seq(Paras)
  BY AppendProperties

LEMMA OutsideGrows ==
  ASSUME paras \in Seq(Paras), NEW par, paras' = Append(paras, par), par \in Paras
  PROVE  LET n == Len(paras)
         IN /\ Outside \in SUBSET (1 .. n)
            /\ Outside' = IF cleanTocTitle(par.text) # <<>> /\ ~par.inside THEN Outside \cup {n + 1} ELSE Outside
            /\ \A i \in Outside : (HeadsContents(i)' <=> HeadsContents(i)) /\ (Starts(i)' <=> Starts(i))
            /\ \A i \in Outside : isTocRow(paras'[i]) <=> isTocRow(paras[i])
<1>. DEFINE n == Len(paras)
<1>1. /\ n \in Nat /\ DOMAIN paras = 1 .. n /\ DOMAIN paras' = 1 .. n + 1
      /\ \A i \in 1 .. n : paras'[i] = paras[i]
      /\ paras'[n + 1] = par
  BY Appended
<1>. HIDE DEF n
<1>2. 1 .. n + 1 = (1 .. n) \cup {n + 1} /\ n + 1 \notin 1 .. n
  BY <1>1
<1>3. Outside \in SUBSET (1 .. n)
  BY <1>1 DEF Outside
<1>4. \A i \in 1 .. n : i \in Outside' <=> i \in Outside
  BY <1>1, <1>2 DEF Outside
<1>5. n + 1 \in Outside' <=> cleanTocTitle(par.text) # <<>> /\ ~par.inside
  BY <1>1, <1>2 DEF Outside
<1>6. Outside' \in SUBSET (1 .. n + 1)
  BY <1>1 DEF Outside
<1>7. Outside' = IF cleanTocTitle(par.text) # <<>> /\ ~par.inside THEN Outside \cup {n + 1} ELSE Outside
  <2>1. CASE cleanTocTitle(par.text) # <<>> /\ ~par.inside
    <3>1. Outside' = Outside \cup {n + 1}
      BY ONLY <1>2, <1>3, <1>4, <1>5, <1>6, <2>1
    <3>. QED
      BY <2>1, <3>1
  <2>2. CASE ~(cleanTocTitle(par.text) # <<>> /\ ~par.inside)
    <3>1. Outside' = Outside
      BY ONLY <1>2, <1>3, <1>4, <1>5, <1>6, <2>2
    <3>. QED
      BY <2>2, <3>1
  <2>. QED
    BY ONLY <2>1, <2>2
<1>8. \A i \in Outside : /\ HeadsContents(i)' <=> HeadsContents(i)
                         /\ isTocRow(paras'[i]) <=> isTocRow(paras[i])
  BY <1>1, <1>3 DEF HeadsContents
<1>9. ASSUME NEW i \in Outside PROVE Starts(i)' <=> Starts(i)
  <2>1. \A j \in Outside' : j < i => j \in Outside
    BY <1>1, <1>3, <1>7
  <2>2. \A j \in Outside : j \in Outside'
    BY <1>7
  <2>3. Starts(i) <=> HeadsContents(i) /\ \A j \in Outside : j < i => ~HeadsContents(j)
    BY <1>9 DEF Starts, HeadsContents
  <2>4. Starts(i)' <=> HeadsContents(i)' /\ \A j \in Outside' : j < i => ~(HeadsContents(j)')
    BY <1>9, <2>2 DEF Starts, HeadsContents
  <2>. QED
    BY <2>1, <2>2, <2>3, <2>4, <1>8, <1>9
<1>. QED
  BY <1>3, <1>7, <1>8, <1>9 DEF n

LEMMA StartsOnce ==
  ASSUME Outside \in SUBSET Nat, NEW s \in Outside, NEW t \in Outside, Starts(s), Starts(t)
  PROVE  s = t
<1>1. ~(s < t) /\ ~(t < s)
  BY DEF Starts
<1>. QED
  BY <1>1

LEMMA ListedGrows ==
  ASSUME paras \in Seq(Paras), NEW par, paras' = Append(paras, par), par \in Paras
  PROVE  \A i \in 1 .. Len(paras) : (ManualRow(i)' <=> ManualRow(i)) /\ (Listed(i)' <=> Listed(i))
<1>. DEFINE n == Len(paras)
<1>1. /\ n \in Nat /\ DOMAIN paras = 1 .. n /\ DOMAIN paras' = 1 .. n + 1
      /\ \A i \in 1 .. n : paras'[i] = paras[i]
  BY Appended
<1>2. /\ Outside \in SUBSET (1 .. n)
      /\ Outside' = IF cleanTocTitle(par.text) # <<>> /\ ~par.inside THEN Outside \cup {n + 1} ELSE Outside
      /\ \A i \in Outside : Starts(i)' <=> Starts(i)
      /\ \A i \in Outside : isTocRow(paras'[i]) <=> isTocRow(paras[i])
  BY OutsideGrows
<1>. HIDE DEF n
<1>3. \A i \in 1 .. n : i \in Outside' <=> i \in Outside
  BY <1>1, <1>2
<1>4. \A i \in 1 .. n, j \in Outside' : j < i => j \in Outside
  BY <1>1, <1>2
<1>5. ASSUME NEW i \in 1 .. n PROVE ManualRow(i)' <=> ManualRow(i)
  <2>1. ASSUME ManualRow(i) PROVE ManualRow(i)'
    <3>1. PICK start \in Outside :
            /\ Starts(start) /\ start < i
            /\ \A j, k \in Outside : start < j /\ j < k /\ k < i /\ isTocRow(paras[j]) => isTocRow(paras[k])
      BY <2>1 DEF ManualRow
    <3>2. start \in Outside' /\ Starts(start)' /\ i \in Outside' /\ isTocRow(paras'[i])
      BY <2>1, <3>1, <1>2, <1>3 DEF ManualRow
    <3>3. ASSUME NEW j \in Outside', NEW k \in Outside', start < j, j < k, k < i, isTocRow(paras'[j])
          PROVE  isTocRow(paras'[k])
      <4>1. j \in Outside /\ k \in Outside
        BY <3>3, <1>1, <1>2
      <4>. QED
        BY <4>1, <3>1, <3>3, <1>2
    <3>. QED
      BY <3>1, <3>2, <3>3 DEF ManualRow
  <2>2. ASSUME ManualRow(i)' PROVE ManualRow(i)
    <3>1. PICK start \in Outside' :
            /\ Starts(start)' /\ start < i
            /\ \A j, k \in Outside' : start < j /\ j < k /\ k < i /\ isTocRow(paras'[j]) => isTocRow(paras'[k])
      BY <2>2 DEF ManualRow
    <3>2. start \in Outside /\ Starts(start) /\ i \in Outside /\ isTocRow(paras[i])
      BY <2>2, <3>1, <1>2, <1>3, <1>4 DEF ManualRow
    <3>3. ASSUME NEW j \in Outside, NEW k \in Outside, start < j, j < k, k < i, isTocRow(paras[j])
          PROVE  isTocRow(paras[k])
      <4>1. j \in Outside' /\ k \in Outside' /\ isTocRow(paras'[j])
        BY <3>3, <1>2
      <4>2. isTocRow(paras'[k])
        BY <4>1, <3>1, <3>3
      <4>. QED
        BY <4>2, <1>2
    <3>. QED
      BY <3>1, <3>2, <3>3 DEF ManualRow
  <2>. QED
    BY <2>1, <2>2
<1>6. ASSUME NEW i \in 1 .. n PROVE Listed(i)' <=> Listed(i)
  BY <1>1, <1>5 DEF Listed
<1>. QED
  BY <1>5, <1>6 DEF n

\* What the flags admit as a row is one.
LEMMA NewRow ==
  ASSUME FlagsFollow, NEW par, paras' = Append(paras, par), par \in Paras, NEW n, n = Len(paras)
  PROVE  ManualRow(n + 1)' <=>
           /\ cleanTocTitle(par.text) # <<>> /\ ~par.inside
           /\ InToc /\ isTocRow(par)
<1>1. /\ n \in Nat /\ paras'[n + 1] = par /\ paras \in Seq(Paras)
  BY Appended DEF FlagsFollow
<1>2. /\ Outside \in SUBSET (1 .. n)
      /\ Outside' = IF cleanTocTitle(par.text) # <<>> /\ ~par.inside THEN Outside \cup {n + 1} ELSE Outside
      /\ \A i \in Outside : HeadsContents(i)' <=> HeadsContents(i)
      /\ \A i \in Outside : Starts(i)' <=> Starts(i)
      /\ \A i \in Outside : isTocRow(paras'[i]) <=> isTocRow(paras[i])
  BY <1>1, OutsideGrows
<1>3. Outside \in SUBSET Nat /\ n + 1 \notin Outside
  BY <1>1, <1>2
<1>4. n + 1 \in Outside' <=> cleanTocTitle(par.text) # <<>> /\ ~par.inside
  BY <1>2, <1>3
<1>5. \A j \in Outside' : j < n + 1 => j \in Outside
  BY <1>1, <1>2
<1>6. ASSUME ManualRow(n + 1)' PROVE n + 1 \in Outside' /\ InToc /\ isTocRow(par)
  <2>1. PICK start \in Outside' :
          /\ Starts(start)' /\ start < n + 1
          /\ \A j, k \in Outside' : start < j /\ j < k /\ k < n + 1 /\ isTocRow(paras'[j]) => isTocRow(paras'[k])
    BY <1>6 DEF ManualRow
  <2>2. start \in Outside /\ Starts(start)
    BY <2>1, <1>2, <1>5
  <2>3. manualTocStarted
    BY <2>2 DEF FlagsFollow, Starts, HeadsContents
  <2>4. ASSUME manualTocFinished PROVE FALSE
    <3>1. PICK s, j, k \in Outside : Starts(s) /\ s < j /\ j < k /\ isTocRow(paras[j]) /\ ~isTocRow(paras[k])
      BY <2>4 DEF FlagsFollow
    <3>2. s = start
      BY <3>1, <2>2, <1>3, StartsOnce
    <3>3. j \in Outside' /\ k \in Outside' /\ k < n + 1
      BY <3>1, <1>1, <1>2
    <3>. QED
      BY <3>1, <3>2, <3>3, <2>1, <1>2
  <2>. QED
    BY <1>6, <2>3, <2>4, <1>1 DEF ManualRow, InToc
<1>7. ASSUME n + 1 \in Outside', InToc, isTocRow(par) PROVE ManualRow(n + 1)'
  <2>1. PICK start \in Outside : Starts(start)
    BY <1>7 DEF InToc, FlagsFollow
  <2>2. start \in Outside' /\ Starts(start)' /\ start < n + 1
    BY <2>1, <1>1, <1>2
  <2>3. ASSUME NEW j \in Outside', NEW k \in Outside', start < j, j < k, k < n + 1, isTocRow(paras'[j])
        PROVE  isTocRow(paras'[k])
    <3>1. j \in Outside /\ k \in Outside
      BY <2>3, <1>1, <1>2
    <3>2. isTocRow(paras[j]) /\ (isTocRow(paras[k]) => isTocRow(paras'[k]))
      BY <3>1, <2>3, <1>2
    <3>3. ~manualTocFinished
      BY <1>7 DEF InToc
    <3>. QED
      BY <3>1, <3>2, <3>3, <2>1, <2>3 DEF FlagsFollow
  <2>. QED
    BY <1>1, <1>7, <2>2, <2>3 DEF ManualRow
<1>. QED
  BY <1>4, <1>6, <1>7

ListedPlaces == {i \in DOMAIN paras : Listed(i)}
Cleaned == [i \in DOMAIN paras |-> cleanTocTitle(paras[i].text)]

LEMMA TitlesGrow ==
  ASSUME paras \in Seq(Paras), TitlesAreListed,
         NEW par, paras' = Append(paras, par), par \in Paras, NEW n, n = Len(paras),
         titles' = IF Listed(n + 1)' THEN Append(titles, cleanTocTitle(par.text)) ELSE titles
  PROVE  TitlesAreListed'
<1>1. /\ n \in Nat /\ DOMAIN paras = 1 .. n /\ DOMAIN paras' = 1 .. n + 1
      /\ \A i \in 1 .. n : paras'[i] = paras[i]
      /\ paras'[n + 1] = par
  BY Appended
<1>2. \A i \in 1 .. n : Listed(i)' <=> Listed(i)
  BY ListedGrows
<1>3. PICK S : S = ListedPlaces
  OBVIOUS
<1>4. PICK v : v = Cleaned
  OBVIOUS
<1>5. PICK w : w = Cleaned'
  OBVIOUS
<1>6. S \in SUBSET (1 .. n)
  BY <1>1, <1>3 DEF ListedPlaces
<1>7. IsPlaces(S) /\ Beyond(S, n + 1)
  BY <1>1, <1>6, PlacesOfSequence
<1>8. \A i \in S : v[i] = w[i]
  BY <1>1, <1>4, <1>5, <1>6 DEF Cleaned
<1>9. w[n + 1] = cleanTocTitle(par.text)
  BY <1>1, <1>5 DEF Cleaned
<1>10. titles = Picked(S, v)
  BY <1>3, <1>4 DEF TitlesAreListed, ListedPlaces, Cleaned
<1>11. Picked(S, v) = Picked(S, w)
  BY <1>7, <1>8, PickedSame
<1>12. TitlesAreListed' <=> titles' = Picked(ListedPlaces', w)
  BY <1>5 DEF TitlesAreListed, ListedPlaces, Cleaned
<1>13. \A i : i \in ListedPlaces' <=> i \in S \/ (i = n + 1 /\ Listed(n + 1)')
  <2>1. \A i : i \in 1 .. n + 1 <=> i \in 1 .. n \/ i = n + 1
    BY <1>1
  <2>2. \A i : i \in ListedPlaces' <=> i \in 1 .. n + 1 /\ Listed(i)'
    BY <1>1 DEF ListedPlaces
  <2>3. \A i : i \in S <=> i \in 1 .. n /\ Listed(i)
    BY <1>1, <1>3 DEF ListedPlaces
  <2>. QED
    BY <2>1, <2>2, <2>3, <1>2
<1>14. CASE Listed(n + 1)'
  <2>1. ListedPlaces' = S \cup {n + 1}
    BY <1>13, <1>14
  <2>2. Picked(S \cup {n + 1}, w) = Append(Picked(S, w), w[n + 1])
    BY <1>7, PickedAdded
  <2>. QED
    BY <2>1, <2>2, <1>9, <1>10, <1>11, <1>12, <1>14
<1>15. CASE ~(Listed(n + 1)')
  <2>1. ListedPlaces' = S
    BY <1>13, <1>15
  <2>. QED
    BY <2>1, <1>10, <1>11, <1>12, <1>15
<1>. QED
  BY <1>14, <1>15

\* The flags after a paragraph outside the marked contents.
LEMMA FlagsOutside ==
  ASSUME FlagsFollow, NEW par \in Paras, VisitOutside(par)
  PROVE  FlagsFollow'
<1>0. PICK n : n = Len(paras)
  OBVIOUS
<1>1. /\ paras' = Append(paras, par) /\ paras \in Seq(Paras)
      /\ cleanTocTitle(par.text) # <<>> /\ ~par.inside
  BY DEF VisitOutside, Visited, FlagsFollow
<1>2. /\ n \in Nat /\ DOMAIN paras = 1 .. n /\ DOMAIN paras' = 1 .. n + 1
      /\ paras'[n + 1] = par /\ paras' \in Seq(Paras)
  BY <1>0, <1>1, Appended
<1>3. /\ Outside \in SUBSET (1 .. n)
      /\ Outside' = Outside \cup {n + 1}
      /\ \A i \in Outside : HeadsContents(i)' <=> HeadsContents(i)
      /\ \A i \in Outside : Starts(i)' <=> Starts(i)
      /\ \A i \in Outside : isTocRow(paras'[i]) <=> isTocRow(paras[i])
  BY <1>0, <1>1, OutsideGrows
<1>4. PICK started, row :
        /\ started = (~manualTocStarted /\ isManualTocHeading(cleanTocTitle(par.text)))
        /\ row = (InToc /\ isTocRow(par))
  OBVIOUS
<1>5. /\ manualTocStarted' = (manualTocStarted \/ started)
      /\ collectedManualTocRows' = (collectedManualTocRows \/ row)
      /\ manualTocFinished' = (manualTocFinished \/ (InToc /\ ~row /\ collectedManualTocRows))
  BY <1>4 DEF VisitOutside, Ends
<1>6. Outside \in SUBSET Nat /\ \A j \in Outside : j < n + 1
  BY <1>2, <1>3
<1>7. \A j \in Outside' : j \in Outside \/ j = n + 1
  BY <1>3
<1>8. ASSUME NEW j \in Outside', NEW i \in Outside', j < i PROVE j \in Outside
  <2>1. i \in Nat /\ i <= n + 1
    <3>1. CASE i \in Outside
      BY <3>1, <1>2, <1>6
    <3>2. CASE i = n + 1
      BY <3>2, <1>2
    <3>. QED
      BY <3>1, <3>2, <1>7
  <2>2. j # n + 1
    BY <2>1, <1>2, <1>8
  <2>. QED
    BY <2>2, <1>7
<1>9. IF manualTocStarted' THEN \E s \in Outside' : Starts(s)' ELSE \A i \in Outside' : ~(HeadsContents(i)')
  <2>1. CASE manualTocStarted
    BY <2>1, <1>3, <1>5 DEF FlagsFollow
  <2>2. CASE ~manualTocStarted /\ started
    <3>1. HeadsContents(n + 1)' /\ n + 1 \in Outside'
      BY <2>2, <1>2, <1>3, <1>4 DEF HeadsContents
    <3>0. \A j \in Outside : ~HeadsContents(j)
      BY <2>2 DEF FlagsFollow
    <3>2. \A j \in Outside' : j < n + 1 => ~(HeadsContents(j)')
      <4>1. ASSUME NEW j \in Outside', j < n + 1 PROVE ~(HeadsContents(j)')
        <5>1. j # n + 1
          BY ONLY <4>1, <1>2
        <5>2. j \in Outside
          BY ONLY <5>1, <4>1, <1>7
        <5>. QED
          BY ONLY <5>2, <3>0, <1>3
      <4>. QED
        BY ONLY <4>1
    <3>3. Starts(n + 1)'
      BY <1>2, <3>1, <3>2 DEF Starts, HeadsContents
    <3>. QED
      BY <2>2, <3>1, <3>3, <1>5
  <2>3. CASE ~manualTocStarted /\ ~started
    <3>1. ~(HeadsContents(n + 1)')
      BY <2>3, <1>2, <1>4 DEF HeadsContents
    <3>. QED
      BY <2>3, <3>1, <1>3, <1>5, <1>7 DEF FlagsFollow
  <2>. QED
    BY <2>1, <2>2, <2>3, <1>4 DEF FlagsFollow
<1>10. manualTocFinished => collectedManualTocRows
  BY DEF FlagsFollow
<1>11. (\E s \in Outside : Starts(s)) <=> manualTocStarted
  BY DEF FlagsFollow, Starts, HeadsContents
<1>12. collectedManualTocRows' <=> \E s, j \in Outside' : Starts(s)' /\ s < j /\ isTocRow(paras'[j])
  <2>1. ASSUME collectedManualTocRows' PROVE \E s, j \in Outside' : Starts(s)' /\ s < j /\ isTocRow(paras'[j])
    <3>1. CASE collectedManualTocRows
      BY <3>1, <1>3 DEF FlagsFollow
    <3>2. CASE row
      <4>1. PICK s \in Outside : Starts(s)
        BY <3>2, <1>4, <1>11 DEF InToc
      <4>. QED
        BY <4>1, <3>2, <1>2, <1>3, <1>4, <1>6
    <3>. QED
      BY <2>1, <3>1, <3>2, <1>5
  <2>2. ASSUME NEW s \in Outside', NEW j \in Outside', Starts(s)', s < j, isTocRow(paras'[j])
        PROVE  collectedManualTocRows'
    <3>1. s \in Outside /\ Starts(s)
      BY <2>2, <1>3, <1>8
    <3>2. CASE j \in Outside
      BY <3>1, <3>2, <2>2, <1>3, <1>5 DEF FlagsFollow
    <3>3. CASE j = n + 1
      BY <3>1, <3>3, <2>2, <1>2, <1>4, <1>5, <1>10, <1>11 DEF InToc
    <3>. QED
      BY <3>2, <3>3, <1>7
  <2>. QED
    BY <2>1, <2>2
<1>13. manualTocFinished' <=>
         \E s, j, k \in Outside' : Starts(s)' /\ s < j /\ j < k /\ isTocRow(paras'[j]) /\ ~isTocRow(paras'[k])
  <2>1. ASSUME manualTocFinished'
        PROVE  \E s, j, k \in Outside' : Starts(s)' /\ s < j /\ j < k /\ isTocRow(paras'[j]) /\ ~isTocRow(paras'[k])
    <3>1. CASE manualTocFinished
      BY <3>1, <1>3 DEF FlagsFollow
    <3>2. CASE InToc /\ ~row /\ collectedManualTocRows
      <4>1. PICK s, j \in Outside : Starts(s) /\ s < j /\ isTocRow(paras[j])
        BY <3>2 DEF FlagsFollow
      <4>2. n + 1 \in Outside' /\ j < n + 1 /\ ~isTocRow(paras'[n + 1])
        BY <3>2, <1>2, <1>3, <1>4, <1>6
      <4>3. s \in Outside' /\ j \in Outside' /\ Starts(s)' /\ isTocRow(paras'[j])
        BY <4>1, <1>3
      <4>. QED
        BY ONLY <4>1, <4>2, <4>3
    <3>. QED
      BY <2>1, <3>1, <3>2, <1>5
  <2>2. ASSUME NEW s \in Outside', NEW j \in Outside', NEW k \in Outside',
               Starts(s)', s < j, j < k, isTocRow(paras'[j]), ~isTocRow(paras'[k])
        PROVE  manualTocFinished'
    <3>1. s \in Outside /\ Starts(s) /\ j \in Outside /\ isTocRow(paras[j])
      BY <2>2, <1>3, <1>8
    <3>2. CASE k \in Outside
      BY <3>1, <3>2, <2>2, <1>3, <1>5 DEF FlagsFollow
    <3>3. CASE k = n + 1
      <4>1. collectedManualTocRows /\ manualTocStarted /\ ~row
        BY <3>1, <3>3, <2>2, <1>2, <1>4, <1>11 DEF FlagsFollow
      <4>. QED
        BY <4>1, <1>5 DEF InToc
    <3>. QED
      BY <3>2, <3>3, <1>7
  <2>. QED
    BY <2>1, <2>2
<1>14. \A flag \in {manualTocStarted', collectedManualTocRows', manualTocFinished'} : flag \in BOOLEAN
  BY <1>4, <1>5 DEF FlagsFollow
<1>. QED
  BY <1>2, <1>9, <1>12, <1>13, <1>14 DEF FlagsFollow

LEMMA TocStep ==
  ASSUME TocInv, collectTopLevelTocTitles
  PROVE  TocInv'
<1>. USE DEF TocInv
<1>0. PICK par \in Paras : SkipEmpty(par) \/ VisitStandardToc(par) \/ VisitOutside(par)
  BY DEF collectTopLevelTocTitles
<1>1. PICK n : n = Len(paras)
  OBVIOUS
<1>2. paras' = Append(paras, par) /\ paras \in Seq(Paras)
  BY <1>0 DEF SkipEmpty, VisitStandardToc, VisitOutside, Visited, FlagsFollow
<1>3. paras'[n + 1] = par /\ n + 1 \in DOMAIN paras' /\ paras' \in Seq(Paras)
  BY <1>1, <1>2, Appended
<1>4. ManualRow(n + 1)' <=> /\ cleanTocTitle(par.text) # <<>> /\ ~par.inside
                            /\ InToc /\ isTocRow(par)
  BY <1>1, <1>2, NewRow
<1>5. Listed(n + 1)' <=>
        \/ cleanTocTitle(par.text) # <<>> /\ par.inside /\ tocLevelFromStyle(par.style) = "1"
        \/ ManualRow(n + 1)' /\ isTopLevelTocParagraph(par)
  BY <1>3 DEF Listed
<1>6. titles' = IF Listed(n + 1)' THEN Append(titles, cleanTocTitle(par.text)) ELSE titles
  <2>1. CASE SkipEmpty(par)
    BY <2>1, <1>4, <1>5 DEF SkipEmpty
  <2>2. CASE VisitStandardToc(par)
    BY <2>2, <1>4, <1>5 DEF VisitStandardToc, Collect
  <2>3. CASE VisitOutside(par)
    BY <2>3, <1>4, <1>5 DEF VisitOutside, Collect
  <2>. QED
    BY <1>0, <2>1, <2>2, <2>3
<1>7. TitlesAreListed'
  BY <1>1, <1>2, <1>6, TitlesGrow
<1>8. FlagsFollow'
  <2>1. CASE SkipEmpty(par) \/ VisitStandardToc(par)
    <3>1. UNCHANGED state /\ ~(cleanTocTitle(par.text) # <<>> /\ ~par.inside)
      BY <2>1 DEF SkipEmpty, VisitStandardToc
    <3>2. /\ Outside' = Outside
          /\ \A i \in Outside : HeadsContents(i)' <=> HeadsContents(i)
          /\ \A i \in Outside : Starts(i)' <=> Starts(i)
          /\ \A i \in Outside : isTocRow(paras'[i]) <=> isTocRow(paras[i])
      BY <1>2, <3>1, OutsideGrows
    <3>. QED
      BY <1>3, <3>1, <3>2 DEF FlagsFollow, state
  <2>2. CASE VisitOutside(par)
    BY <2>2, FlagsOutside
  <2>. QED
    BY <1>0, <2>1, <2>2
<1>. QED
  BY <1>7, <1>8

LEMMA TocUnchanged ==
  ASSUME TocInv, UNCHANGED <<state, titles, paras>>
  PROVE  TocInv'
<1>1. /\ Outside' = Outside
      /\ \A i : HeadsContents(i)' <=> HeadsContents(i)
      /\ \A i : isTocRow(paras'[i]) <=> isTocRow(paras[i])
  BY DEF Outside, HeadsContents
<1>2. \A i : (Starts(i)' <=> Starts(i))
  BY <1>1 DEF Starts
<1>3. \A i : ManualRow(i)' <=> ManualRow(i)
  BY <1>1, <1>2 DEF ManualRow
<1>4. \A i : Listed(i)' <=> Listed(i)
  BY <1>3 DEF Listed
<1>5. {i \in DOMAIN paras : Listed(i)}' = {i \in DOMAIN paras : Listed(i)}
  BY <1>4
<1>6. TitlesAreListed'
  BY <1>5 DEF TocInv, TitlesAreListed
<1>7. FlagsFollow'
  BY <1>1, <1>2 DEF TocInv, FlagsFollow, state
<1>. QED
  BY <1>6, <1>7 DEF TocInv

LEMMA TocInvHolds == DocumentReaderSpec => []TocInv
<1>1. DocumentReaderInit => TocInv
  BY TocInitInv DEF DocumentReaderInit, ReaderInit
<1>2. TocInv /\ [DocumentReaderNext]_all => TocInv'
  <2>. SUFFICES ASSUME TocInv, [DocumentReaderNext]_all PROVE TocInv'
    OBVIOUS
  <2>1. collectTopLevelTocTitles \/ UNCHANGED <<state, titles, paras>>
    BY DEF DocumentReaderNext, all, readerVars, tocVars, ReaderNext, ReadTitles, StartWalker, Traverse,
           EndTraverse, ReadXml, Rest
  <2>. QED
    BY <2>1, TocStep, TocUnchanged
<1>. QED
  BY <1>1, <1>2, PTL DEF DocumentReaderSpec

(***************************************************************************)
(* CollectedTitlesAreListed: whatever paragraphs a document has, before,   *)
(* in, between and after its tables of contents, collectTopLevelTocTitles  *)
(* collects the titles these list, in their order.                         *)
(***************************************************************************)
THEOREM Collected == DocumentReaderSpec => []CollectedTitlesAreListed
<1>1. TocInv => CollectedTitlesAreListed
  BY DEF TocInv, CollectedTitlesAreListed
<1>. QED
  BY <1>1, TocInvHolds, PTL

-----------------------------------------------------------------------------
(***************************************************************************)
(* What a walker has made of the paragraphs at the places kept, heads the  *)
(* headings among them: every section but the last is complete.            *)
(***************************************************************************)
SectionsAre(complete, last, kept, heads, texts) ==
  IF heads = {} THEN complete = <<>> /\ last = NoSection
  ELSE /\ complete = [k \in 1 .. Cardinality(heads) - 1 |-> SectionAt(kept, heads, texts, Nth(heads, k))]
       /\ last = SectionAt(kept, heads, texts, Nth(heads, Cardinality(heads)))
IsCutBy(kept, heads) == IsPlaces(kept) /\ IsPlaces(heads) /\ heads \in SUBSET kept
WithLine(section, line) == [title |-> section.title, text |-> Append(section.text, line)]
Agree(kept, v, w) == \A i \in kept : v[i] = w[i]
Titled(heads, texts) == \A h \in heads : normalizeTitle(texts[h]) # <<>>

\* The last place of a set has no other after it, and only that one.
LEMMA LastPlace ==
  ASSUME NEW H, IsPlaces(H), H # {}
  PROVE  /\ Cardinality(H) \in Nat /\ Cardinality(H) > 0
         /\ \A h \in H : h <= Nth(H, Cardinality(H))
         /\ \A k \in 1 .. Cardinality(H) - 1 : \E h \in H : Nth(H, k) < h
<1>1. Cardinality(H) \in Nat /\ Cardinality(H) > 0
  BY FS_CardinalityType, FS_EmptySet DEF IsPlaces
<1>2. \A h \in H : h \in Nat
  BY DEF IsPlaces
<1>3. \A k \in 1 .. Cardinality(H) : Nth(H, k) \in H /\ Rank(H, Nth(H, k)) = k
  BY NthPlace
<1>4. ASSUME NEW k \in 1 .. Cardinality(H), \A h \in H : h <= Nth(H, k)
      PROVE  k = Cardinality(H)
  <2>1. UpTo(H, Nth(H, k)) = H
    BY <1>4 DEF UpTo
  <2>. QED
    BY <2>1, <1>3 DEF Rank
<1>5. ASSUME NEW k \in 1 .. Cardinality(H) - 1 PROVE \E h \in H : Nth(H, k) < h
  <2>1. k \in 1 .. Cardinality(H) /\ k # Cardinality(H)
    BY <1>1
  <2>2. ~ \A h \in H : h <= Nth(H, k)
    BY <2>1, <1>4
  <2>. QED
    BY <2>1, <2>2, <1>2, <1>3
<1>6. \A h \in H : h <= Nth(H, Cardinality(H))
  <2>1. Cardinality(H) \in 1 .. Cardinality(H)
    BY <1>1
  <2>2. PICK l : l = Nth(H, Cardinality(H))
    OBVIOUS
  <2>3. l \in H /\ Rank(H, l) = Cardinality(H)
    BY <2>1, <2>2, <1>3
  <2>4. UpTo(H, l) \in SUBSET H
    BY DEF UpTo
  <2>5. UpTo(H, l) = H
    BY <2>3, <2>4, FS_Subset DEF Rank, IsPlaces
  <2>. QED
    BY <2>2, <2>5 DEF UpTo
<1>. QED
  BY <1>1, <1>5, <1>6

LEMMA SectionsAgree ==
  ASSUME NEW K, NEW H, IsCutBy(K, H), NEW v, NEW w, Agree(K, v, w), NEW h \in H
  PROVE  SectionAt(K, H, v, h) = SectionAt(K, H, w, h)
<1>1. PICK U : U = Under(K, H, h)
  OBVIOUS
<1>2. U \in SUBSET K /\ IsFiniteSet(K) /\ K \in SUBSET Nat
  BY <1>1 DEF Under, IsCutBy, IsPlaces
<1>3. IsPlaces(U)
  BY <1>2, FS_Subset DEF IsPlaces
<1>4. Picked(U, v) = Picked(U, w)
  BY <1>2, <1>3, PickedSame DEF Agree
<1>5. v[h] = w[h]
  BY DEF IsCutBy, Agree
<1>. QED
  BY <1>1, <1>4, <1>5 DEF SectionAt

\* A paragraph that is left out changes nothing.
LEMMA LeftOut ==
  ASSUME NEW r, NEW s, NEW K, NEW H, NEW v, NEW w, IsCutBy(K, H), Agree(K, v, w), SectionsAre(r, s, K, H, v)
  PROVE  SectionsAre(r, s, K, H, w)
<1>1. CASE H = {}
  BY <1>1 DEF SectionsAre
<1>2. CASE H # {}
  <2>1. IsPlaces(H)
    BY DEF IsCutBy
  <2>2. Cardinality(H) \in Nat /\ Cardinality(H) > 0
    BY <2>1, <1>2, LastPlace
  <2>3. \A k \in 1 .. Cardinality(H) : Nth(H, k) \in H
    BY <2>1, NthPlace
  <2>4. \A k \in 1 .. Cardinality(H) : SectionAt(K, H, v, Nth(H, k)) = SectionAt(K, H, w, Nth(H, k))
    BY <2>3, SectionsAgree
  <2>5. SectionAt(K, H, v, Nth(H, Cardinality(H))) = SectionAt(K, H, w, Nth(H, Cardinality(H)))
    BY <2>2, <2>4
  <2>6. [k \in 1 .. Cardinality(H) - 1 |-> SectionAt(K, H, v, Nth(H, k))]
          = [k \in 1 .. Cardinality(H) - 1 |-> SectionAt(K, H, w, Nth(H, k))]
    BY <2>2, <2>4
  <2>. QED
    BY <1>2, <2>5, <2>6 DEF SectionsAre
<1>. QED
  BY <1>1, <1>2

\* A line goes to the last section.
LEMMA LineAdded ==
  ASSUME NEW K, NEW H, IsCutBy(K, H), NEW m, Beyond(K, m), NEW v, NEW h \in H, \A g \in H : g <= h
  PROVE  SectionAt(K \cup {m}, H, v, h) = WithLine(SectionAt(K, H, v, h), v[m])
<1>1. PICK U : U = Under(K, H, h)
  OBVIOUS
<1>2. K \in SUBSET Nat /\ H \in SUBSET K /\ m \in Nat /\ \A i \in K : i < m
  BY DEF IsCutBy, IsPlaces, Beyond
<1>3. U \in SUBSET K /\ IsPlaces(U) /\ Beyond(U, m)
  <2>1. U \in SUBSET K /\ IsFiniteSet(K)
    BY <1>1 DEF Under, IsCutBy, IsPlaces
  <2>. QED
    BY <2>1, <1>2, FS_Subset DEF IsPlaces, Beyond
<1>4. Under(K \cup {m}, H, h) = U \cup {m}
  BY <1>1, <1>2 DEF Under
<1>5. Picked(U \cup {m}, v) = Append(Picked(U, v), v[m])
  BY <1>3, PickedAdded
<1>. QED
  BY <1>1, <1>4, <1>5 DEF SectionAt, WithLine

LEMMA LineElsewhere ==
  ASSUME NEW K, NEW H, IsCutBy(K, H), NEW m, Beyond(K, m), NEW v, NEW h \in H, \E g \in H : h < g
  PROVE  SectionAt(K \cup {m}, H, v, h) = SectionAt(K, H, v, h)
<1>1. K \in SUBSET Nat /\ H \in SUBSET K /\ m \in Nat /\ \A i \in K : i < m
  BY DEF IsCutBy, IsPlaces, Beyond
<1>2. PICK g \in H : h < g
  OBVIOUS
<1>3. ~(g <= h) /\ ~(m < g)
  BY <1>1, <1>2
<1>4. Under(K \cup {m}, H, h) = Under(K, H, h)
  BY <1>3 DEF Under
<1>. QED
  BY <1>4 DEF SectionAt

LEMMA CutLine ==
  ASSUME NEW r, NEW s, NEW K, NEW H, NEW v, NEW w, NEW m,
         IsCutBy(K, H), Agree(K, v, w), SectionsAre(r, s, K, H, v), Beyond(K, m)
  PROVE  SectionsAre(r, IF H = {} THEN s ELSE WithLine(s, w[m]), K \cup {m}, H, w)
<1>0. SectionsAre(r, s, K, H, w)
  BY LeftOut
<1>1. CASE H = {}
  BY <1>0, <1>1 DEF SectionsAre
<1>2. CASE H # {}
  <2>1. IsPlaces(H) /\ H \in SUBSET Nat
    BY DEF IsCutBy, IsPlaces
  <2>2. PICK n : n = Cardinality(H)
    OBVIOUS
  <2>3. /\ n \in Nat /\ n > 0
        /\ \A h \in H : h <= Nth(H, n)
        /\ \A k \in 1 .. n - 1 : \E h \in H : Nth(H, k) < h
    BY <2>1, <2>2, <1>2, LastPlace
  <2>4. \A k \in 1 .. n : Nth(H, k) \in H
    BY <2>1, <2>2, NthPlace
  <2>5. SectionAt(K \cup {m}, H, w, Nth(H, n)) = WithLine(SectionAt(K, H, w, Nth(H, n)), w[m])
    <3>1. PICK l : l = Nth(H, n)
      OBVIOUS
    <3>2. l \in H /\ \A g \in H : g <= l
      BY <2>3, <2>4, <3>1
    <3>3. SectionAt(K \cup {m}, H, w, l) = WithLine(SectionAt(K, H, w, l), w[m])
      BY <3>2, LineAdded
    <3>. QED
      BY <3>1, <3>3
  <2>6. ASSUME NEW k \in 1 .. n - 1
        PROVE  SectionAt(K \cup {m}, H, w, Nth(H, k)) = SectionAt(K, H, w, Nth(H, k))
    <3>1. PICK l : l = Nth(H, k)
      OBVIOUS
    <3>2. l \in H
      BY <2>3, <2>4, <3>1
    <3>3. \E g \in H : l < g
      BY <2>3, <3>1
    <3>5. SectionAt(K \cup {m}, H, w, l) = SectionAt(K, H, w, l)
      BY <3>2, <3>3, LineElsewhere
    <3>. QED
      BY <3>1, <3>5
  <2>7. [k \in 1 .. n - 1 |-> SectionAt(K \cup {m}, H, w, Nth(H, k))]
          = [k \in 1 .. n - 1 |-> SectionAt(K, H, w, Nth(H, k))]
    BY <2>6
  <2>. QED
    BY <1>0, <1>2, <2>2, <2>5, <2>7 DEF SectionsAre
<1>. QED
  BY <1>1, <1>2

LEMMA Appending ==
  ASSUME NEW m \in Nat, NEW f, NEW r, r = [k \in 1 .. m |-> f[k]]
  PROVE  Append(r, f[m + 1]) = [k \in 1 .. m + 1 |-> f[k]]
<1>1. Len(r) = m
  OBVIOUS
<1>2. Append(r, f[m + 1]) = [k \in 1 .. m + 1 |-> IF k = m + 1 THEN f[m + 1] ELSE r[k]]
  BY <1>1
<1>3. \A k \in 1 .. m + 1 : (IF k = m + 1 THEN f[m + 1] ELSE r[k]) = f[k]
  OBVIOUS
<1>. QED
  BY <1>2, <1>3

\* Flushed, the sections are complete.
LEMMA FlushedIsCut ==
  ASSUME NEW r, NEW s, NEW K, NEW H, NEW v, IsCutBy(K, H), SectionsAre(r, s, K, H, v), Titled(H, v)
  PROVE  /\ Flushed(r, s) = Cut(K, H, v)
         /\ s.title = <<>> <=> H = {}
<1>1. CASE H = {}
  <2>1. Cardinality(H) = 0
    BY <1>1, FS_EmptySet
  <2>2. Cut(K, H, v) = <<>>
    BY <2>1 DEF Cut
  <2>. QED
    BY <1>1, <2>2 DEF SectionsAre, Flushed, NoSection
<1>2. CASE H # {}
  <2>1. IsPlaces(H)
    BY DEF IsCutBy
  <2>2. PICK n : n = Cardinality(H)
    OBVIOUS
  <2>3. n \in Nat /\ n > 0 /\ Nth(H, n) \in H
    <3>1. n \in Nat /\ n > 0
      BY <2>1, <2>2, <1>2, LastPlace
    <3>2. n \in 1 .. n
      BY <3>1
    <3>. QED
      BY <3>1, <3>2, <2>1, <2>2, NthPlace
  <2>4. /\ r = [k \in 1 .. n - 1 |-> SectionAt(K, H, v, Nth(H, k))]
        /\ s = SectionAt(K, H, v, Nth(H, n))
    BY <1>2, <2>2 DEF SectionsAre
  <2>5. s.title # <<>>
    BY <2>3, <2>4 DEF SectionAt, Titled
  <2>6. Len(r) = n - 1
    BY <2>3, <2>4
  <2>7. PICK m \in Nat : m = n - 1
    BY <2>3
  <2>8. PICK f : f = [k \in 1 .. n |-> SectionAt(K, H, v, Nth(H, k))]
    OBVIOUS
  <2>9. Append(r, s) = [k \in 1 .. n |-> SectionAt(K, H, v, Nth(H, k))]
    <3>1. m + 1 = n /\ r = [k \in 1 .. m |-> f[k]] /\ s = f[m + 1]
      BY <2>3, <2>4, <2>7, <2>8
    <3>2. Append(r, f[m + 1]) = [k \in 1 .. m + 1 |-> f[k]]
      BY <3>1, Appending
    <3>. QED
      BY <3>1, <3>2, <2>8
  <2>. QED
    BY <1>2, <2>2, <2>5, <2>9 DEF Flushed, Cut
<1>. QED
  BY <1>1, <1>2

\* A heading starts a section.
LEMMA CutHead ==
  ASSUME NEW r, NEW s, NEW K, NEW H, NEW v, NEW w, NEW m,
         IsCutBy(K, H), Agree(K, v, w), SectionsAre(r, s, K, H, v), Titled(H, v), Beyond(K, m)
  PROVE  /\ IsCutBy(K \cup {m}, H \cup {m})
         /\ SectionsAre(Flushed(r, s), NewSection(w[m]), K \cup {m}, H \cup {m}, w)
<1>1. K \in SUBSET Nat /\ H \in SUBSET K /\ m \in Nat /\ (\A i \in K : i < m) /\ IsPlaces(H) /\ Beyond(H, m)
  BY DEF IsCutBy, IsPlaces, Beyond
<1>2. PICK n : n = Cardinality(H)
  OBVIOUS
<1>3. PICK G : G = H \cup {m}
  OBVIOUS
<1>4. PICK L : L = K \cup {m}
  OBVIOUS
<1>5. /\ IsPlaces(G) /\ n \in Nat /\ Cardinality(G) = n + 1
      /\ \A k \in 1 .. n : Nth(G, k) = Nth(H, k)
      /\ Nth(G, n + 1) = m
  BY <1>1, <1>2, <1>3, PlaceAdded
<1>6. IsPlaces(L)
  BY <1>4, PlaceAdded DEF IsCutBy
<1>7. IsCutBy(L, G)
  BY <1>1, <1>3, <1>4, <1>5, <1>6 DEF IsCutBy
<1>8. ASSUME NEW h \in H PROVE SectionAt(L, G, w, h) = SectionAt(K, H, v, h)
  <2>1. Under(L, G, h) = Under(K, H, h)
    <3>1. h < m /\ ~(m <= h) /\ ~(m < m)
      BY <1>1
    <3>2. \A i \in K : i < m
      BY <1>1
    <3>. QED
      BY <3>1, <3>2, <1>3, <1>4 DEF Under
  <2>2. SectionAt(K, H, v, h) = SectionAt(K, H, w, h)
    BY SectionsAgree
  <2>. QED
    BY <2>1, <2>2 DEF SectionAt
<1>9. SectionAt(L, G, w, m) = NewSection(w[m])
  <2>1. Under(L, G, m) = {}
    <3>1. \A i \in L : ~(m < i)
      BY <1>1, <1>4
    <3>. QED
      BY <3>1 DEF Under
  <2>. QED
    BY <2>1, PickedNone DEF SectionAt, NewSection
<1>10. Flushed(r, s) = [k \in 1 .. n |-> SectionAt(K, H, v, Nth(H, k))]
  BY <1>2, FlushedIsCut DEF Cut
<1>11. \A k \in 1 .. n : Nth(H, k) \in H
  BY <1>1, <1>2, NthPlace
<1>12. \A k \in 1 .. n : SectionAt(K, H, v, Nth(H, k)) = SectionAt(L, G, w, Nth(G, k))
  BY <1>5, <1>8, <1>11
<1>13. Flushed(r, s) = [k \in 1 .. n |-> SectionAt(L, G, w, Nth(G, k))]
  BY <1>10, <1>12
<1>14. Cardinality(G) - 1 = n /\ G # {}
  BY <1>3, <1>5
<1>15. SectionsAre(Flushed(r, s), NewSection(w[m]), L, G, w)
  BY <1>5, <1>9, <1>13, <1>14 DEF SectionsAre
<1>. QED
  BY <1>3, <1>4, <1>7, <1>15

-----------------------------------------------------------------------------
(***************************************************************************)
(* The text predicates.                                                    *)
(***************************************************************************)
LEMMA Places ==
  ASSUME NEW t \in Text
  PROVE  /\ Len(t) \in Nat /\ DOMAIN t = 1 .. Len(t)
         /\ \A S \in SUBSET DOMAIN t : IsPlaces(S) /\ Beyond(S, Len(t) + 1)
<1>1. Len(t) \in Nat /\ DOMAIN t = 1 .. Len(t)
  BY DEF Text
<1>2. \A S \in SUBSET (1 .. Len(t)) : IsPlaces(S) /\ Beyond(S, Len(t) + 1)
  BY <1>1, PlacesOfSequence
<1>. QED
  BY <1>1, <1>2

\* Picked gives as many values as there are places, and each place its own.
LEMMA PickedPlace ==
  ASSUME NEW S, IsPlaces(S), NEW values, NEW i \in S
  PROVE  /\ Cardinality(S) \in Nat /\ DOMAIN Picked(S, values) = 1 .. Cardinality(S)
         /\ Rank(S, i) \in 1 .. Cardinality(S)
         /\ Picked(S, values)[Rank(S, i)] = values[i]
<1>1. Cardinality(S) \in Nat
  BY FS_CardinalityType DEF IsPlaces
<1>2. Rank(S, i) \in 1 .. Cardinality(S) /\ Nth(S, Rank(S, i)) = i
  BY RankRange, NthOfRank
<1>. QED
  BY <1>1, <1>2 DEF Picked

\* A text with a word is not empty when it is collapsed.
LEMMA CollapsedWord ==
  ASSUME NEW u, NEW n \in Nat, DOMAIN u = 1 .. n, NEW k \in 1 .. n, ~IsSpace(u[k])
  PROVE  Collapse(u) # <<>>
<1>. DEFINE S == {i \in DOMAIN u : IsSpace(u[i]) => BetweenWords(u, i)}
            low == [i \in DOMAIN u |-> Lower(u[i])]
<1>1. k \in S /\ S \in SUBSET (1 .. n)
  OBVIOUS
<1>2. IsPlaces(S)
  BY <1>1, PlacesOfSequence
<1>3. Collapse(u) = Picked(S, low)
  BY DEF Collapse
<1>. HIDE DEF S, low
<1>4. DOMAIN Picked(S, low) = 1 .. Cardinality(S) /\ Rank(S, k) \in 1 .. Cardinality(S)
  BY <1>1, <1>2, PickedPlace
<1>5. DOMAIN Collapse(u) # {}
  BY <1>3, <1>4
<1>6. DOMAIN << >> = {}
  OBVIOUS
<1>. QED
  BY ONLY <1>5, <1>6

LEMMA CyrillicIsWord ==
  ASSUME NEW w \in Cyrillic
  PROVE  w \in Letters /\ w \notin Digits /\ w \notin Spaces /\ w \notin Punctuation
  BY DEF Cyrillic, Letters, UpperCyrillic, Capitalized, LowerCyrillic, Digits, Spaces, Punctuation

LEMMA TitleNotEmpty ==
  ASSUME NEW t \in Text, Has(t, Cyrillic)
  PROVE  normalizeTitle(t) # <<>>
<1>1. PICK i \in DOMAIN t : t[i] \in Cyrillic
  BY DEF Has
<1>2. t[i] \notin Digits /\ ~IsSpace(t[i])
  BY <1>1, CyrillicIsWord DEF IsSpace
<1>3. PICK S : S = {j \in DOMAIN t : t[j] \notin Digits}
  OBVIOUS
<1>4. i \in S /\ S \in SUBSET DOMAIN t
  BY <1>1, <1>2, <1>3
<1>5. IsPlaces(S)
  BY <1>4, Places
<1>6. PICK u : u = Picked(S, t)
  OBVIOUS
<1>7. /\ Cardinality(S) \in Nat /\ DOMAIN u = 1 .. Cardinality(S)
      /\ Rank(S, i) \in 1 .. Cardinality(S) /\ u[Rank(S, i)] = t[i]
  BY <1>4, <1>5, <1>6, PickedPlace
<1>8. Collapse(u) # <<>>
  BY <1>2, <1>7, CollapsedWord
<1>. QED
  BY <1>3, <1>6, <1>8 DEF normalizeTitle

\* The least and the greatest of some places.
LEMMA MinMaxPlace ==
  ASSUME NEW S, IsPlaces(S), S # {}
  PROVE  /\ Min(S) \in S /\ \A i \in S : Min(S) <= i
         /\ Max(S) \in S /\ \A i \in S : i <= Max(S)
<1>0. \A i \in S : i \in Nat
  BY DEF IsPlaces
<1>1. Cardinality(S) \in Nat /\ Cardinality(S) > 0 /\ \A i \in S : i <= Nth(S, Cardinality(S))
  BY LastPlace
<1>2. 1 \in 1 .. Cardinality(S) /\ Cardinality(S) \in 1 .. Cardinality(S)
  BY <1>1
<1>3. \E m \in S : \A i \in S : i <= m
  BY <1>1, <1>2, NthPlace
<1>4. \E m \in S : \A i \in S : m <= i
  <2>1. PICK m : m = Nth(S, 1)
    OBVIOUS
  <2>2. m \in S /\ Rank(S, m) = 1
    BY <2>1, <1>2, NthPlace
  <2>3. ASSUME NEW i \in S, ~(m <= i) PROVE FALSE
    <3>1. i <= m /\ i # m
      BY <2>2, <2>3, <1>0
    <3>2. UpTo(S, m) \in SUBSET S /\ {i, m} \in SUBSET UpTo(S, m)
      BY <2>2, <2>3, <3>1, <1>0 DEF UpTo
    <3>3. IsFiniteSet(UpTo(S, m))
      BY <3>2, FS_Subset DEF IsPlaces
    <3>4. Cardinality({i, m}) = 2
      <4>1. Cardinality({m}) = 1 /\ IsFiniteSet({m})
        BY FS_Singleton
      <4>2. Cardinality({m} \cup {i}) = Cardinality({m}) + 1
        BY <4>1, <3>1, FS_AddElement
      <4>3. {m} \cup {i} = {i, m}
        OBVIOUS
      <4>. QED
        BY <4>1, <4>2, <4>3
    <3>5. Cardinality({i, m}) <= Cardinality(UpTo(S, m))
      BY <3>2, <3>3, FS_Subset
    <3>. QED
      BY <2>2, <3>4, <3>5 DEF Rank
  <2>. QED
    BY <2>2, <2>3
<1>5. Min(S) \in S /\ \A i \in S : Min(S) <= i
  BY <1>4 DEF Min
<1>6. Max(S) \in S /\ \A i \in S : Max(S) >= i
  <2>1. \E m \in S : \A i \in S : m >= i
    BY <1>0, <1>3
  <2>. QED
    BY <2>1 DEF Max
<1>7. \A i \in S : i <= Max(S)
  BY <1>0, <1>6
<1>. QED
  BY <1>5, <1>6, <1>7

\* trim leaves a text that begins and ends with a word, if anything.
LEMMA Trimmed ==
  ASSUME NEW t \in Text
  PROVE  /\ trim(t) \in Text
         /\ trim(t) # <<>> => ~IsSpace(trim(t)[1]) /\ ~IsSpace(trim(t)[Len(trim(t))])
<1>1. PICK W : W = {i \in DOMAIN t : ~IsSpace(t[i])}
  OBVIOUS
<1>2. W \in SUBSET DOMAIN t /\ IsPlaces(W) /\ Len(t) \in Nat /\ DOMAIN t = 1 .. Len(t)
  BY <1>1, Places
<1>3. CASE W = {}
  <2>1. trim(t) = <<>>
    BY <1>1, <1>3 DEF trim
  <2>. QED
    BY <2>1 DEF Text
<1>4. CASE W # {}
  <2>1. PICK a, b : a = Min(W) /\ b = Max(W)
    OBVIOUS
  <2>2. a \in W /\ b \in W /\ a <= b
    BY <1>2, <1>4, <2>1, MinMaxPlace
  <2>3. a \in 1 .. Len(t) /\ b \in 1 .. Len(t) /\ ~IsSpace(t[a]) /\ ~IsSpace(t[b])
    BY <1>1, <1>2, <2>2
  <2>4. trim(t) = SubSeq(t, a, b)
    BY <1>1, <1>4, <2>1 DEF trim
  <2>5. SubSeq(t, a, b) \in Text /\ Len(SubSeq(t, a, b)) = b - a + 1
    BY <1>2, <2>2, <2>3 DEF Text
  <2>6. SubSeq(t, a, b)[1] = t[a] /\ SubSeq(t, a, b)[b - a + 1] = t[b]
    BY <1>2, <2>2, <2>3 DEF Text
  <2>7. trim(t)[1] = t[a] /\ trim(t)[Len(trim(t))] = t[b]
    BY <2>4, <2>5, <2>6
  <2>. QED
    BY <2>3, <2>4, <2>5, <2>7
<1>. QED
  BY <1>3, <1>4

LEMMA TrimOnce ==
  ASSUME NEW t \in Text, t # <<>> => ~IsSpace(t[1]) /\ ~IsSpace(t[Len(t)])
  PROVE  trim(t) = t
<1>1. PICK W : W = {i \in DOMAIN t : ~IsSpace(t[i])}
  OBVIOUS
<1>2. W \in SUBSET DOMAIN t /\ IsPlaces(W) /\ Len(t) \in Nat /\ DOMAIN t = 1 .. Len(t)
  BY <1>1, Places
<1>3. CASE t = <<>>
  <2>1. W = {}
    BY <1>1, <1>3
  <2>. QED
    BY <1>1, <1>3, <2>1 DEF trim
<1>4. CASE t # <<>> /\ ~IsSpace(t[1]) /\ ~IsSpace(t[Len(t)])
  <2>1. Len(t) > 0
    BY <1>2, <1>4 DEF Text
  <2>2. 1 \in W /\ Len(t) \in W /\ W # {}
    BY <1>1, <1>2, <1>4, <2>1
  <2>3. Min(W) \in W /\ Min(W) <= 1 /\ Max(W) \in W /\ Len(t) <= Max(W)
    BY <1>2, <2>2, MinMaxPlace
  <2>4. Min(W) = 1 /\ Max(W) = Len(t)
    BY <1>2, <2>3
  <2>5. trim(t) = SubSeq(t, 1, Len(t))
    BY <1>1, <2>2, <2>4 DEF trim
  <2>. QED
    BY <1>2, <2>1, <2>5 DEF Text
<1>. QED
  BY <1>3, <1>4

\* Without what stops checkText, it has looked at the whole text; and if it
\* has met nothing that is no capital, there is nothing.
Stops == (Letters \ Upper) \cup Symbols
LEMMA CheckedAll ==
  ASSUME NEW t \in Text, ~Has(t, Stops)
  PROVE  /\ IsUpperCaseCompatible(t)
         /\ HasCyrillic(t) <=> Has(t, Cyrillic)
         /\ Has(t, Cyrillic) => HasLetter(t)
<1>1. {i \in DOMAIN t : t[i] \in (Letters \ Upper) \cup Symbols} = {}
  BY DEF Has, Stops
<1>2. Checked(t) = {t[i] : i \in DOMAIN t}
  BY <1>1 DEF Checked
<1>3. IsUpperCaseCompatible(t)
  BY <1>2 DEF IsUpperCaseCompatible, Has, Stops
<1>4. HasCyrillic(t) <=> Has(t, Cyrillic)
  BY <1>2 DEF HasCyrillic, Has
<1>5. Has(t, Cyrillic) => HasLetter(t)
  BY <1>2, CyrillicIsWord DEF HasLetter, Has
<1>. QED
  BY <1>3, <1>4, <1>5

LEMMA CheckedSome ==
  ASSUME NEW t \in Text
  PROVE  /\ HasCyrillic(t) => Has(t, Cyrillic) /\ HasLetter(t)
         /\ IsUpperCaseCompatible(t) => ~Has(t, Stops)
<1>1. Checked(t) \in SUBSET {t[i] : i \in DOMAIN t}
  BY DEF Checked
<1>2. HasCyrillic(t) => Has(t, Cyrillic) /\ HasLetter(t)
  BY <1>1, CyrillicIsWord DEF HasCyrillic, HasLetter, Has
<1>3. ASSUME Has(t, Stops) PROVE ~IsUpperCaseCompatible(t)
  <2>1. PICK S : S = {i \in DOMAIN t : t[i] \in (Letters \ Upper) \cup Symbols}
    OBVIOUS
  <2>2. S # {} /\ S \in SUBSET DOMAIN t
    BY <1>3, <2>1 DEF Has, Stops
  <2>3. PICK m : m = Min(S)
    OBVIOUS
  <2>4. m \in S /\ \A s \in S : m <= s
    BY <2>2, <2>3, Places, MinMaxPlace
  <2>5. t[m] \in Checked(t)
    BY <2>1, <2>2, <2>4 DEF Checked
  <2>. QED
    BY <2>1, <2>4, <2>5 DEF IsUpperCaseCompatible
<1>. QED
  BY <1>2, <1>3

-----------------------------------------------------------------------------
(***************************************************************************)
(* The PDF walker.  Until finish is called, result and currentSection are  *)
(* what the lines read so far come to, whatever pages they were on.        *)
(***************************************************************************)
TrimmedLines == [i \in DOMAIN lines |-> trim(lines[i])]
LineHeads == {i \in Kept : isHeading(trim(lines[i]))}
PdfInv ==
  type = "pdf" =>
    /\ rest \in Seq(Text) /\ lines \in Seq(Text)
    /\ IF finished THEN rest = <<>> /\ result = Cut(Kept, LineHeads, TrimmedLines)
       ELSE SectionsAre(result, currentSection, Kept, LineHeads, TrimmedLines)

\* A heading has a title.
LEMMA LinesCut ==
  ASSUME lines \in Seq(Text)
  PROVE  /\ IsCutBy(Kept, LineHeads) /\ Beyond(Kept, Len(lines) + 1)
         /\ Titled(LineHeads, TrimmedLines)
<1>1. Len(lines) \in Nat /\ DOMAIN lines = 1 .. Len(lines) /\ \A i \in DOMAIN lines : lines[i] \in Text
  OBVIOUS
<1>2. Kept \in SUBSET DOMAIN lines /\ LineHeads \in SUBSET Kept
  BY DEF Kept, LineHeads
<1>3. \A S \in SUBSET DOMAIN lines : IsPlaces(S) /\ Beyond(S, Len(lines) + 1)
  BY <1>1, PlacesOfSequence
<1>4. ASSUME NEW h \in LineHeads PROVE normalizeTitle(TrimmedLines[h]) # <<>>
  <2>1. h \in DOMAIN lines /\ isHeading(trim(lines[h]))
    BY <1>2 DEF LineHeads
  <2>2. PICK t : t = trim(lines[h])
    OBVIOUS
  <2>3. t \in Text
    BY <1>1, <2>1, <2>2, Trimmed
  <2>4. Has(t, Cyrillic)
    BY <2>1, <2>2, <2>3, CheckedSome DEF isHeading
  <2>. QED
    BY <2>1, <2>2, <2>3, <2>4, TitleNotEmpty DEF TrimmedLines
<1>. QED
  BY <1>2, <1>3, <1>4 DEF IsCutBy, Titled

\* A line more says nothing new of those before it.
LEMMA LineRead ==
  ASSUME lines \in Seq(Text), NEW line \in Text, lines' = Append(lines, line), NEW m, m = Len(lines) + 1,
         NEW t, t = trim(line)
  PROVE  /\ lines' \in Seq(Text)
         /\ Kept' = IF t # <<>> /\ ~looksLikeTocLine(t) THEN Kept \cup {m} ELSE Kept
         /\ LineHeads' = IF t # <<>> /\ isHeading(t) THEN LineHeads \cup {m} ELSE LineHeads
         /\ Agree(Kept, TrimmedLines, TrimmedLines')
         /\ TrimmedLines'[m] = t
<1>1. /\ lines' \in Seq(Text) /\ Len(lines) \in Nat /\ m \in Nat
      /\ DOMAIN lines = 1 .. Len(lines) /\ DOMAIN lines' = 1 .. m
      /\ \A i \in DOMAIN lines : lines'[i] = lines[i]
      /\ lines'[m] = line
  OBVIOUS
<1>2. m \in DOMAIN lines' /\ m \notin DOMAIN lines /\ DOMAIN lines' = DOMAIN lines \cup {m}
  BY <1>1
<1>3. Kept \in SUBSET DOMAIN lines /\ LineHeads \in SUBSET Kept
  BY DEF Kept, LineHeads
<1>4. Kept' = IF t # <<>> /\ ~looksLikeTocLine(t) THEN Kept \cup {m} ELSE Kept
  <2>1. \A i \in DOMAIN lines : i \in Kept' <=> i \in Kept
    BY <1>1, <1>2 DEF Kept
  <2>2. m \in Kept' <=> t # <<>> /\ ~looksLikeTocLine(t)
    BY <1>1, <1>2 DEF Kept
  <2>3. Kept' \in SUBSET (DOMAIN lines \cup {m})
    BY <1>2 DEF Kept
  <2>4. CASE t # <<>> /\ ~looksLikeTocLine(t)
    <3>1. Kept' = Kept \cup {m}
      BY ONLY <1>3, <2>1, <2>2, <2>3, <2>4
    <3>. QED
      BY <3>1, <2>4
  <2>5. CASE ~(t # <<>> /\ ~looksLikeTocLine(t))
    <3>1. Kept' = Kept
      BY ONLY <1>2, <1>3, <2>1, <2>2, <2>3, <2>5
    <3>. QED
      BY <3>1, <2>5
  <2>. QED
    BY ONLY <2>4, <2>5
<1>5. LineHeads' = IF t # <<>> /\ isHeading(t) THEN LineHeads \cup {m} ELSE LineHeads
  <2>0. isHeading(t) => ~looksLikeTocLine(t)
    BY DEF isHeading
  <2>1. \A i \in DOMAIN lines : i \in LineHeads' <=> i \in LineHeads
    BY <1>1, <1>2, <1>3, <1>4 DEF LineHeads
  <2>2. m \in LineHeads' <=> t # <<>> /\ isHeading(t)
    BY <1>1, <1>2, <1>3, <1>4, <2>0 DEF LineHeads
  <2>3. LineHeads' \in SUBSET (DOMAIN lines \cup {m}) /\ LineHeads \in SUBSET DOMAIN lines
    BY <1>2, <1>3, <1>4 DEF LineHeads
  <2>4. CASE t # <<>> /\ isHeading(t)
    <3>1. LineHeads' = LineHeads \cup {m}
      BY ONLY <2>1, <2>2, <2>3, <2>4
    <3>. QED
      BY <3>1, <2>4
  <2>5. CASE ~(t # <<>> /\ isHeading(t))
    <3>1. LineHeads' = LineHeads
      BY ONLY <1>2, <2>1, <2>2, <2>3, <2>5
    <3>. QED
      BY <3>1, <2>5
  <2>. QED
    BY ONLY <2>4, <2>5
<1>6. Agree(Kept, TrimmedLines, TrimmedLines')
  BY <1>1, <1>2, <1>3 DEF Agree, TrimmedLines
<1>7. TrimmedLines'[m] = t
  BY <1>1, <1>2 DEF TrimmedLines
<1>. QED
  BY <1>1, <1>4, <1>5, <1>6, <1>7

\* What the last section is, when there is one.
LEMMA LastSection ==
  ASSUME NEW r, NEW s, NEW K, NEW H, NEW v, SectionsAre(r, s, K, H, v), H # {}
  PROVE  \A line : [s EXCEPT !.text = Append(@, line)] = WithLine(s, line)
<1>1. PICK a, b : s = [title |-> a, text |-> b]
  BY DEF SectionsAre, SectionAt
<1>. QED
  BY <1>1 DEF WithLine

LEMMA LinePushed ==
  ASSUME PdfInv, type = "pdf", ~finished, pushParagraph
  PROVE  /\ rest' \in Seq(Text) /\ lines' \in Seq(Text)
         /\ SectionsAre(result', currentSection', Kept', LineHeads', TrimmedLines')
<1>1. /\ rest \in Seq(Text) /\ rest # <<>> /\ lines \in Seq(Text)
      /\ SectionsAre(result, currentSection, Kept, LineHeads, TrimmedLines)
  BY DEF PdfInv, pushParagraph
<1>2. PICK line : line = Head(rest)
  OBVIOUS
<1>3. PICK t : t = trim(line)
  OBVIOUS
<1>4. PICK m : m = Len(lines) + 1
  OBVIOUS
<1>5. /\ line \in Text /\ rest' \in Seq(Text) /\ lines' = Append(lines, line)
      /\ result' = After(t)[1] /\ currentSection' = After(t)[2]
  BY <1>1, <1>2, <1>3 DEF pushParagraph, Store
<1>6. /\ IsCutBy(Kept, LineHeads) /\ Beyond(Kept, m) /\ Titled(LineHeads, TrimmedLines)
  BY <1>1, <1>4, LinesCut
<1>7. /\ lines' \in Seq(Text)
      /\ Kept' = IF t # <<>> /\ ~looksLikeTocLine(t) THEN Kept \cup {m} ELSE Kept
      /\ LineHeads' = IF t # <<>> /\ isHeading(t) THEN LineHeads \cup {m} ELSE LineHeads
      /\ Agree(Kept, TrimmedLines, TrimmedLines')
      /\ TrimmedLines'[m] = t
  BY <1>1, <1>3, <1>4, <1>5, LineRead
<1>8. isHeading(t) => ~looksLikeTocLine(t)
  BY DEF isHeading
<1>. PICK r, s, v, w, K, H : /\ r = result /\ s = currentSection /\ v = TrimmedLines /\ w = TrimmedLines'
                             /\ K = Kept /\ H = LineHeads
  OBVIOUS
<1>9. SectionsAre(r, s, K, H, v) /\ IsCutBy(K, H) /\ Beyond(K, m) /\ Titled(H, v) /\ Agree(K, v, w) /\ w[m] = t
  BY <1>1, <1>6, <1>7
<1>10. CASE t # <<>> /\ isHeading(t)
  <2>1. After(t) = <<Flushed(r, s), NewSection(t)>>
    BY <1>10 DEF After, StartSection
  <2>2. SectionsAre(Flushed(r, s), NewSection(w[m]), K \cup {m}, H \cup {m}, w)
    BY <1>9, CutHead
  <2>. QED
    BY <1>5, <1>7, <1>8, <1>9, <1>10, <2>1, <2>2
<1>11. CASE t # <<>> /\ ~isHeading(t) /\ ~looksLikeTocLine(t)
  <2>1. SectionsAre(r, IF H = {} THEN s ELSE WithLine(s, w[m]), K \cup {m}, H, w)
    BY <1>9, CutLine
  <2>2. s.title = <<>> <=> H = {}
    BY <1>9, FlushedIsCut
  <2>3. H # {} => [s EXCEPT !.text = Append(@, t)] = WithLine(s, t)
    BY <1>9, LastSection
  <2>4. After(t) = <<r, IF H = {} THEN s ELSE WithLine(s, t)>>
    BY <1>11, <2>2, <2>3 DEF After, Extended, sections
  <2>. QED
    BY <1>5, <1>7, <1>9, <1>11, <2>1, <2>4
<1>12. CASE t = <<>> \/ looksLikeTocLine(t)
  <2>1. After(t) = <<r, s>>
    BY <1>8, <1>12 DEF After, sections
  <2>2. SectionsAre(r, s, K, H, w)
    BY <1>9, LeftOut
  <2>. QED
    BY <1>5, <1>7, <1>8, <1>12, <2>1, <2>2
<1>. QED
  BY <1>10, <1>11, <1>12

LEMMA SameLines ==
  ASSUME lines' = lines
  PROVE  Kept' = Kept /\ LineHeads' = LineHeads /\ TrimmedLines' = TrimmedLines
<1>1. Kept' = Kept
  BY DEF Kept
<1>. QED
  BY <1>1 DEF LineHeads, TrimmedLines

LEMMA PdfStep ==
  ASSUME PdfInv, type = "pdf", PdfNext, type' = type
  PROVE  PdfInv'
<1>1. /\ rest \in Seq(Text) /\ lines \in Seq(Text)
      /\ IF finished THEN rest = <<>> /\ result = Cut(Kept, LineHeads, TrimmedLines)
         ELSE SectionsAre(result, currentSection, Kept, LineHeads, TrimmedLines)
  BY DEF PdfInv
<1>2. ASSUME NEW page \in Pages, pushText(page) PROVE PdfInv'
  <2>1. /\ ~finished /\ ~finished' /\ lines' = lines /\ rest' = page
        /\ result' = result /\ currentSection' = currentSection
    BY <1>2 DEF pushText, Store, Walker, sections
  <2>2. rest' \in Seq(Text)
    BY <2>1, PageAssumption
  <2>. QED
    BY <1>1, <2>1, <2>2, SameLines DEF PdfInv
<1>3. CASE finished /\ UNCHANGED pdfVars
  <2>1. finished /\ finished' /\ lines' = lines /\ rest' = rest /\ result' = result
    BY <1>3 DEF pdfVars, sections
  <2>. QED
    BY <1>1, <2>1, SameLines DEF PdfInv
<1>4. CASE ~finished /\ pushParagraph
  <2>1. finished' = finished
    BY <1>4 DEF pushParagraph
  <2>. QED
    BY <1>4, <2>1, LinePushed DEF PdfInv
<1>5. CASE finish
  <2>1. /\ ~finished /\ finished' /\ lines' = lines /\ rest' = rest /\ rest = <<>>
        /\ result' = Flushed(result, currentSection)
    BY <1>5 DEF finish, Store, Finished, sections
  <2>2. Flushed(result, currentSection) = Cut(Kept, LineHeads, TrimmedLines)
    <3>1. /\ SectionsAre(result, currentSection, Kept, LineHeads, TrimmedLines)
          /\ IsCutBy(Kept, LineHeads) /\ Titled(LineHeads, TrimmedLines)
      BY <1>1, <2>1, LinesCut
    <3>. PICK r, s, v, K, H : r = result /\ s = currentSection /\ v = TrimmedLines /\ K = Kept /\ H = LineHeads
      OBVIOUS
    <3>2. Flushed(r, s) = Cut(K, H, v)
      BY <3>1, FlushedIsCut
    <3>. QED
      BY <3>2
  <2>. QED
    BY <1>1, <2>1, <2>2, SameLines DEF PdfInv
<1>6. CASE finished /\ pushParagraph
  BY <1>1, <1>6 DEF pushParagraph
<1>. QED
  BY <1>2, <1>3, <1>4, <1>5, <1>6 DEF PdfNext

LEMMA FirstWord ==
  ASSUME NEW t \in Seq(STRING), Len(t) >= 3, SubSeq(t, 1, 3) = <<"List", " ", "used">>
  PROVE  t[1] = "List"
<1>1. PICK u : u = SubSeq(t, 1, 3)
  OBVIOUS
<1>2. u = <<"List", " ", "used">>
  BY <1>1
<1>3. u[1] = "List"
  BY ONLY <1>2
<1>4. u[1] = t[1]
  BY ONLY <1>1, t \in Seq(STRING), Len(t) >= 3
<1>. QED
  BY ONLY <1>3, <1>4

\* In a line both walkers have to treat alike they see the same heading.
LEMMA SameHeading ==
  ASSUME NEW t \in Text, t # <<>>, trim(t) = t, ~looksLikeTocLine(t), Common(t)
  PROVE  isHeading(t) <=> DocxHeading(t)
<1>1. t[1] = Head(t) /\ 1 \in DOMAIN t
  BY DEF Text
<1>2. looksLikeTopLevelHeadingText(t) <=> StartsWithNumber(t) \/ StartsWith(t, Known)
  BY DEF looksLikeTopLevelHeadingText
<1>3. ASSUME isHeading(t) PROVE DocxHeading(t)
  <2>1. Has(t, Cyrillic)
    BY <1>3, CheckedSome DEF isHeading
  <2>2. CASE IsUpperCaseCompatible(t) /\ StartsWithNumber(t)
    <3>1. ~Has(t, Stops)
      BY <2>2, CheckedSome
    <3>. QED
      BY <1>2, <2>1, <2>2, <3>1 DEF DocxHeading, Stops
  <2>3. CASE startsWithKnownUnnumberedHeading(t)
    <3>1. Len(t) >= 3 /\ SubSeq(t, 1, 3) = <<"List", " ", "used">> => t[1] = "List"
      BY FirstWord DEF Text
    <3>2. Head(t) \in Known
      BY <1>1, <2>3, <3>1 DEF startsWithKnownUnnumberedHeading, startsWithAppendixHeading, StartsWith, Known
    <3>3. StartsWith(t, Known)
      BY <3>2 DEF StartsWith
    <3>4. ~Has(t, Stops)
      BY <3>3 DEF Common, Stops
    <3>. QED
      BY <1>2, <2>1, <3>3, <3>4 DEF DocxHeading, Stops
  <2>. QED
    BY <1>3, <2>2, <2>3 DEF isHeading
<1>4. ASSUME DocxHeading(t) PROVE isHeading(t)
  <2>1. Has(t, Cyrillic) /\ ~Has(t, Stops)
    BY <1>4 DEF DocxHeading, Stops
  <2>2. IsUpperCaseCompatible(t) /\ HasCyrillic(t) /\ HasLetter(t)
    BY <2>1, CheckedAll
  <2>3. CASE StartsWithNumber(t)
    BY <2>2, <2>3 DEF isHeading
  <2>4. CASE StartsWith(t, Known)
    <3>1. Head(t) \in Known /\ Head(t) \notin Stops
      BY <1>1, <2>1, <2>4 DEF StartsWith, Has
    <3>2. {"Intro", "End", "List", "Appendix"} \in SUBSET Stops
      BY DEF Stops, Letters, Cyrillic, Capitalized, Upper, UpperCyrillic
    <3>3. Head(t) \in {"INTRO", "END", "LIST", "APPENDIX"}
      BY <3>1, <3>2 DEF Known
    <3>4. Head(t) = "APPENDIX" => startsWithAppendixHeading(t)
      BY DEF Common, StartsWith
    <3>5. startsWithKnownUnnumberedHeading(t)
      BY <3>3, <3>4 DEF startsWithKnownUnnumberedHeading, StartsWith
    <3>. QED
      BY <2>2, <3>5 DEF isHeading
  <2>. QED
    BY <1>2, <1>4, <2>3, <2>4 DEF DocxHeading
<1>. QED
  BY <1>3, <1>4

LEMMA PdfInvHolds == DocumentReaderSpec => []PdfInv
<1>1. DocumentReaderInit => PdfInv
  <2>. SUFFICES ASSUME DocumentReaderInit PROVE PdfInv
    OBVIOUS
  <2>1. /\ rest = <<>> /\ lines = <<>> /\ finished = FALSE /\ result = <<>> /\ currentSection = NoSection
    BY DEF DocumentReaderInit, PdfInit
  <2>2. LineHeads = {}
    BY <2>1 DEF LineHeads, Kept
  <2>. QED
    BY <2>1, <2>2 DEF PdfInv, SectionsAre
<1>2. PdfInv /\ [DocumentReaderNext]_all => PdfInv'
  <2>. SUFFICES ASSUME PdfInv, [DocumentReaderNext]_all PROVE PdfInv'
    OBVIOUS
  <2>1. CASE type = "pdf" /\ PdfNext /\ type' = type
    BY <2>1, PdfStep
  <2>2. CASE type = "docx" /\ type' = type
    BY <2>2 DEF PdfInv
  <2>3. CASE UNCHANGED all
    <3>1. /\ type' = type /\ rest' = rest /\ lines' = lines /\ finished' = finished
          /\ result' = result /\ currentSection' = currentSection
      BY <2>3 DEF all, readerVars, vars, sections
    <3>. QED
      BY <3>1, SameLines DEF PdfInv
  <2>. QED
    BY <2>1, <2>2, <2>3 DEF DocumentReaderNext
<1>. QED
  BY <1>1, <1>2, PTL DEF DocumentReaderSpec

(***************************************************************************)
(* PdfSectionsMatch: whatever its pages are, the sections of a PDF are     *)
(* those of its lines, and the titles those the lines would give as        *)
(* paragraphs of a DOCX file.  A document of the other type has no lines   *)
(* and is never finished.                                                  *)
(***************************************************************************)
THEOREM PdfSections == DocumentReaderSpec => []PdfSectionsMatch
<1>. DEFINE NoLines == type \in {"docx", "pdf"} /\ (type # "pdf" => ~finished)
<1>1. DocumentReaderInit => NoLines
  BY DEF DocumentReaderInit, PdfInit
<1>2. NoLines /\ [DocumentReaderNext]_all => NoLines'
  BY DEF DocumentReaderNext, all
<1>3. PdfInv /\ NoLines => PdfSectionsMatch
  <2>. SUFFICES ASSUME PdfInv, NoLines, finished PROVE PagesDoNotMatter /\ FormatsAgree
    BY DEF PdfSectionsMatch, PagesDoNotMatter, FormatsAgree
  <2>1. lines \in Seq(Text) /\ result = Cut(Kept, LineHeads, TrimmedLines)
    BY DEF PdfInv
  <2>2. result = Shown(LineHeads)
    BY <2>1 DEF Shown, TrimmedLines
  <2>3. ASSUME \A i \in Kept : Common(trim(lines[i]))
        PROVE  LineHeads = {i \in Kept : DocxHeading(trim(lines[i]))}
    <3>1. ASSUME NEW i \in Kept PROVE isHeading(trim(lines[i])) <=> DocxHeading(trim(lines[i]))
      <4>1. PICK t : t = trim(lines[i])
        OBVIOUS
      <4>2. lines[i] \in Text
        BY <2>1 DEF Kept
      <4>3. t \in Text /\ trim(t) = t
        BY <4>1, <4>2, Trimmed, TrimOnce
      <4>4. t # <<>> /\ ~looksLikeTocLine(t) /\ Common(t)
        BY <2>3, <4>1 DEF Kept
      <4>. QED
        BY <4>1, <4>3, <4>4, SameHeading
    <3>. QED
      BY <3>1 DEF LineHeads
  <2>. QED
    BY <2>2, <2>3 DEF PagesDoNotMatter, FormatsAgree, LineHeads
<1>. QED
  BY <1>1, <1>2, <1>3, PdfInvHolds, PTL DEF DocumentReaderSpec

-----------------------------------------------------------------------------
(***************************************************************************)
(* The DOCX walker.  Until end is called the paragraph read last has not   *)
(* been flushed: the sections are those of the paragraphs before it, and   *)
(* what the walker keeps of a paragraph describes that one.                *)
(***************************************************************************)
Before == {i \in Visible : i < Len(doc)}
BeforeHeads == {i \in Before : HeadingOf(doc[i])}
DocTexts == [i \in DOMAIN doc |-> doc[i].text]

DocType ==
  /\ doc \in Seq(Paragraphs) /\ open \in Seq([par : 1 .. Len(doc), run : Runs])
  /\ paragraphText \in Text
  /\ {paragraphHasLetter, paragraphHasCyrillic, paragraphIsUpperCase} \in SUBSET BOOLEAN
  /\ {paragraphHasTocBookmark, skipCurrentRunText, toc, resumed, hidden, done} \in SUBSET BOOLEAN
OpenInOrder == \A i, j \in DOMAIN open : i < j => open[i].par < open[j].par

\* What is kept of a paragraph is that of the last one.
Latest ==
  IF doc = <<>> THEN paragraphText = <<>>
  ELSE LET par == doc[Len(doc)]
       IN /\ paragraphText = par.text /\ paragraphStyle = par.style
          /\ paragraphHasDotLeaderTab = par.leader
          /\ paragraphHasTocBookmark <=> par.bookmark \/ par.behind
SkipsCode ==
  open # <<>> /\ Last(open).par = Len(doc) /\ Last(open).run # "none" =>
    (skipCurrentRunText <=> Last(open).run = "code")
Followed ==
  IF done THEN result = SectionsOf
  ELSE /\ Latest /\ SkipsCode
       /\ SectionsAre(result, currentSection, Before, BeforeHeads, DocTexts)
WalkerInv ==
  /\ DocType /\ OpenInOrder
  /\ ~hidden => FlagsDescribeText
  /\ type = "docx" /\ ~hidden /\ ~resumed => Followed

LEMMA HasConcat ==
  ASSUME NEW a \in Text, NEW b \in Text, NEW S
  PROVE  a \o b \in Text /\ (Has(a \o b, S) <=> Has(a, S) \/ Has(b, S))
<1>1. /\ a \o b \in Text /\ Len(a) \in Nat /\ Len(b) \in Nat /\ Len(a \o b) = Len(a) + Len(b)
      /\ DOMAIN a = 1 .. Len(a) /\ DOMAIN b = 1 .. Len(b) /\ DOMAIN (a \o b) = 1 .. Len(a) + Len(b)
  BY DEF Text
<1>2. /\ \A i \in 1 .. Len(a) : (a \o b)[i] = a[i]
      /\ \A i \in 1 .. Len(b) : (a \o b)[Len(a) + i] = b[i]
  BY DEF Text
<1>3. ASSUME Has(a \o b, S) PROVE Has(a, S) \/ Has(b, S)
  <2>1. PICK i \in 1 .. Len(a) + Len(b) : (a \o b)[i] \in S
    BY <1>1, <1>3 DEF Has
  <2>2. CASE i <= Len(a)
    <3>1. i \in 1 .. Len(a)
      BY <2>1, <2>2, <1>1
    <3>. QED
      BY <2>1, <3>1, <1>1, <1>2 DEF Has
  <2>3. CASE ~(i <= Len(a))
    <3>1. PICK j \in 1 .. Len(b) : i = Len(a) + j
      <4>1. i - Len(a) \in 1 .. Len(b) /\ i = Len(a) + (i - Len(a))
        BY <2>1, <2>3, <1>1
      <4>. QED
        BY <4>1
    <3>. QED
      BY <2>1, <3>1, <1>1, <1>2 DEF Has
  <2>. QED
    BY <2>2, <2>3
<1>4. ASSUME Has(a, S) PROVE Has(a \o b, S)
  <2>1. PICK i \in 1 .. Len(a) : a[i] \in S
    BY <1>1, <1>4 DEF Has
  <2>2. i \in 1 .. Len(a) + Len(b) /\ (a \o b)[i] \in S
    BY <2>1, <1>1, <1>2
  <2>. QED
    BY <2>2, <1>1 DEF Has
<1>5. ASSUME Has(b, S) PROVE Has(a \o b, S)
  <2>1. PICK i \in 1 .. Len(b) : b[i] \in S
    BY <1>1, <1>5 DEF Has
  <2>2. Len(a) + i \in 1 .. Len(a) + Len(b) /\ (a \o b)[Len(a) + i] \in S
    BY <2>1, <1>1, <1>2
  <2>. QED
    BY <2>2, <1>1 DEF Has
<1>. QED
  BY <1>1, <1>3, <1>4, <1>5

\* The places that are kept, and that their headings have titles.
LEMMA DocCut ==
  ASSUME doc \in Seq(Paragraphs)
  PROVE  /\ IsCutBy(Before, BeforeHeads) /\ Titled(BeforeHeads, DocTexts)
         /\ Len(doc) \in Nat /\ DOMAIN doc = 1 .. Len(doc)
         /\ Beyond(Before, Len(doc))
<1>1. Len(doc) \in Nat /\ DOMAIN doc = 1 .. Len(doc) /\ \A i \in DOMAIN doc : doc[i].text \in Text
  <2>1. Len(doc) \in Nat /\ DOMAIN doc = 1 .. Len(doc) /\ \A i \in DOMAIN doc : doc[i] \in Paragraphs
    OBVIOUS
  <2>. QED
    BY <2>1 DEF Paragraphs
<1>2. Before \in SUBSET DOMAIN doc /\ BeforeHeads \in SUBSET Before
  BY DEF Before, BeforeHeads, Visible
<1>3. \A S \in SUBSET DOMAIN doc : IsPlaces(S)
  BY <1>1, PlacesOfSequence
<1>4. ASSUME NEW h \in BeforeHeads PROVE normalizeTitle(DocTexts[h]) # <<>>
  <2>1. h \in DOMAIN doc /\ HeadingOf(doc[h])
    BY <1>2 DEF BeforeHeads
  <2>2. Has(doc[h].text, Cyrillic)
    BY <2>1 DEF HeadingOf
  <2>. QED
    BY <1>1, <2>1, <2>2, TitleNotEmpty DEF DocTexts
<1>5. Beyond(Before, Len(doc))
  BY <1>1 DEF Beyond, Before
<1>. QED
  BY <1>1, <1>2, <1>3, <1>4, <1>5 DEF IsCutBy, Titled

LEMMA SameConfig ==
  ASSUME config' = config
  PROVE  \A par : (HeadingOf(par)' <=> HeadingOf(par)) /\ (RowOf(par)' <=> RowOf(par))
  BY DEF HeadingOf, RowOf, isHeadingParagraph

LEMMA SameDoc ==
  ASSUME doc' = doc, config' = config
  PROVE  /\ Before' = Before /\ BeforeHeads' = BeforeHeads /\ DocTexts' = DocTexts /\ SectionsOf' = SectionsOf
<1>1. Visible' = Visible
  BY DEF Visible, RowOf
<1>2. Before' = Before /\ DocTexts' = DocTexts
  BY <1>1 DEF Before, DocTexts
<1>3. \A i \in Visible : HeadingOf(doc[i])' <=> HeadingOf(doc[i])
  BY DEF HeadingOf, isHeadingParagraph
<1>4. BeforeHeads' = BeforeHeads
  BY <1>2, <1>3 DEF BeforeHeads, Before
<1>5. SectionsOf' = SectionsOf
  BY <1>1, <1>3 DEF SectionsOf
<1>. QED
  BY <1>2, <1>4, <1>5

\* A change of the last paragraph says nothing new of those before it.
LEMMA LastChanged ==
  ASSUME doc \in Seq(Paragraphs), NEW n, n = Len(doc), NEW p, doc' = [doc EXCEPT ![n] = p], config' = config
  PROVE  Before' = Before /\ BeforeHeads' = BeforeHeads /\ Agree(Before, DocTexts, DocTexts')
<1>1. /\ n \in Nat /\ DOMAIN doc = 1 .. n /\ DOMAIN doc' = DOMAIN doc /\ Len(doc') = n
      /\ \A i \in DOMAIN doc : i # n => doc'[i] = doc[i]
  OBVIOUS
<1>2. Before \in SUBSET DOMAIN doc /\ \A i \in Before : i < n
  BY DEF Before, Visible
<1>3. \A i \in Before : i # n /\ doc'[i] = doc[i]
  BY <1>1, <1>2
<1>4. \A i \in DOMAIN doc : i < n => (i \in Visible' <=> i \in Visible)
  <2>1. \A i \in DOMAIN doc : i < n => doc'[i] = doc[i]
    BY <1>1
  <2>. QED
    BY <2>1, <1>1 DEF Visible, RowOf
<1>5. Before' = Before
  <2>1. Visible \in SUBSET DOMAIN doc /\ Visible' \in SUBSET DOMAIN doc
    BY <1>1 DEF Visible
  <2>. QED
    BY <2>1, <1>1, <1>4 DEF Before
<1>6. \A i \in Before : HeadingOf(doc[i])' <=> HeadingOf(doc[i])
  BY <1>3 DEF HeadingOf, isHeadingParagraph
<1>7. BeforeHeads' = BeforeHeads
  BY <1>5, <1>6 DEF BeforeHeads
<1>8. Agree(Before, DocTexts, DocTexts')
  BY <1>1, <1>2, <1>3 DEF Agree, DocTexts
<1>. QED
  BY <1>5, <1>7, <1>8

\* The places there are when the paragraph read last is over.
Stays(par) == par.text # <<>> /\ ~RowOf(par)
WithLast(kept) == IF Stays(doc[Len(doc)]) THEN kept \cup {Len(doc)} ELSE kept
WithLastHead(heads) ==
  IF Stays(doc[Len(doc)]) /\ HeadingOf(doc[Len(doc)]) THEN heads \cup {Len(doc)} ELSE heads

LEMMA AllVisible ==
  ASSUME doc \in Seq(Paragraphs), doc # <<>>
  PROVE  /\ Visible = WithLast(Before)
         /\ {i \in Visible : HeadingOf(doc[i])} = WithLastHead(BeforeHeads)
<1>1. PICK n : n = Len(doc)
  OBVIOUS
<1>2. n \in Nat /\ n > 0 /\ DOMAIN doc = 1 .. n /\ n \in DOMAIN doc
  BY <1>1
<1>3. n \in Visible <=> Stays(doc[n])
  BY <1>2 DEF Visible, Stays
<1>4. Visible \in SUBSET DOMAIN doc /\ \A i \in DOMAIN doc : i < n \/ i = n
  BY <1>2 DEF Visible
<1>5. Before = {i \in Visible : i < n}
  BY <1>1 DEF Before
<1>6. Visible = IF Stays(doc[n]) THEN Before \cup {n} ELSE Before
  <2>1. CASE Stays(doc[n])
    <3>1. Visible = Before \cup {n}
      BY ONLY <1>3, <1>4, <1>5, <2>1
    <3>. QED
      BY <3>1, <2>1
  <2>2. CASE ~Stays(doc[n])
    <3>1. Visible = Before
      BY ONLY <1>3, <1>4, <1>5, <2>2
    <3>. QED
      BY <3>1, <2>2
  <2>. QED
    BY <2>1, <2>2
<1>7. {i \in Visible : HeadingOf(doc[i])}
        = IF Stays(doc[n]) /\ HeadingOf(doc[n]) THEN BeforeHeads \cup {n} ELSE BeforeHeads
  <2>0. BeforeHeads = {i \in Before : HeadingOf(doc[i])}
    BY DEF BeforeHeads
  <2>1. CASE Stays(doc[n])
    <3>1. Visible = Before \cup {n}
      BY <1>6, <2>1
    <3>2. CASE HeadingOf(doc[n])
      <4>1. {i \in Visible : HeadingOf(doc[i])} = BeforeHeads \cup {n}
        BY ONLY <3>1, <3>2, <2>0
      <4>. QED
        BY <4>1, <3>2, <2>1
    <3>3. CASE ~HeadingOf(doc[n])
      <4>1. {i \in Visible : HeadingOf(doc[i])} = BeforeHeads
        BY ONLY <3>1, <3>3, <2>0
      <4>. QED
        BY <4>1, <3>3
    <3>. QED
      BY <3>2, <3>3
  <2>2. CASE ~Stays(doc[n])
    <3>1. Visible = Before
      BY <1>6, <2>2
    <3>. QED
      BY <3>1, <2>0, <2>2
  <2>. QED
    BY <2>1, <2>2
<1>. QED
  BY <1>1, <1>6, <1>7 DEF WithLast, WithLastHead

LEMMA ParagraphAdded ==
  ASSUME doc \in Seq(Paragraphs), doc # <<>>, NEW p \in Paragraphs, doc' = Append(doc, p), config' = config
  PROVE  /\ Before' = WithLast(Before) /\ BeforeHeads' = WithLastHead(BeforeHeads)
         /\ Agree(Before, DocTexts, DocTexts') /\ DocTexts'[Len(doc)] = doc[Len(doc)].text
<1>1. PICK n : n = Len(doc)
  OBVIOUS
<1>2. /\ n \in Nat /\ n > 0 /\ DOMAIN doc = 1 .. n /\ DOMAIN doc' = 1 .. n + 1 /\ Len(doc') = n + 1
      /\ \A i \in DOMAIN doc : doc'[i] = doc[i]
  BY <1>1
<1>3. \A i \in DOMAIN doc : i \in DOMAIN doc' /\ i < n + 1 /\ (i \in Visible' <=> i \in Visible)
  <2>1. \A i \in DOMAIN doc : i \in DOMAIN doc' /\ i < n + 1
    BY <1>2
  <2>2. \A par : RowOf(par)' <=> RowOf(par)
    BY DEF RowOf
  <2>. QED
    BY <1>2, <2>1, <2>2 DEF Visible
<1>4. \A i \in Visible' : i < n + 1 => i \in DOMAIN doc
  <2>1. Visible' \in SUBSET (1 .. n + 1)
    BY <1>2 DEF Visible
  <2>. QED
    BY <1>2, <2>1
<1>5. Before' = Visible
  <2>1. Visible \in SUBSET DOMAIN doc
    BY DEF Visible
  <2>2. Before' = {i \in Visible' : i < n + 1}
    BY <1>2 DEF Before
  <2>. QED
    BY ONLY <2>1, <2>2, <1>3, <1>4
<1>6. \A i \in Visible : HeadingOf(doc[i])' <=> HeadingOf(doc[i])
  <2>1. \A i \in Visible : doc'[i] = doc[i]
    BY <1>2 DEF Visible
  <2>2. ASSUME NEW i \in Visible PROVE HeadingOf(doc[i])' <=> HeadingOf(doc[i])
    <3>1. PICK q : q = doc[i] /\ q = doc'[i]
      BY <2>1
    <3>. QED
      BY <3>1 DEF HeadingOf, isHeadingParagraph
  <2>. QED
    BY <2>2
<1>7. BeforeHeads' = {i \in Visible : HeadingOf(doc[i])}
  BY <1>5, <1>6 DEF BeforeHeads
<1>8. Before \in SUBSET DOMAIN doc
  BY DEF Before, Visible
<1>9. Agree(Before, DocTexts, DocTexts') /\ DocTexts'[n] = doc[n].text
  BY <1>2, <1>3, <1>8 DEF Agree, DocTexts
<1>. QED
  BY <1>1, <1>5, <1>7, <1>9, AllVisible

\* flushParagraph, when the last paragraph is over.
LEMMA ParagraphFlushed ==
  ASSUME doc \in Seq(Paragraphs), doc # <<>>, Latest, FlagsDescribeText,
         SectionsAre(result, currentSection, Before, BeforeHeads, DocTexts),
         NEW w, Agree(Before, DocTexts, w), w[Len(doc)] = doc[Len(doc)].text
  PROVE  SectionsAre(FlushedParagraph[1], FlushedParagraph[2], WithLast(Before), WithLastHead(BeforeHeads), w)
<1>1. PICK n, par, t : n = Len(doc) /\ par = doc[n] /\ t = par.text
  OBVIOUS
<1>2. /\ paragraphText = t /\ w[n] = t
      /\ looksLikeManualTocRow(paragraphText, paragraphHasDotLeaderTab) <=> RowOf(par)
  BY <1>1 DEF Latest, RowOf
<1>3. (/\ paragraphHasLetter /\ paragraphHasCyrillic
       /\ isHeadingParagraph(paragraphText, paragraphStyle, paragraphHasTocBookmark, paragraphIsUpperCase))
        <=> HeadingOf(par)
  <2>1. /\ paragraphStyle = par.style /\ paragraphText = par.text
        /\ paragraphHasTocBookmark <=> par.bookmark \/ par.behind
    BY <1>1 DEF Latest
  <2>2. /\ paragraphHasLetter /\ paragraphHasCyrillic <=> Has(par.text, Cyrillic)
        /\ paragraphIsUpperCase <=> ~Has(par.text, (Letters \ Upper) \cup Symbols)
    BY <2>1 DEF FlagsDescribeText
  <2>. QED
    BY <2>1, <2>2 DEF HeadingOf, isHeadingParagraph
<1>4. FlushedParagraph = Accepted(t, HeadingOf(par), RowOf(par))
  BY <1>2, <1>3 DEF FlushedParagraph, Accepted
<1>5. IsCutBy(Before, BeforeHeads) /\ Titled(BeforeHeads, DocTexts) /\ Beyond(Before, n)
  BY <1>1, DocCut
<1>6. /\ WithLast(Before) = IF t # <<>> /\ ~RowOf(par) THEN Before \cup {n} ELSE Before
      /\ WithLastHead(BeforeHeads)
           = IF t # <<>> /\ ~RowOf(par) /\ HeadingOf(par) THEN BeforeHeads \cup {n} ELSE BeforeHeads
  BY <1>1 DEF WithLast, WithLastHead, Stays
<1>. PICK r, s, v, K, H : /\ r = result /\ s = currentSection /\ v = DocTexts
                          /\ K = Before /\ H = BeforeHeads
  OBVIOUS
<1>9. SectionsAre(r, s, K, H, v) /\ IsCutBy(K, H) /\ Beyond(K, n) /\ Titled(H, v) /\ Agree(K, v, w) /\ w[n] = t
  BY <1>2, <1>5
<1>10. CASE t # <<>> /\ ~RowOf(par) /\ HeadingOf(par)
  <2>1. FlushedParagraph = <<Flushed(r, s), NewSection(t)>>
    BY <1>4, <1>10 DEF Accepted, StartSection
  <2>2. SectionsAre(Flushed(r, s), NewSection(w[n]), K \cup {n}, H \cup {n}, w)
    BY <1>9, CutHead
  <2>. QED
    BY <1>6, <1>9, <1>10, <2>1, <2>2
<1>11. CASE t # <<>> /\ ~RowOf(par) /\ ~HeadingOf(par)
  <2>1. SectionsAre(r, IF H = {} THEN s ELSE WithLine(s, w[n]), K \cup {n}, H, w)
    BY <1>9, CutLine
  <2>2. s.title = <<>> <=> H = {}
    BY <1>9, FlushedIsCut
  <2>3. H # {} => [s EXCEPT !.text = Append(@, t)] = WithLine(s, t)
    BY <1>9, LastSection
  <2>4. FlushedParagraph = <<r, IF H = {} THEN s ELSE WithLine(s, t)>>
    BY <1>4, <1>11, <2>2, <2>3 DEF Accepted, Extended, sections
  <2>. QED
    BY <1>6, <1>9, <1>11, <2>1, <2>4
<1>12. CASE t = <<>> \/ RowOf(par)
  <2>1. FlushedParagraph = <<r, s>>
    BY <1>4, <1>12 DEF Accepted, sections
  <2>2. SectionsAre(r, s, K, H, w)
    BY <1>9, LeftOut
  <2>. QED
    BY <1>6, <1>12, <2>1, <2>2
<1>. QED
  BY <1>10, <1>11, <1>12

\* The steps of the walker.
LEMMA LastOpen ==
  ASSUME DocType, open # <<>>, NEW O, O = [par : 1 .. Len(doc), run : Runs], NEW k, k = Len(open)
  PROVE  /\ open \in Seq(O) /\ k \in Nat /\ k > 0 /\ DOMAIN open = 1 .. k
         /\ \A i \in 1 .. k : open[i] \in O /\ open[i].par \in 1 .. Len(doc) /\ open[i].run \in Runs
         /\ Last(open) = open[k] /\ k \in 1 .. k
         /\ Len(doc) \in Nat /\ Len(doc) > 0 /\ DOMAIN doc = 1 .. Len(doc)
<1>1. open \in Seq(O)
  BY DEF DocType
<1>2. k \in Nat /\ k > 0 /\ DOMAIN open = 1 .. k /\ k \in 1 .. k
  BY <1>1
<1>3. \A i \in 1 .. k : open[i] \in O
  BY ONLY <1>1, <1>2, k = Len(open)
<1>4. \A i \in 1 .. k : open[i].par \in 1 .. Len(doc) /\ open[i].run \in Runs
  BY <1>3
<1>5. Last(open) = open[k]
  BY DEF Last
<1>6. doc \in Seq(Paragraphs)
  BY DEF DocType
<1>7. Len(doc) \in Nat /\ DOMAIN doc = 1 .. Len(doc)
  BY <1>6
<1>8. Len(doc) > 0
  BY <1>2, <1>4, <1>7
<1>. QED
  BY <1>1, <1>2, <1>3, <1>4, <1>5, <1>7, <1>8

LEMMA RunOpened ==
  ASSUME DocType, OpenInOrder, open # <<>>, NEW run \in Runs, open' = [open EXCEPT ![Len(open)].run = run]
  PROVE  /\ open' \in Seq([par : 1 .. Len(doc), run : Runs]) /\ OpenInOrder' /\ open' # <<>>
         /\ Last(open').par = Last(open).par /\ Last(open').run = run
<1>1. PICK k : k = Len(open)
  OBVIOUS
<1>2. PICK O : O = [par : 1 .. Len(doc), run : Runs]
  OBVIOUS
<1>3. open \in Seq(O) /\ k \in Nat /\ k > 0 /\ DOMAIN open = 1 .. k /\ open[k] \in O
  BY <1>1, <1>2, LastOpen
<1>4. PICK q : q = [open[k] EXCEPT !.run = run]
  OBVIOUS
<1>5. q \in O /\ q.par = open[k].par /\ q.run = run
  BY <1>2, <1>3, <1>4
<1>6. open' = [open EXCEPT ![k] = q]
  BY <1>1, <1>4
<1>7. open' \in Seq(O) /\ Len(open') = k /\ DOMAIN open' = 1 .. k /\ open'[k] = q
  BY <1>3, <1>5, <1>6
<1>8. \A i \in 1 .. k : open'[i].par = open[i].par
  BY <1>3, <1>5, <1>6
<1>9. OpenInOrder'
  BY <1>3, <1>7, <1>8 DEF OpenInOrder
<1>10. Last(open') = q /\ Last(open) = open[k]
  BY <1>1, <1>7 DEF Last
<1>. QED
  BY <1>2, <1>3, <1>5, <1>7, <1>9, <1>10

LEMMA RunStep ==
  ASSUME WalkerInv, ~done, type' = type, open # <<>>, NEW run \in Runs,
         open' = [open EXCEPT ![Len(open)].run = run], skipCurrentRunText' \in BOOLEAN,
         run # "none" => (skipCurrentRunText' <=> run = "code"),
         UNCHANGED <<config, sections, paragraph, doc, toc, resumed, hidden, done>>
  PROVE  WalkerInv'
<1>1. /\ open' \in Seq([par : 1 .. Len(doc), run : Runs]) /\ OpenInOrder' /\ open' # <<>>
      /\ Last(open').par = Last(open).par /\ Last(open').run = run
  BY RunOpened DEF WalkerInv
<1>2. /\ doc' = doc /\ config' = config /\ result' = result /\ currentSection' = currentSection
      /\ paragraphText' = paragraphText /\ paragraphStyle' = paragraphStyle
      /\ paragraphHasLetter' = paragraphHasLetter /\ paragraphHasCyrillic' = paragraphHasCyrillic
      /\ paragraphIsUpperCase' = paragraphIsUpperCase /\ paragraphHasTocBookmark' = paragraphHasTocBookmark
      /\ paragraphHasDotLeaderTab' = paragraphHasDotLeaderTab
      /\ toc' = toc /\ resumed' = resumed /\ hidden' = hidden /\ done' = done
  BY DEF sections, paragraph
<1>3. DocType'
  BY <1>1, <1>2 DEF WalkerInv, DocType
<1>4. FlagsDescribeText' <=> FlagsDescribeText
  BY <1>2 DEF FlagsDescribeText
<1>5. ASSUME Followed PROVE Followed'
  <2>1. Latest'
    BY <1>2, <1>5 DEF Followed, Latest
  <2>2. SkipsCode'
    BY <1>1 DEF SkipsCode
  <2>3. SectionsAre(result, currentSection, Before, BeforeHeads, DocTexts)
    BY <1>5 DEF Followed
  <2>4. SectionsAre(result', currentSection', Before', BeforeHeads', DocTexts')
    BY <1>2, <2>3, SameDoc
  <2>. QED
    BY <1>2, <2>1, <2>2, <2>4 DEF Followed
<1>. QED
  BY <1>1, <1>2, <1>3, <1>4, <1>5 DEF WalkerInv

\* The font of a w:sdt between paragraphs is forgotten at the next w:p.
LEMMA FontBetweenStep ==
  ASSUME WalkerInv, ~done, type' = type, VisitCourierFont, open = <<>>
  PROVE  WalkerInv'
<1>1. /\ doc' = doc /\ config' = config /\ result' = result /\ currentSection' = currentSection
      /\ paragraphText' = paragraphText /\ paragraphStyle' = paragraphStyle
      /\ paragraphHasLetter' = paragraphHasLetter /\ paragraphHasCyrillic' = paragraphHasCyrillic
      /\ paragraphIsUpperCase' = paragraphIsUpperCase /\ paragraphHasTocBookmark' = paragraphHasTocBookmark
      /\ paragraphHasDotLeaderTab' = paragraphHasDotLeaderTab /\ skipCurrentRunText' = TRUE
      /\ open' = open /\ toc' = toc /\ resumed' = resumed /\ hidden' = hidden /\ done' = done
  BY DEF VisitCourierFont, sections, paragraph
<1>2. DocType' /\ OpenInOrder' /\ (FlagsDescribeText' <=> FlagsDescribeText)
  BY <1>1 DEF WalkerInv, DocType, OpenInOrder, FlagsDescribeText
<1>3. ASSUME Followed PROVE Followed'
  <2>1. Latest' /\ SkipsCode'
    BY <1>1, <1>3 DEF Followed, Latest, SkipsCode
  <2>2. SectionsAre(result, currentSection, Before, BeforeHeads, DocTexts)
    BY <1>3 DEF Followed
  <2>3. SectionsAre(result', currentSection', Before', BeforeHeads', DocTexts')
    BY <1>1, <2>2, SameDoc
  <2>. QED
    BY <1>1, <2>1, <2>3 DEF Followed
<1>. QED
  BY <1>1, <1>2, <1>3 DEF WalkerInv

LEMMA RunsKeepInv ==
  ASSUME WalkerInv, ~done, type' = type, VisitRun \/ VisitCourierFont
  PROVE  WalkerInv'
<1>1. CASE VisitRun
  <2>1. "text" \in Runs
    BY DEF Runs
  <2>. QED
    BY <1>1, <2>1, RunStep DEF VisitRun
<1>2. CASE VisitCourierFont /\ open # <<>>
  <2>1. PICK run : run = IF open[Len(open)].run = "text" THEN "code" ELSE open[Len(open)].run
    OBVIOUS
  <2>2. open[Len(open)].run \in Runs
    BY <1>2, LastOpen DEF WalkerInv
  <2>3. run \in Runs /\ (run # "none" => run = "code")
    BY <2>1, <2>2 DEF Runs
  <2>4. open' = [open EXCEPT ![Len(open)].run = run]
    BY <1>2, <2>1 DEF VisitCourierFont
  <2>. QED
    BY <1>2, <2>3, <2>4, RunStep DEF VisitCourierFont
<1>3. CASE VisitCourierFont /\ open = <<>>
  BY <1>3, FontBetweenStep
<1>. QED
  BY <1>1, <1>2, <1>3

LEMMA CloseStep ==
  ASSUME WalkerInv, ~done, type' = type, CloseParagraph \/ EnterOrLeaveTableOfContents
  PROVE  WalkerInv'
<1>1. /\ doc' = doc /\ config' = config /\ result' = result /\ currentSection' = currentSection
      /\ paragraphText' = paragraphText /\ paragraphStyle' = paragraphStyle
      /\ paragraphHasLetter' = paragraphHasLetter /\ paragraphHasCyrillic' = paragraphHasCyrillic
      /\ paragraphIsUpperCase' = paragraphIsUpperCase /\ paragraphHasTocBookmark' = paragraphHasTocBookmark
      /\ paragraphHasDotLeaderTab' = paragraphHasDotLeaderTab
      /\ skipCurrentRunText' = skipCurrentRunText /\ resumed' = resumed /\ hidden' = hidden /\ done' = done
  BY DEF CloseParagraph, EnterOrLeaveTableOfContents, sections, paragraph
<1>2. /\ open' \in Seq([par : 1 .. Len(doc), run : Runs]) /\ OpenInOrder' /\ toc' \in BOOLEAN
      /\ open' # <<>> => Last(open').par # Len(doc)
  <2>1. CASE EnterOrLeaveTableOfContents
    BY <2>1 DEF EnterOrLeaveTableOfContents, WalkerInv, DocType, OpenInOrder
  <2>2. CASE CloseParagraph
    <3>1. PICK k : k = Len(open)
      OBVIOUS
    <3>2. PICK O : O = [par : 1 .. Len(doc), run : Runs]
      OBVIOUS
    <3>3. /\ open \in Seq(O) /\ k \in Nat /\ k > 0 /\ DOMAIN open = 1 .. k
          /\ \A i \in 1 .. k : open[i].par \in 1 .. Len(doc)
          /\ Len(doc) \in Nat
      BY <2>2, <3>1, <3>2, LastOpen DEF CloseParagraph, WalkerInv
    <3>4. open' = SubSeq(open, 1, k - 1)
      BY <2>2, <3>1 DEF CloseParagraph, Front
    <3>5. open' \in Seq(O) /\ Len(open') = k - 1 /\ DOMAIN open' = 1 .. k - 1
      BY <3>3, <3>4
    <3>6. \A i \in 1 .. k - 1 : open'[i] = open[i]
      BY <3>3, <3>4
    <3>7. OpenInOrder'
      BY <3>3, <3>5, <3>6 DEF OpenInOrder, WalkerInv
    <3>8. ASSUME open' # <<>> PROVE Last(open').par # Len(doc)
      <4>1. k - 1 \in 1 .. k - 1 /\ k - 1 < k
        BY <3>3, <3>5, <3>8
      <4>2. Last(open') = open[k - 1]
        BY <3>5, <3>6, <4>1 DEF Last
      <4>3. open[k - 1].par < open[k].par
        BY <3>3, <4>1 DEF OpenInOrder, WalkerInv
      <4>4. open[k].par \in 1 .. Len(doc) /\ open[k - 1].par \in 1 .. Len(doc) /\ Len(doc) \in Nat
        BY <3>3, <4>1
      <4>. QED
        BY <4>2, <4>3, <4>4
    <3>9. toc' = toc
      BY <2>2 DEF CloseParagraph
    <3>. QED
      BY <3>2, <3>5, <3>7, <3>8, <3>9 DEF WalkerInv, DocType
  <2>. QED
    BY <2>1, <2>2
<1>3. DocType'
  BY <1>1, <1>2 DEF WalkerInv, DocType
<1>4. FlagsDescribeText' <=> FlagsDescribeText
  BY <1>1 DEF FlagsDescribeText
<1>5. ASSUME Followed PROVE Followed'
  <2>1. Latest'
    BY <1>1, <1>5 DEF Followed, Latest
  <2>2. SkipsCode'
    BY <1>1, <1>2 DEF SkipsCode
  <2>3. SectionsAre(result, currentSection, Before, BeforeHeads, DocTexts)
    BY <1>5 DEF Followed
  <2>4. SectionsAre(result', currentSection', Before', BeforeHeads', DocTexts')
    BY <1>1, <2>3, SameDoc
  <2>. QED
    BY <1>1, <2>1, <2>2, <2>4 DEF Followed
<1>. QED
  BY <1>1, <1>2, <1>3, <1>4, <1>5 DEF WalkerInv

\* What the last open paragraph is given goes to the place it has in doc.
LEMMA ParagraphChanged ==
  ASSUME DocType, open # <<>>, NEW l, l = Last(open).par, NEW p \in Paragraphs, doc' = [doc EXCEPT ![l] = p]
  PROVE  l \in 1 .. Len(doc) /\ doc' \in Seq(Paragraphs) /\ Len(doc') = Len(doc) /\ doc'[l] = p
<1>1. PICK O, k : O = [par : 1 .. Len(doc), run : Runs] /\ k = Len(open)
  OBVIOUS
<1>2. l \in 1 .. Len(doc)
  BY <1>1, LastOpen
<1>3. doc \in Seq(Paragraphs)
  BY DEF DocType
<1>. QED
  BY ONLY <1>2, <1>3, p \in Paragraphs, doc' = [doc EXCEPT ![l] = p]

LEMMA LastParagraph ==
  ASSUME DocType, open # <<>>
  PROVE  /\ Last(open).par \in 1 .. Len(doc) /\ Last(open).run \in Runs
         /\ Len(doc) \in Nat /\ Len(doc) > 0 /\ doc # <<>>
         /\ \A i \in 1 .. Len(doc) : doc[i] \in Paragraphs
<1>1. PICK O, k : O = [par : 1 .. Len(doc), run : Runs] /\ k = Len(open)
  OBVIOUS
<1>2. /\ Last(open).par \in 1 .. Len(doc) /\ Last(open).run \in Runs
      /\ Len(doc) \in Nat /\ Len(doc) > 0
  BY <1>1, LastOpen
<1>3. doc \in Seq(Paragraphs)
  BY DEF DocType
<1>4. \A i \in 1 .. Len(doc) : doc[i] \in Paragraphs
  BY <1>3
<1>. QED
  BY <1>2, <1>4

\* A bookmark that begins in paragraph l or behind it.
Marked(par) == par.bookmark \/ par.behind
LEMMA BookmarkOf ==
  ASSUME WalkerInv, ~done, type' = type, VisitTocBookmark, NEW n, n = Len(doc), NEW l \in 1 .. n, n \in Nat, n > 0,
         NEW p \in Paragraphs, doc' = [doc EXCEPT ![l] = p],
         resumed' \in BOOLEAN, ~resumed' => l = n /\ ~resumed,
         p.text = doc[l].text, p.style = doc[l].style, p.leader = doc[l].leader,
         Marked(p) <=> Marked(doc[l]) \/ ~toc
  PROVE  WalkerInv'
<1>0. DocType /\ doc \in Seq(Paragraphs) /\ doc # <<>>
  BY DEF WalkerInv, DocType
<1>5. /\ paragraphHasTocBookmark' = (paragraphHasTocBookmark \/ ~toc)
      /\ config' = config /\ result' = result /\ currentSection' = currentSection
      /\ paragraphText' = paragraphText /\ paragraphStyle' = paragraphStyle
      /\ paragraphHasLetter' = paragraphHasLetter /\ paragraphHasCyrillic' = paragraphHasCyrillic
      /\ paragraphIsUpperCase' = paragraphIsUpperCase
      /\ paragraphHasDotLeaderTab' = paragraphHasDotLeaderTab
      /\ skipCurrentRunText' = skipCurrentRunText /\ open' = open /\ toc' = toc
      /\ hidden' = hidden /\ done' = done
  BY DEF VisitTocBookmark, sections
<1>6. doc' \in Seq(Paragraphs) /\ Len(doc') = n /\ doc'[l] = p
  BY <1>0
<1>7. DocType'
  <2>1. open' \in Seq([par : 1 .. Len(doc'), run : Runs])
    BY <1>0, <1>5, <1>6 DEF DocType
  <2>2. /\ {paragraphHasTocBookmark', skipCurrentRunText'} \in SUBSET BOOLEAN
        /\ {toc', resumed', hidden', done'} \in SUBSET BOOLEAN
    BY <1>0, <1>5 DEF DocType
  <2>. QED
    BY <1>0, <1>5, <1>6, <2>1, <2>2 DEF DocType
<1>8. OpenInOrder'
  BY <1>5 DEF WalkerInv, OpenInOrder
<1>9. FlagsDescribeText' <=> FlagsDescribeText
  BY <1>5 DEF FlagsDescribeText
<1>10. ASSUME Followed, ~resumed' PROVE Followed'
  <2>1. l = n /\ ~resumed
    BY <1>10
  <2>2. doc' # <<>>
    BY <1>6
  <2>3. /\ paragraphText = doc[n].text /\ paragraphStyle = doc[n].style
        /\ paragraphHasDotLeaderTab = doc[n].leader
        /\ paragraphHasTocBookmark <=> doc[n].bookmark \/ doc[n].behind
    BY <1>0, <1>10 DEF Followed, Latest
  <2>4. Latest'
    BY <1>5, <1>6, <2>1, <2>2, <2>3 DEF Latest, Marked
  <2>5. SkipsCode'
    BY <1>5, <1>6, <1>10 DEF Followed, SkipsCode
  <2>6. Before' = Before /\ BeforeHeads' = BeforeHeads /\ Agree(Before, DocTexts, DocTexts')
    BY <1>0, <1>5, <2>1, LastChanged DEF DocType
  <2>7. SectionsAre(result, currentSection, Before, BeforeHeads, DocTexts) /\ IsCutBy(Before, BeforeHeads)
    BY <1>0, <1>10, DocCut DEF Followed, DocType
  <2>8. SectionsAre(result', currentSection', Before', BeforeHeads', DocTexts')
    <3>. PICK r, s, v, w, K, H : /\ r = result /\ s = currentSection /\ v = DocTexts /\ w = DocTexts'
                                 /\ K = Before /\ H = BeforeHeads
      OBVIOUS
    <3>1. SectionsAre(r, s, K, H, w)
      BY <2>6, <2>7, LeftOut
    <3>. QED
      BY <1>5, <2>6, <3>1
  <2>. QED
    BY <1>5, <2>4, <2>5, <2>8 DEF Followed
<1>. QED
  BY <1>5, <1>7, <1>8, <1>9, <1>10 DEF WalkerInv

LEMMA BookmarkInStep ==
  ASSUME WalkerInv, ~done, type' = type, VisitTocBookmark, BookmarkInParagraph
  PROVE  WalkerInv'
<1>0. open # <<>> /\ DocType
  BY DEF BookmarkInParagraph, WalkerInv
<1>1. PICK l, n : l = Last(open).par /\ n = Len(doc)
  OBVIOUS
<1>2. PICK p : p = [doc[l] EXCEPT !.bookmark = @ \/ ~toc]
  OBVIOUS
<1>3. l \in 1 .. n /\ n \in Nat /\ n > 0 /\ doc[l] \in Paragraphs
  BY <1>0, <1>1, LastParagraph
<1>4. /\ p \in Paragraphs /\ p.text = doc[l].text /\ p.style = doc[l].style /\ p.leader = doc[l].leader
      /\ p.bookmark = (doc[l].bookmark \/ ~toc) /\ p.behind = doc[l].behind
  BY <1>2, <1>3 DEF Paragraphs
<1>5. doc' = [doc EXCEPT ![l] = p] /\ resumed' = (resumed \/ l # n)
  BY <1>1, <1>2 DEF BookmarkInParagraph, Resume
<1>6. /\ Marked(p) <=> Marked(doc[l]) \/ ~toc
      /\ resumed' \in BOOLEAN /\ (~resumed' => l = n /\ ~resumed)
  BY <1>0, <1>4, <1>5 DEF Marked, DocType
<1>. QED
  <2>1. l \in 1 .. n /\ n \in Nat /\ n > 0 /\ n = Len(doc) /\ p \in Paragraphs
    BY <1>1, <1>3, <1>4
  <2>2. p.text = doc[l].text /\ p.style = doc[l].style /\ p.leader = doc[l].leader
    BY <1>4
  <2>. QED
    BY ONLY <1>5, <1>6, <2>1, <2>2, WalkerInv, ~done, type' = type, VisitTocBookmark, BookmarkOf

LEMMA BookmarkBetweenStep ==
  ASSUME WalkerInv, ~done, type' = type, VisitTocBookmark, BookmarkBetween
  PROVE  WalkerInv'
<1>0. open = <<>> /\ DocType /\ doc \in Seq(Paragraphs)
  BY DEF BookmarkBetween, WalkerInv, DocType
<1>1. PICK n : n = Len(doc)
  OBVIOUS
<1>2. PICK p : p = [doc[n] EXCEPT !.behind = @ \/ ~toc]
  OBVIOUS
<1>3. n \in Nat /\ DOMAIN doc = 1 .. n
  BY <1>0, <1>1
<1>4. doc' = [i \in 1 .. n |-> IF i = n THEN p ELSE doc[i]] /\ resumed' = resumed
  BY <1>1, <1>2, <1>3 DEF BookmarkBetween
<1>5. CASE doc # <<>>
  <2>0. n > 0
    BY <1>0, <1>1, <1>5
  <2>1. doc[n] \in Paragraphs /\ n \in 1 .. n
    BY <1>0, <1>3, <2>0
  <2>2. /\ p \in Paragraphs /\ p.text = doc[n].text /\ p.style = doc[n].style /\ p.leader = doc[n].leader
        /\ p.bookmark = doc[n].bookmark /\ p.behind = (doc[n].behind \/ ~toc)
    BY <1>2, <2>1 DEF Paragraphs
  <2>3. doc' = [doc EXCEPT ![n] = p]
    <3>1. doc = [i \in 1 .. n |-> doc[i]]
      BY <1>0, <1>1
    <3>. QED
      BY <1>3, <1>4, <3>1
  <2>4. resumed' \in BOOLEAN /\ (~resumed' => n = n /\ ~resumed)
    BY <1>0, <1>4 DEF DocType
  <2>5. Marked(p) <=> Marked(doc[n]) \/ ~toc
    BY <2>2 DEF Marked
  <2>. QED
    BY ONLY <1>1, <1>3, <2>0, <2>1, <2>2, <2>3, <2>4, <2>5, WalkerInv, ~done, type' = type, VisitTocBookmark,
            BookmarkOf
<1>6. CASE doc = <<>>
  <2>1. doc = <<>> /\ doc' = <<>>
    <3>1. doc = <<>> /\ n = 0
      BY <1>1, <1>6
    <3>2. 1 .. n = {}
      BY <3>1
    <3>3. doc' = [i \in {} |-> doc[i]] /\ doc = [i \in {} |-> doc[i]]
      BY <1>0, <1>3, <1>4, <3>2
    <3>. QED
      BY <3>1, <3>3
  <2>2. /\ config' = config /\ result' = result /\ currentSection' = currentSection
        /\ paragraphText' = paragraphText /\ paragraphStyle' = paragraphStyle
        /\ paragraphHasLetter' = paragraphHasLetter /\ paragraphHasCyrillic' = paragraphHasCyrillic
        /\ paragraphIsUpperCase' = paragraphIsUpperCase
        /\ paragraphHasTocBookmark' = (paragraphHasTocBookmark \/ ~toc)
        /\ skipCurrentRunText' = skipCurrentRunText /\ open' = open /\ toc' = toc
        /\ resumed' = resumed /\ hidden' = hidden /\ done' = done /\ doc' = doc
    BY <1>4, <2>1 DEF VisitTocBookmark, sections
  <2>3. DocType'
    <3>1. {paragraphHasTocBookmark', skipCurrentRunText', toc', resumed', hidden', done'} \in SUBSET BOOLEAN
      BY <1>0, <2>2 DEF DocType
    <3>. QED
      BY <1>0, <2>2, <3>1 DEF DocType
  <2>4. OpenInOrder' /\ (FlagsDescribeText' <=> FlagsDescribeText)
    BY <2>2 DEF WalkerInv, OpenInOrder, FlagsDescribeText
  <2>5. ASSUME Followed PROVE Followed'
    <3>1. Latest'
      BY <2>1, <2>2, <2>5 DEF Followed, Latest
    <3>2. SkipsCode'
      BY <1>0, <2>2 DEF SkipsCode
    <3>3. SectionsAre(result, currentSection, Before, BeforeHeads, DocTexts)
      BY <2>5 DEF Followed
    <3>4. SectionsAre(result', currentSection', Before', BeforeHeads', DocTexts')
      BY <2>2, <3>3, SameDoc
    <3>. QED
      BY <2>2, <3>1, <3>2, <3>4 DEF Followed
  <2>. QED
    BY <2>2, <2>3, <2>4, <2>5 DEF WalkerInv
<1>. QED
  BY <1>5, <1>6

LEMMA BookmarkStep ==
  ASSUME WalkerInv, ~done, type' = type, VisitTocBookmark
  PROVE  WalkerInv'
  BY BookmarkInStep, BookmarkBetweenStep DEF VisitTocBookmark

LEMMA TextStep ==
  ASSUME WalkerInv, ~done, type' = type, NEW text \in Text, VisitText(text)
  PROVE  WalkerInv'
<1>0. open # <<>> /\ DocType
  BY DEF VisitText, WalkerInv
<1>1. PICK l, n : l = Last(open).par /\ n = Len(doc)
  OBVIOUS
<1>2. PICK p : p = [doc[l] EXCEPT !.text = @ \o text]
  OBVIOUS
<1>3. /\ l \in 1 .. n /\ n \in Nat /\ n > 0 /\ doc # <<>> /\ doc[l] \in Paragraphs
      /\ Last(open).run \in {"text", "code"}
  <2>1. Last(open).run \in Runs /\ Last(open).run # "none"
    BY <1>0, LastParagraph DEF VisitText
  <2>2. Last(open).run \in {"text", "code"}
    BY <2>1 DEF Runs
  <2>. QED
    BY <1>0, <1>1, <2>2, LastParagraph
<1>4. /\ p \in Paragraphs /\ p.text = doc[l].text \o text /\ p.style = doc[l].style
      /\ p.leader = doc[l].leader /\ p.bookmark = doc[l].bookmark /\ p.behind = doc[l].behind
  <2>1. doc[l].text \o text \in Text
    BY <1>3, HasConcat DEF Paragraphs
  <2>. QED
    BY <1>2, <1>3, <2>1 DEF Paragraphs
<1>5. /\ doc' = IF Last(open).run = "text" /\ ~toc THEN [doc EXCEPT ![l] = p] ELSE doc
      /\ paragraphText' = IF Taken THEN paragraphText \o text ELSE paragraphText
      /\ paragraphHasLetter' = (paragraphHasLetter \/ (Taken /\ HasLetter(text)))
      /\ paragraphHasCyrillic' = (paragraphHasCyrillic \/ (Taken /\ HasCyrillic(text)))
      /\ paragraphIsUpperCase' = (paragraphIsUpperCase /\ (Taken => IsUpperCaseCompatible(text)))
      /\ resumed' = (resumed \/ l # n) /\ hidden' = (hidden \/ (Taken /\ ~Shows(text)))
      /\ config' = config /\ result' = result /\ currentSection' = currentSection
      /\ paragraphStyle' = paragraphStyle /\ paragraphHasTocBookmark' = paragraphHasTocBookmark
      /\ paragraphHasDotLeaderTab' = paragraphHasDotLeaderTab
      /\ skipCurrentRunText' = skipCurrentRunText /\ open' = open /\ toc' = toc /\ done' = done
  BY <1>1, <1>2 DEF VisitText, Resume, sections
<1>6. doc' \in Seq(Paragraphs) /\ Len(doc') = n
  <2>1. CASE Last(open).run = "text" /\ ~toc
    BY <1>0, <1>1, <1>4, <1>5, <2>1, ParagraphChanged
  <2>2. CASE ~(Last(open).run = "text" /\ ~toc)
    BY <1>0, <1>1, <1>5, <2>2 DEF DocType
  <2>. QED
    BY <2>1, <2>2
<1>7. paragraphText \o text \in Text /\ \A S : Has(paragraphText \o text, S) <=> Has(paragraphText, S) \/ Has(text, S)
  BY <1>0, HasConcat DEF DocType
<1>8. DocType'
  <2>1. open' \in Seq([par : 1 .. Len(doc'), run : Runs])
    BY <1>0, <1>1, <1>5, <1>6 DEF DocType
  <2>2. paragraphText' \in Text
    BY <1>0, <1>5, <1>7 DEF DocType
  <2>. QED
    BY <1>0, <1>5, <1>6, <2>1, <2>2 DEF DocType
<1>9. OpenInOrder'
  BY <1>5 DEF WalkerInv, OpenInOrder
<1>10. ASSUME ~hidden' PROVE FlagsDescribeText'
  <2>1. FlagsDescribeText
    BY <1>5, <1>10 DEF WalkerInv
  <2>2. CASE Taken
    <3>1. Shows(text)
      BY <1>5, <1>10, <2>2
    <3>2. /\ HasCyrillic(text) <=> Has(text, Cyrillic)
          /\ HasCyrillic(text) => HasLetter(text)
          /\ IsUpperCaseCompatible(text) <=> ~Has(text, (Letters \ Upper) \cup Symbols)
      BY <3>1, CheckedAll, CheckedSome DEF Shows, Stops
    <3>3. paragraphText' = paragraphText \o text
      BY <1>5, <2>2
    <3>4. /\ Has(paragraphText', Cyrillic) <=> Has(paragraphText, Cyrillic) \/ Has(text, Cyrillic)
          /\ Has(paragraphText', (Letters \ Upper) \cup Symbols)
               <=> \/ Has(paragraphText, (Letters \ Upper) \cup Symbols)
                   \/ Has(text, (Letters \ Upper) \cup Symbols)
      BY <1>7, <3>3
    <3>. QED
      BY <1>5, <2>1, <2>2, <3>2, <3>4 DEF FlagsDescribeText
  <2>3. CASE ~Taken
    <3>1. /\ paragraphText' = paragraphText
          /\ paragraphHasLetter' <=> paragraphHasLetter
          /\ paragraphHasCyrillic' <=> paragraphHasCyrillic
          /\ paragraphIsUpperCase' <=> paragraphIsUpperCase
      BY <1>5, <2>3
    <3>. QED
      BY <2>1, <3>1 DEF FlagsDescribeText
  <2>. QED
    BY <2>2, <2>3
<1>11. ASSUME Followed, ~resumed' PROVE Followed'
  <2>1. l = n
    BY <1>5, <1>11
  <2>2. doc' # <<>>
    BY <1>3, <1>6
  <2>3. /\ paragraphText = doc[n].text /\ paragraphStyle = doc[n].style
        /\ paragraphHasDotLeaderTab = doc[n].leader
        /\ paragraphHasTocBookmark <=> doc[n].bookmark \/ doc[n].behind
    BY <1>1, <1>3, <1>11 DEF Followed, Latest
  <2>4. Taken <=> Last(open).run = "text" /\ ~toc
    <3>1. skipCurrentRunText <=> Last(open).run = "code"
      BY <1>0, <1>1, <1>3, <1>11, <2>1 DEF Followed, SkipsCode
    <3>2. Last(open).run = "code" <=> Last(open).run # "text"
      BY <1>3
    <3>. QED
      BY ONLY <3>1, <3>2 DEF Taken
  <2>5. Latest'
    <3>1. CASE Taken
      <4>0. doc' = [doc EXCEPT ![l] = p]
        BY ONLY <1>5, <2>4, <3>1
      <4>1. doc'[n] = p
        BY ONLY <1>0, <1>1, <1>4, <2>1, <4>0, ParagraphChanged
      <4>2. paragraphText' = p.text
        BY <1>4, <1>5, <2>1, <2>3, <3>1
      <4>. QED
        BY <1>4, <1>5, <1>6, <2>1, <2>2, <2>3, <4>1, <4>2 DEF Latest
    <3>2. CASE ~Taken
      <4>1. doc' = doc /\ paragraphText' = paragraphText
        BY <1>5, <2>4, <3>2
      <4>. QED
        BY <1>1, <1>3, <1>5, <2>3, <4>1 DEF Latest
    <3>. QED
      BY <3>1, <3>2
  <2>6. SkipsCode'
    BY <1>1, <1>5, <1>6, <1>11 DEF Followed, SkipsCode
  <2>7. Before' = Before /\ BeforeHeads' = BeforeHeads /\ Agree(Before, DocTexts, DocTexts')
    <3>1. CASE Last(open).run = "text" /\ ~toc
      BY <1>0, <1>1, <1>5, <2>1, <3>1, LastChanged DEF DocType
    <3>2. CASE ~(Last(open).run = "text" /\ ~toc)
      BY <1>5, <3>2, SameDoc DEF Agree
    <3>. QED
      BY <3>1, <3>2
  <2>8. SectionsAre(result, currentSection, Before, BeforeHeads, DocTexts) /\ IsCutBy(Before, BeforeHeads)
    BY <1>0, <1>11, DocCut DEF Followed, DocType
  <2>9. SectionsAre(result', currentSection', Before', BeforeHeads', DocTexts')
    <3>. PICK r, s, v, w, K, H : /\ r = result /\ s = currentSection /\ v = DocTexts /\ w = DocTexts'
                                 /\ K = Before /\ H = BeforeHeads
      OBVIOUS
    <3>1. SectionsAre(r, s, K, H, w)
      BY <2>7, <2>8, LeftOut
    <3>. QED
      BY <1>5, <2>7, <3>1
  <2>. QED
    BY <1>5, <2>5, <2>6, <2>9 DEF Followed
<1>. QED
  BY <1>5, <1>8, <1>9, <1>10, <1>11 DEF WalkerInv

LEMMA OpenPushed ==
  ASSUME DocType, OpenInOrder, NEW n, n = Len(doc), NEW doc1, Len(doc1) = n + 1,
         NEW q, q = [par |-> n + 1, run |-> "none"], open' = Append(open, q)
  PROVE  /\ open' \in Seq([par : 1 .. Len(doc1), run : Runs]) /\ OpenInOrder'
         /\ Last(open') = q
<1>1. doc \in Seq(Paragraphs) /\ open \in Seq([par : 1 .. n, run : Runs])
  BY DEF DocType
<1>2. n \in Nat
  BY <1>1
<1>3. PICK O : O = [par : 1 .. n + 1, run : Runs]
  OBVIOUS
<1>4. PICK P : P = [par : 1 .. n, run : Runs]
  OBVIOUS
<1>5. open \in Seq(O) /\ q \in O
  <2>1. q \in O
    BY <1>2, <1>3 DEF Runs
  <2>2. P \in SUBSET O /\ open \in Seq(P)
    BY <1>1, <1>2, <1>3, <1>4
  <2>3. open \in Seq(O)
    BY ONLY <2>2
  <2>. QED
    BY <2>1, <2>3
<1>6. PICK k : k = Len(open)
  OBVIOUS
<1>7. /\ k \in Nat /\ DOMAIN open = 1 .. k
      /\ open' \in Seq(O) /\ DOMAIN open' = 1 .. k + 1 /\ Len(open') = k + 1
      /\ open'[k + 1] = q /\ \A i \in 1 .. k : open'[i] = open[i]
  BY ONLY <1>5, <1>6, open' = Append(open, q)
<1>8. \A i \in 1 .. k : open[i].par \in 1 .. n
  <2>1. open \in Seq(P)
    BY <1>1, <1>4
  <2>2. \A i \in 1 .. k : open[i] \in P
    BY ONLY <2>1, <1>6, <1>7
  <2>. QED
    BY <1>4, <2>2
<1>9. ASSUME NEW i \in 1 .. k + 1, NEW j \in 1 .. k + 1, i < j PROVE open'[i].par < open'[j].par
  <2>1. i \in 1 .. k
    BY <1>7, <1>9
  <2>2. CASE j = k + 1
    BY <1>2, <1>7, <1>8, <2>1, <2>2
  <2>3. CASE j # k + 1
    <3>1. j \in 1 .. k
      BY <1>7, <2>3
    <3>. QED
      BY <1>7, <1>9, <2>1, <3>1 DEF OpenInOrder
  <2>. QED
    BY <2>2, <2>3
<1>10. OpenInOrder'
  BY <1>7, <1>9 DEF OpenInOrder
<1>11. Last(open') = q
  BY <1>7 DEF Last
<1>. QED
  BY <1>2, <1>3, <1>7, <1>10, <1>11

LEMMA NoText == <<>> \in Text
  BY DEF Text

LEMMA FlagsReset ==
  ASSUME NEW style, NEW leader, ResetParagraph(style, leader)
  PROVE  FlagsDescribeText'
<1>1. paragraphText' = <<>> /\ ~paragraphHasCyrillic' /\ paragraphIsUpperCase'
  BY DEF ResetParagraph
<1>2. \A S : ~Has(paragraphText', S)
  BY <1>1 DEF Has
<1>. QED
  BY <1>1, <1>2 DEF FlagsDescribeText

LEMMA ParagraphStep ==
  ASSUME WalkerInv, ~done, type' = type, NEW style \in STRING, NEW leader \in BOOLEAN, VisitParagraph(style, leader)
  PROVE  WalkerInv'
<1>0. doc \in Seq(Paragraphs) /\ DocType /\ OpenInOrder
  BY DEF WalkerInv, DocType
<1>1. PICK n : n = Len(doc)
  OBVIOUS
<1>2. PICK p : p = [style |-> style, leader |-> leader, bookmark |-> FALSE, behind |-> FALSE, text |-> <<>>]
  OBVIOUS
<1>3. p \in Paragraphs /\ p.style = style /\ p.leader = leader /\ p.bookmark = FALSE /\ p.behind = FALSE /\ p.text = <<>>
  BY <1>2 DEF Paragraphs, Text
<1>4. /\ doc' = Append(doc, p) /\ open' = Append(open, [par |-> n + 1, run |-> "none"])
      /\ result' = FlushedParagraph[1] /\ currentSection' = FlushedParagraph[2]
      /\ ResetParagraph(style, leader)
      /\ config' = config /\ toc' = toc /\ resumed' = resumed /\ hidden' = hidden /\ done' = done
  BY <1>1, <1>2 DEF VisitParagraph, Store
<1>5. /\ n \in Nat /\ doc' \in Seq(Paragraphs) /\ Len(doc') = n + 1 /\ doc' # <<>>
      /\ doc'[n + 1] = p
  BY <1>0, <1>1, <1>3, <1>4
<1>6. /\ open' \in Seq([par : 1 .. Len(doc'), run : Runs]) /\ OpenInOrder'
      /\ Last(open').run = "none"
  <2>1. PICK q, d : q = [par |-> n + 1, run |-> "none"] /\ d = doc'
    OBVIOUS
  <2>2. open' \in Seq([par : 1 .. Len(d), run : Runs]) /\ OpenInOrder' /\ Last(open') = q
    BY <1>0, <1>1, <1>4, <1>5, <2>1, OpenPushed
  <2>. QED
    BY <2>1, <2>2
<1>7. DocType'
  <2>1. paragraphText' \in Text /\ {paragraphHasLetter', paragraphHasCyrillic', paragraphIsUpperCase'} \in SUBSET BOOLEAN
        /\ {paragraphHasTocBookmark', skipCurrentRunText'} \in SUBSET BOOLEAN
    BY <1>4, NoText DEF ResetParagraph
  <2>2. {toc', resumed', hidden', done'} \in SUBSET BOOLEAN
    BY <1>0, <1>4 DEF DocType
  <2>. QED
    BY <1>5, <1>6, <2>1, <2>2 DEF DocType
<1>8. FlagsDescribeText'
  BY <1>4, FlagsReset
<1>9. ASSUME Followed, FlagsDescribeText PROVE Followed'
  <2>1. Latest /\ SectionsAre(result, currentSection, Before, BeforeHeads, DocTexts)
    BY <1>9 DEF Followed
  <2>2. Latest'
    BY <1>3, <1>4, <1>5 DEF Latest, ResetParagraph
  <2>3. SkipsCode'
    BY <1>6 DEF SkipsCode
  <2>4. SectionsAre(result', currentSection', Before', BeforeHeads', DocTexts')
    <3>1. CASE doc = <<>>
      <4>1. FlushedParagraph = <<result, currentSection>>
        BY <2>1, <3>1 DEF Latest, FlushedParagraph, Accepted, sections
      <4>2. Before = {} /\ BeforeHeads = {}
        BY <3>1 DEF Before, BeforeHeads, Visible
      <4>3. Before' = {} /\ BeforeHeads' = {}
        <5>1. n = 0
          BY <1>1, <3>1
        <5>2. Visible' \in SUBSET (1 .. 1)
          BY <1>5, <5>1 DEF Visible
        <5>3. \A i \in Visible' : ~(i < 1)
          BY <5>2
        <5>4. Before' = {}
          BY <1>5, <5>1, <5>3 DEF Before
        <5>. QED
          BY <5>4 DEF BeforeHeads
      <4>. QED
        BY <1>4, <2>1, <4>1, <4>2, <4>3 DEF SectionsAre
    <3>2. CASE doc # <<>>
      <4>1. /\ Before' = WithLast(Before) /\ BeforeHeads' = WithLastHead(BeforeHeads)
            /\ Agree(Before, DocTexts, DocTexts') /\ DocTexts'[Len(doc)] = doc[Len(doc)].text
        BY <1>0, <1>3, <1>4, <3>2, ParagraphAdded
      <4>2. PICK w : w = DocTexts'
        OBVIOUS
      <4>3. SectionsAre(FlushedParagraph[1], FlushedParagraph[2], WithLast(Before), WithLastHead(BeforeHeads), w)
        BY <1>0, <1>9, <2>1, <3>2, <4>1, <4>2, ParagraphFlushed
      <4>. QED
        BY <1>4, <4>1, <4>2, <4>3
    <3>. QED
      BY <3>1, <3>2
  <2>. QED
    BY <1>4, <2>2, <2>3, <2>4 DEF Followed
<1>. QED
  BY <1>4, <1>6, <1>7, <1>8, <1>9 DEF WalkerInv

LEMMA EndStep ==
  ASSUME WalkerInv, type' = type, End
  PROVE  WalkerInv'
<1>0. doc \in Seq(Paragraphs) /\ DocType /\ OpenInOrder /\ ~done
  BY DEF WalkerInv, DocType, End
<1>1. /\ doc' = doc /\ open' = open /\ toc' = toc /\ resumed' = resumed /\ hidden' = hidden
      /\ config' = config /\ done' = TRUE /\ ResetParagraph("", FALSE)
      /\ result' = Flushed(FlushedParagraph[1], FlushedParagraph[2])
  BY DEF End, document, Store, Finished
<1>2. DocType'
  <2>1. paragraphText' \in Text /\ {paragraphHasLetter', paragraphHasCyrillic', paragraphIsUpperCase'} \in SUBSET BOOLEAN
        /\ {paragraphHasTocBookmark', skipCurrentRunText'} \in SUBSET BOOLEAN
    BY <1>1, NoText DEF ResetParagraph
  <2>2. {toc', resumed', hidden', done'} \in SUBSET BOOLEAN
    BY <1>0, <1>1 DEF DocType
  <2>3. doc' \in Seq(Paragraphs) /\ open' \in Seq([par : 1 .. Len(doc'), run : Runs])
    BY <1>0, <1>1 DEF DocType
  <2>. QED
    BY <2>1, <2>2, <2>3 DEF DocType
<1>3. OpenInOrder'
  BY <1>0, <1>1 DEF OpenInOrder
<1>4. FlagsDescribeText'
  BY <1>1, FlagsReset
<1>5. ASSUME Followed, FlagsDescribeText PROVE Followed'
  <2>1. Latest /\ SectionsAre(result, currentSection, Before, BeforeHeads, DocTexts)
    BY <1>0, <1>5 DEF Followed
  <2>2. Flushed(FlushedParagraph[1], FlushedParagraph[2]) = SectionsOf
    <3>1. CASE doc = <<>>
      <4>1. FlushedParagraph = <<result, currentSection>>
        BY <2>1, <3>1 DEF Latest, FlushedParagraph, Accepted, sections
      <4>2. BeforeHeads = {} /\ Visible = {}
        BY <3>1 DEF Before, BeforeHeads, Visible
      <4>3. SectionsOf = Cut({}, {}, [i \in DOMAIN doc |-> doc[i].text])
        BY <4>2 DEF SectionsOf
      <4>4. Cardinality({}) = 0
        BY FS_EmptySet
      <4>5. SectionsOf = <<>>
        BY <4>3, <4>4 DEF Cut
      <4>. QED
        BY <2>1, <4>1, <4>2, <4>5 DEF SectionsAre, Flushed, NoSection
    <3>2. CASE doc # <<>>
      <4>1. /\ Visible = WithLast(Before)
            /\ {i \in Visible : HeadingOf(doc[i])} = WithLastHead(BeforeHeads)
        BY <1>0, <3>2, AllVisible
      <4>2. PICK n : n = Len(doc)
        OBVIOUS
      <4>3. n \in DOMAIN doc /\ DOMAIN doc = 1 .. n /\ n \in Nat /\ \A i \in DOMAIN doc : doc[i] \in Paragraphs
        BY <1>0, <3>2, <4>2
      <4>4. Agree(Before, DocTexts, DocTexts) /\ DocTexts[n] = doc[n].text
        BY <4>3 DEF Agree, DocTexts
      <4>. PICK r, s, K, H, v : /\ r = FlushedParagraph[1] /\ s = FlushedParagraph[2] /\ v = DocTexts
                                /\ K = WithLast(Before) /\ H = WithLastHead(BeforeHeads)
        OBVIOUS
      <4>5. SectionsAre(r, s, K, H, v)
        <5>1. PICK w : w = DocTexts
          OBVIOUS
        <5>2. SectionsAre(FlushedParagraph[1], FlushedParagraph[2], WithLast(Before), WithLastHead(BeforeHeads), w)
          BY <1>0, <1>5, <2>1, <3>2, <4>2, <4>4, <5>1, ParagraphFlushed
        <5>. QED
          BY <5>1, <5>2
      <4>6. IsCutBy(K, H)
        <5>1. Visible \in SUBSET (1 .. n)
          BY <4>3 DEF Visible
        <5>2. K \in SUBSET (1 .. n) /\ H \in SUBSET K
          BY <4>1, <5>1
        <5>3. \A S \in SUBSET (1 .. n) : IsPlaces(S)
          BY <4>3, PlacesOfSequence
        <5>. QED
          BY <5>2, <5>3 DEF IsCutBy
      <4>7. Titled(H, v)
        <5>1. ASSUME NEW h \in H PROVE normalizeTitle(v[h]) # <<>>
          <6>1. h \in DOMAIN doc /\ HeadingOf(doc[h])
            BY <4>1 DEF Visible
          <6>2. doc[h].text \in Text
            BY <4>3, <6>1 DEF Paragraphs
          <6>. QED
            BY <6>1, <6>2, TitleNotEmpty DEF DocTexts, HeadingOf
        <5>. QED
          BY <5>1 DEF Titled
      <4>8. Flushed(r, s) = Cut(K, H, v)
        BY <4>5, <4>6, <4>7, FlushedIsCut
      <4>. QED
        BY <4>1, <4>8 DEF SectionsOf, DocTexts
    <3>. QED
      BY <3>1, <3>2
  <2>3. SectionsOf' = SectionsOf
    BY <1>1, SameDoc
  <2>. QED
    BY <1>1, <2>2, <2>3 DEF Followed
<1>. QED
  BY <1>1, <1>2, <1>3, <1>4, <1>5 DEF WalkerInv

\* What a reading does in its order, and that a PDF has only lines.
Phases ==
  /\ type \in {"docx", "pdf"} /\ (type = "pdf" => phase = "titles")
  /\ phase = "titles" \/ phase = "sections" => ~done
  /\ phase = "titles" => doc = <<>>
  /\ phase = "sections" => Len(doc) <= Len(paras)
DocInv == TocInv /\ WalkerInv /\ Phases

LEMMA DocInitInv == DocumentReaderInit => DocInv
<1>. SUFFICES ASSUME DocumentReaderInit PROVE DocInv
  OBVIOUS
<1>1. TocInv
  BY TocInitInv DEF DocumentReaderInit, ReaderInit
<1>2. InitWalker
  BY DEF DocumentReaderInit, ReaderInit, Init
<1>3. /\ doc = <<>> /\ open = <<>> /\ paragraphText = <<>> /\ result = <<>> /\ currentSection = NoSection
      /\ paragraphHasLetter = FALSE /\ paragraphHasCyrillic = FALSE /\ paragraphIsUpperCase = TRUE
      /\ paragraphHasTocBookmark = FALSE /\ skipCurrentRunText = FALSE
      /\ toc = FALSE /\ resumed = FALSE /\ hidden = FALSE /\ done = FALSE
  BY <1>2 DEF InitWalker
<1>4. DocType
  <2>1. paragraphText \in Text
    BY <1>3, NoText
  <2>2. doc \in Seq(Paragraphs) /\ open \in Seq([par : 1 .. Len(doc), run : Runs])
    BY <1>3
  <2>. QED
    BY <1>3, <2>1, <2>2 DEF DocType
<1>5. OpenInOrder
  BY <1>3 DEF OpenInOrder
<1>6. FlagsDescribeText
  BY <1>3 DEF FlagsDescribeText, Has
<1>7. Followed
  <2>1. Before = {} /\ BeforeHeads = {}
    BY <1>3 DEF Before, BeforeHeads, Visible
  <2>. QED
    BY <1>3, <2>1 DEF Followed, Latest, SkipsCode, SectionsAre
<1>8. Phases
  <2>1. Len(doc) = 0
    BY <1>3
  <2>2. paras = <<>>
    BY DEF DocumentReaderInit, ReaderInit, TocInit
  <2>3. phase \in {"titles", "xml"}
    BY DEF DocumentReaderInit, ReaderInit
  <2>. QED
    BY <1>3, <2>1, <2>2, <2>3 DEF Phases, DocumentReaderInit
<1>. QED
  BY <1>1, <1>4, <1>5, <1>6, <1>7, <1>8 DEF DocInv, WalkerInv

\* Nothing of the walker has changed but the sections, which are those of a
\* PDF, or the configuration, before there are paragraphs.
LEMMA WalkerUnread ==
  ASSUME WalkerInv, type' = type, UNCHANGED <<paragraph, skipCurrentRunText, document, done>>,
         type = "docx" => UNCHANGED sections /\ (config' = config \/ (doc = <<>> /\ ~done))
  PROVE  WalkerInv'
<1>1. /\ doc' = doc /\ open' = open /\ toc' = toc /\ resumed' = resumed /\ hidden' = hidden /\ done' = done
      /\ paragraphText' = paragraphText /\ paragraphStyle' = paragraphStyle
      /\ paragraphHasLetter' = paragraphHasLetter /\ paragraphHasCyrillic' = paragraphHasCyrillic
      /\ paragraphIsUpperCase' = paragraphIsUpperCase /\ paragraphHasTocBookmark' = paragraphHasTocBookmark
      /\ paragraphHasDotLeaderTab' = paragraphHasDotLeaderTab /\ skipCurrentRunText' = skipCurrentRunText
  BY DEF paragraph, document
<1>2. DocType' /\ OpenInOrder' /\ (FlagsDescribeText' <=> FlagsDescribeText)
  BY <1>1 DEF WalkerInv, DocType, OpenInOrder, FlagsDescribeText
<1>3. ASSUME type = "docx", Followed PROVE Followed'
  <2>1. result' = result /\ currentSection' = currentSection
    BY <1>3 DEF sections
  <2>2. CASE config' = config
    <3>1. Before' = Before /\ BeforeHeads' = BeforeHeads /\ DocTexts' = DocTexts /\ SectionsOf' = SectionsOf
      BY <1>1, <2>2, SameDoc
    <3>2. (Latest' <=> Latest) /\ (SkipsCode' <=> SkipsCode)
      BY <1>1 DEF Latest, SkipsCode
    <3>. QED
      BY <1>1, <1>3, <2>1, <3>1, <3>2 DEF Followed
  <2>3. CASE doc = <<>> /\ ~done
    <3>1. Before = {} /\ BeforeHeads = {} /\ Before' = {} /\ BeforeHeads' = {}
      BY <1>1, <2>3 DEF Before, BeforeHeads, Visible
    <3>2. (Latest' <=> Latest) /\ (SkipsCode' <=> SkipsCode)
      BY <1>1 DEF Latest, SkipsCode
    <3>3. SectionsAre(result', currentSection', Before', BeforeHeads', DocTexts')
      BY <1>3, <2>1, <2>3, <3>1 DEF Followed, SectionsAre
    <3>. QED
      BY <1>1, <1>3, <2>3, <3>2, <3>3 DEF Followed
  <2>. QED
    BY <1>3, <2>2, <2>3
<1>. QED
  BY <1>1, <1>2, <1>3 DEF WalkerInv

\* The nodes of a document read in its two shapes.
LEMMA NodeStep ==
  ASSUME WalkerInv, ~done, type' = type,
         \/ \E style \in STRING, leader \in BOOLEAN : VisitParagraph(style, leader)
         \/ VisitRun \/ VisitCourierFont \/ VisitTocBookmark
         \/ \E text \in Text : VisitText(text)
         \/ CloseParagraph \/ EnterOrLeaveTableOfContents
  PROVE  WalkerInv'
  BY ParagraphStep, RunsKeepInv, BookmarkStep, TextStep, CloseStep

LEMMA XmlStep ==
  ASSUME WalkerInv, type' = type, Next
  PROVE  WalkerInv'
<1>1. ASSUME ~done, Visit PROVE WalkerInv'
  <2>1. Styles \in SUBSET STRING /\ Texts \in SUBSET Text
    BY TextAssumption
  <2>. QED
    BY <1>1, <2>1, NodeStep DEF Visit
<1>2. ASSUME ~done, CloseParagraph \/ EnterOrLeaveTableOfContents PROVE WalkerInv'
  BY <1>2, NodeStep
<1>3. ASSUME End PROVE WalkerInv'
  BY <1>3, EndStep
<1>4. ASSUME UNCHANGED vars PROVE WalkerInv'
  BY <1>4, WalkerUnread DEF vars
<1>. QED
  BY <1>1, <1>2, <1>3, <1>4 DEF Next

LEMMA HereIsParagraph ==
  ASSUME DocInv, phase = "sections", stage # "p" => open # <<>>, stage = "p" => Len(doc) < Len(paras)
  PROVE  Here.text \in Text /\ Here.style \in STRING /\ Here.leader \in BOOLEAN
<1>1. /\ paras \in Seq(Paras) /\ DocType /\ Len(doc) <= Len(paras) /\ Len(doc) \in Nat /\ Len(paras) \in Nat
  <2>1. paras \in Seq(Paras) /\ DocType /\ Len(doc) <= Len(paras)
    BY DEF DocInv, TocInv, FlagsFollow, WalkerInv, Phases
  <2>2. doc \in Seq(Paragraphs)
    BY <2>1 DEF DocType
  <2>. QED
    BY <2>1, <2>2
<1>2. Here \in Paras
  <2>1. CASE open = <<>>
    <3>1. Len(doc) + 1 \in 1 .. Len(paras)
      BY <1>1, <2>1
    <3>. QED
      BY <1>1, <2>1, <3>1 DEF Here
  <2>2. CASE open # <<>>
    <3>1. Len(doc) > 0
      BY <1>1, <2>2, LastParagraph
    <3>2. Len(doc) \in 1 .. Len(paras)
      BY <1>1, <3>1
    <3>. QED
      BY <1>1, <2>2, <3>2 DEF Here
  <2>. QED
    BY <2>1, <2>2
<1>. QED
  BY <1>2, ParaAssumption

LEMMA TraverseStep ==
  ASSUME DocInv, type' = type, Traverse
  PROVE  WalkerInv' /\ (~done)' /\ Len(doc') <= Len(paras)
<1>0. /\ WalkerInv /\ phase = "sections" /\ ~done /\ Len(doc) <= Len(paras) /\ DocType
      /\ stage = "p" => Len(doc) < Len(paras)
      /\ doc \in Seq(Paragraphs) /\ Len(doc) \in Nat /\ Len(paras) \in Nat
  <2>1. paras \in Seq(Paras) /\ WalkerInv /\ phase = "sections" /\ ~done /\ Len(doc) <= Len(paras)
    BY DEF DocInv, Phases, Traverse, TocInv, FlagsFollow
  <2>2. doc \in Seq(Paragraphs)
    BY <2>1 DEF WalkerInv, DocType
  <2>3. DocType /\ (stage = "p" => Len(doc) < Len(paras))
    BY <2>1 DEF WalkerInv, Traverse
  <2>. QED
    BY <2>1, <2>2, <2>3
<1>1. CASE stage = "p" /\ EnterOrLeaveTableOfContents
  <2>1. doc' = doc /\ done' = done
    BY <1>1 DEF EnterOrLeaveTableOfContents
  <2>. QED
    BY <1>0, <1>1, <2>1, NodeStep
<1>2. CASE stage = "p" /\ VisitParagraph(Here.style, Here.leader)
  <2>1. Here.style \in STRING /\ Here.leader \in BOOLEAN
    BY <1>0, <1>2, HereIsParagraph
  <2>2. WalkerInv'
    BY <1>0, <1>2, <2>1, NodeStep
  <2>3. PICK p : doc' = Append(doc, p)
    BY <1>2 DEF VisitParagraph
  <2>4. Len(doc') = Len(doc) + 1
    BY <1>0, <2>3
  <2>5. done' = done
    BY <1>2 DEF VisitParagraph
  <2>. QED
    BY <1>0, <1>2, <2>2, <2>4, <2>5
<1>3. CASE VisitRun \/ CloseParagraph
  <2>1. doc' = doc /\ done' = done
    BY <1>3 DEF VisitRun, CloseParagraph
  <2>. QED
    BY <1>0, <1>3, <2>1, NodeStep
<1>4. CASE stage = "t" /\ VisitText(Here.text)
  <2>1. Here.text \in Text
    BY <1>0, <1>4, HereIsParagraph DEF VisitText
  <2>2. WalkerInv'
    BY <1>0, <1>4, <2>1, NodeStep
  <2>3. Len(doc') = Len(doc) /\ done' = done
    <3>1. PICK l, text : doc' = [doc EXCEPT ![l].text = text] \/ doc' = doc
      BY <1>4 DEF VisitText
    <3>. QED
      BY <1>0, <1>4, <3>1 DEF VisitText
  <2>. QED
    BY <1>0, <2>2, <2>3
<1>. QED
  BY <1>1, <1>2, <1>3, <1>4 DEF Traverse

LEMMA DocStep == DocInv /\ [DocumentReaderNext]_all => DocInv'
<1>. SUFFICES ASSUME DocInv, [DocumentReaderNext]_all PROVE DocInv'
  OBVIOUS
<1>1. TocInv'
  <2>1. collectTopLevelTocTitles \/ UNCHANGED <<state, titles, paras>>
    BY DEF DocumentReaderNext, all, readerVars, tocVars, ReaderNext, ReadTitles, StartWalker, Traverse,
           EndTraverse, ReadXml, Rest
  <2>. QED
    BY <2>1, TocStep, TocUnchanged DEF DocInv
<1>2. WalkerInv /\ Phases /\ type' = type
  BY DEF DocInv, DocumentReaderNext, all
<1>3. ASSUME UNCHANGED vars, phase' = phase, doc # <<>> => paras' = paras PROVE WalkerInv' /\ Phases'
  <2>1. WalkerInv'
    BY <1>2, <1>3, WalkerUnread DEF vars
  <2>2. done' = done /\ doc' = doc
    BY <1>3 DEF vars, document
  <2>3. doc = <<>> => Len(doc) <= Len(paras')
    <3>1. paras' \in Seq(Paras)
      BY <1>1 DEF TocInv, FlagsFollow
    <3>2. Len(paras') \in Nat
      BY <3>1
    <3>. QED
      BY <3>2
  <2>. QED
    BY <1>2, <1>3, <2>1, <2>2, <2>3 DEF Phases
<1>4. CASE type = "pdf" /\ PdfNext /\ UNCHANGED <<config, paragraph, skipCurrentRunText, document, nodes, done,
                                                 state, titles, paras, phase, stage, type>>
  <2>1. WalkerInv'
    BY <1>2, <1>4, WalkerUnread
  <2>2. done' = done /\ doc' = doc /\ phase' = phase /\ paras' = paras
    BY <1>4 DEF document
  <2>. QED
    BY <1>1, <1>2, <2>1, <2>2 DEF DocInv, Phases
<1>5. CASE type = "docx" /\ ReaderNext
  <2>1. CASE ReadTitles
    <3>1. doc = <<>>
      BY <1>2, <2>1 DEF ReadTitles, Phases
    <3>. QED
      BY <1>1, <1>3, <2>1, <3>1 DEF ReadTitles, DocInv
  <2>2. ASSUME NEW defined \in BOOLEAN, NEW styles, StartWalker(defined, styles) PROVE WalkerInv' /\ Phases'
    <3>1. doc = <<>> /\ ~done
      BY <1>2, <2>2 DEF StartWalker, Phases
    <3>2. WalkerInv'
      BY <1>2, <2>2, <3>1, WalkerUnread DEF StartWalker
    <3>3. done' = done /\ doc' = doc /\ phase' = "sections" /\ paras' = paras
      BY <2>2 DEF StartWalker, document, tocVars
    <3>4. Len(doc') <= Len(paras')
      <4>1. paras' \in Seq(Paras)
        BY <1>1 DEF TocInv, FlagsFollow
      <4>2. Len(paras') \in Nat /\ Len(doc') = 0
        BY <3>1, <3>3, <4>1
      <4>. QED
        BY <4>2
    <3>. QED
      BY <1>2, <1>5, <3>1, <3>2, <3>3, <3>4 DEF Phases
  <2>3. CASE Traverse
    <3>1. WalkerInv' /\ (~done)' /\ Len(doc') <= Len(paras)
      BY <1>2, <2>3, TraverseStep
    <3>2. phase = "sections" /\ phase' = phase /\ paras' = paras
      BY <2>3 DEF Traverse, tocVars
    <3>. QED
      BY <1>1, <1>2, <1>5, <3>1, <3>2 DEF DocInv, Phases
  <2>4. CASE EndTraverse
    <3>1. WalkerInv'
      BY <1>2, <2>4, EndStep DEF EndTraverse
    <3>2. phase' = "read"
      BY <2>4 DEF EndTraverse
    <3>. QED
      BY <1>1, <1>2, <1>5, <3>1, <3>2 DEF DocInv, Phases
  <2>5. CASE ReadXml
    <3>1. WalkerInv'
      BY <1>2, <2>5, XmlStep DEF ReadXml
    <3>2. phase = "xml" /\ phase' = phase
      BY <2>5 DEF ReadXml
    <3>. QED
      BY <1>1, <1>2, <1>5, <3>1, <3>2 DEF DocInv, Phases
  <2>6. CASE Rest
    BY <1>1, <1>3, <2>6 DEF Rest, readerVars, tocVars, DocInv
  <2>. QED
    BY <1>1, <1>5, <2>1, <2>2, <2>3, <2>4, <2>5, <2>6 DEF ReaderNext, DocInv
<1>6. CASE UNCHANGED all
  BY <1>1, <1>3, <1>6 DEF all, readerVars, tocVars, DocInv
<1>. QED
  BY <1>4, <1>5, <1>6 DEF DocumentReaderNext

LEMMA DocInvHolds == DocumentReaderSpec => []DocInv
  BY DocInitInv, DocStep, PTL DEF DocumentReaderSpec

(***************************************************************************)
(* SectionsMatchDocument: of a document with any paragraphs, code, tabs,   *)
(* text boxes, and bookmarks in paragraphs and between them, read as bare  *)
(* XML or after its contents, the flags describe the text collected, and   *)
(* the sections end as those of the whole document, with the exceptions    *)
(* the property names.                                                     *)
(***************************************************************************)
THEOREM DocSections == DocumentReaderSpec => []SectionsMatchDocument
<1>1. DocInv => SectionsMatchDocument
  <2>. SUFFICES ASSUME DocInv, ~hidden PROVE FlagsDescribeText /\ (done /\ ~resumed => result = SectionsOf)
    BY DEF SectionsMatchDocument
  <2>1. FlagsDescribeText
    BY DEF DocInv, WalkerInv
  <2>2. done => type = "docx"
    BY DEF DocInv, Phases
  <2>. QED
    BY <2>1, <2>2 DEF DocInv, WalkerInv, Followed
<1>. QED
  BY <1>1, DocInvHolds, PTL

-----------------------------------------------------------------------------
(***************************************************************************)
(* The two readings of a document with contents.                           *)
(***************************************************************************)
LEMMA LowerCyrillicWord ==
  ASSUME NEW w \in Cyrillic
  PROVE  Lower(w) \notin Digits /\ Lower(w) \notin Spaces
<1>1. /\ w \in {"A", "CYR", "Cyr"} => Lower(w) = "cyr"
      /\ w \in {"INTRO", "Intro"} => Lower(w) = "intro"
      /\ w \in {"END", "End"} => Lower(w) = "end"
      /\ w \in {"LIST", "List"} => Lower(w) = "list"
      /\ w \in {"APPENDIX", "Appendix"} => Lower(w) = "appendix"
      /\ w \in {"CONTENTS", "Contents"} => Lower(w) = "contents"
      /\ w \in LowerCyrillic => Lower(w) = w
  BY DEF Lower, LowerCyrillic
<1>2. /\ w \in {"A", "CYR", "Cyr"} \cup {"INTRO", "Intro"} \cup {"END", "End"} \cup {"LIST", "List"}
                \cup {"APPENDIX", "Appendix"} \cup {"CONTENTS", "Contents"} \cup LowerCyrillic
  BY DEF Cyrillic, UpperCyrillic, Capitalized
<1>. QED
  BY <1>1, <1>2 DEF Digits, Spaces, LowerCyrillic

LEMMA PickedSeq ==
  ASSUME NEW S, IsPlaces(S), NEW V, NEW values, \A i \in S : values[i] \in V
  PROVE  Picked(S, values) \in Seq(V) /\ Len(Picked(S, values)) = Cardinality(S)
<1>1. PICK n : n = Cardinality(S)
  OBVIOUS
<1>2. n \in Nat /\ \A k \in 1 .. n : Nth(S, k) \in S
  BY <1>1, FS_CardinalityType, NthPlace DEF IsPlaces
<1>3. Picked(S, values) = [k \in 1 .. n |-> values[Nth(S, k)]]
  BY <1>1 DEF Picked
<1>4. Picked(S, values) \in [1 .. n -> V]
  BY <1>2, <1>3
<1>5. Picked(S, values) \in Seq(V)
  BY <1>2, <1>4, SeqDef
<1>6. Len(Picked(S, values)) = n
  BY <1>2, <1>3
<1>. QED
  BY <1>1, <1>5, <1>6

LEMMA Emptied == ~HasLetter(<<>>) /\ ~HasCyrillic(<<>>) /\ IsUpperCaseCompatible(<<>>)
<1>1. Checked(<<>>) = {}
  BY DEF Checked
<1>. QED
  BY <1>1 DEF HasLetter, HasCyrillic, IsUpperCaseCompatible

\* What the walker reads of the paragraphs that TocTitles has read: nothing
\* in a marked table, each text at once everywhere else.
ReadText(i) == IF paras[i].inside THEN <<>> ELSE paras[i].text
ReadTexts == [i \in DOMAIN paras |-> ReadText(i)]
Reads(i) == ReadText(i) # <<>> /\ ~looksLikeManualTocRow(ReadText(i), paras[i].leader)
Begins(i) ==
  /\ Reads(i) /\ HasLetter(ReadText(i)) /\ HasCyrillic(ReadText(i))
  /\ isHeadingParagraph(ReadText(i), paras[i].style, FALSE, IsUpperCaseCompatible(ReadText(i)))
ReadBelow(n) == {i \in DOMAIN paras : i < n /\ Reads(i)}
HeadsBelow(n) == {i \in DOMAIN paras : i < n /\ Begins(i)}

\* What the walker keeps of paragraph i when it has read text of it.
Describes(i, text) ==
  /\ paragraphText = text /\ paragraphStyle = paras[i].style
  /\ paragraphHasDotLeaderTab = paras[i].leader /\ paragraphHasTocBookmark = FALSE
  /\ paragraphHasLetter <=> HasLetter(text)
  /\ paragraphHasCyrillic <=> HasCyrillic(text)
  /\ paragraphIsUpperCase <=> IsUpperCaseCompatible(text)
DescribesLast(n) == IF n = 0 THEN paragraphText = <<>> ELSE Describes(n, ReadText(n))

LEMMA ReadTextIsText ==
  ASSUME paras \in Seq(Paras), NEW i \in DOMAIN paras
  PROVE  ReadText(i) \in Text
<1>1. paras[i] \in Paras
  OBVIOUS
<1>2. paras[i].text \in Text
  BY <1>1, ParaAssumption
<1>. QED
  BY <1>2, NoText DEF ReadText

LEMMA ReadCut ==
  ASSUME paras \in Seq(Paras), NEW n \in Nat
  PROVE  /\ IsCutBy(ReadBelow(n), HeadsBelow(n)) /\ Beyond(ReadBelow(n), n)
         /\ Titled(HeadsBelow(n), ReadTexts)
<1>1. Len(paras) \in Nat /\ DOMAIN paras = 1 .. Len(paras)
  OBVIOUS
<1>2. ReadBelow(n) \in SUBSET DOMAIN paras /\ HeadsBelow(n) \in SUBSET ReadBelow(n)
  BY DEF ReadBelow, HeadsBelow, Begins
<1>3. \A S \in SUBSET DOMAIN paras : IsPlaces(S)
  BY <1>1, PlacesOfSequence
<1>4. ASSUME NEW h \in HeadsBelow(n) PROVE normalizeTitle(ReadTexts[h]) # <<>>
  <2>1. h \in DOMAIN paras /\ HasCyrillic(ReadText(h))
    BY DEF HeadsBelow, Begins
  <2>2. ReadText(h) \in Text /\ ReadTexts[h] = ReadText(h)
    BY <2>1, ReadTextIsText DEF ReadTexts
  <2>3. Has(ReadText(h), Cyrillic)
    BY <2>1, <2>2, CheckedSome
  <2>. QED
    BY <2>2, <2>3, TitleNotEmpty
<1>5. Beyond(ReadBelow(n), n)
  BY DEF Beyond, ReadBelow
<1>. QED
  BY <1>2, <1>3, <1>4, <1>5 DEF IsCutBy, Titled

\* The paragraph n more.
LEMMA ReadOneMore ==
  ASSUME paras \in Seq(Paras), NEW n \in Nat, n <= Len(paras)
  PROVE  /\ n > 0 /\ Reads(n) => ReadBelow(n + 1) = ReadBelow(n) \cup {n}
         /\ n = 0 \/ ~Reads(n) => ReadBelow(n + 1) = ReadBelow(n)
         /\ n > 0 /\ Begins(n) => HeadsBelow(n + 1) = HeadsBelow(n) \cup {n}
         /\ n = 0 \/ ~Begins(n) => HeadsBelow(n + 1) = HeadsBelow(n)
<1>1. Len(paras) \in Nat /\ DOMAIN paras = 1 .. Len(paras) /\ (n > 0 => n \in DOMAIN paras) /\ 0 \notin DOMAIN paras
  OBVIOUS
<1>2. \A i \in DOMAIN paras : (i < n + 1 <=> i < n \/ i = n) /\ ~(n < n)
  BY <1>1
<1>. QED
  BY ONLY <1>1, <1>2, n \in Nat DEF ReadBelow, HeadsBelow

\* flushParagraph, when the paragraph n has been read.
LEMMA ReadFlushed ==
  ASSUME paras \in Seq(Paras), NEW n \in Nat, n <= Len(paras), DescribesLast(n),
         SectionsAre(result, currentSection, ReadBelow(n), HeadsBelow(n), ReadTexts)
  PROVE  SectionsAre(FlushedParagraph[1], FlushedParagraph[2], ReadBelow(n + 1), HeadsBelow(n + 1), ReadTexts)
<1>1. CASE n = 0
  <2>1. ReadBelow(n + 1) = ReadBelow(n) /\ HeadsBelow(n + 1) = HeadsBelow(n)
    BY <1>1, ReadOneMore
  <2>2. FlushedParagraph = <<result, currentSection>>
    BY <1>1 DEF DescribesLast, FlushedParagraph, Accepted, sections
  <2>. QED
    BY <2>1, <2>2
<1>2. CASE n > 0
  <2>1. PICK t : t = ReadText(n)
    OBVIOUS
  <2>2. n \in DOMAIN paras /\ ReadTexts[n] = t
    BY <1>2, <2>1 DEF ReadTexts
  <2>3. Describes(n, t)
    BY <1>2, <2>1 DEF DescribesLast
  <2>4. PICK row, heading : /\ row = looksLikeManualTocRow(t, paras[n].leader)
                            /\ heading = (/\ HasLetter(t) /\ HasCyrillic(t)
                                          /\ isHeadingParagraph(t, paras[n].style, FALSE, IsUpperCaseCompatible(t)))
    OBVIOUS
  <2>5. FlushedParagraph = Accepted(t, heading, row)
    BY <2>3, <2>4 DEF Describes, FlushedParagraph, Accepted, isHeadingParagraph
  <2>6. (Reads(n) <=> t # <<>> /\ ~row) /\ (Begins(n) <=> t # <<>> /\ ~row /\ heading)
    BY <2>1, <2>4 DEF Reads, Begins
  <2>. PICK r, s, v, K, H : /\ r = result /\ s = currentSection /\ v = ReadTexts
                            /\ K = ReadBelow(n) /\ H = HeadsBelow(n)
    OBVIOUS
  <2>7. /\ SectionsAre(r, s, K, H, v) /\ IsCutBy(K, H) /\ Beyond(K, n) /\ Titled(H, v) /\ Agree(K, v, v)
        /\ v[n] = t
    BY <2>2, ReadCut DEF Agree
  <2>8. CASE t # <<>> /\ ~row /\ heading
    <3>1. FlushedParagraph = <<Flushed(r, s), NewSection(t)>>
      BY <2>5, <2>8 DEF Accepted, StartSection
    <3>2. SectionsAre(Flushed(r, s), NewSection(v[n]), K \cup {n}, H \cup {n}, v)
      BY <2>7, CutHead
    <3>3. ReadBelow(n + 1) = K \cup {n} /\ HeadsBelow(n + 1) = H \cup {n}
      BY <1>2, <2>6, <2>8, ReadOneMore
    <3>. QED
      BY <2>7, <3>1, <3>2, <3>3
  <2>9. CASE t # <<>> /\ ~row /\ ~heading
    <3>1. SectionsAre(r, IF H = {} THEN s ELSE WithLine(s, v[n]), K \cup {n}, H, v)
      BY <2>7, CutLine
    <3>2. s.title = <<>> <=> H = {}
      BY <2>7, FlushedIsCut
    <3>3. H # {} => [s EXCEPT !.text = Append(@, t)] = WithLine(s, t)
      BY <2>7, LastSection
    <3>4. FlushedParagraph = <<r, IF H = {} THEN s ELSE WithLine(s, t)>>
      BY <2>5, <2>9, <3>2, <3>3 DEF Accepted, Extended, sections
    <3>5. ReadBelow(n + 1) = K \cup {n} /\ HeadsBelow(n + 1) = H
      BY <1>2, <2>6, <2>9, ReadOneMore
    <3>. QED
      BY <2>7, <3>1, <3>4, <3>5
  <2>10. CASE t = <<>> \/ row
    <3>1. FlushedParagraph = <<r, s>>
      BY <2>5, <2>10 DEF Accepted, sections
    <3>2. ReadBelow(n + 1) = K /\ HeadsBelow(n + 1) = H
      BY <1>2, <2>6, <2>10, ReadOneMore
    <3>. QED
      BY <2>7, <3>1, <3>2
  <2>. QED
    BY <2>8, <2>9, <2>10
<1>. QED
  BY <1>1, <1>2

\* Where the reading of a DOCX file is.
Unread ==
  /\ stage = "p" /\ open = <<>> /\ doc = <<>> /\ paragraphText = <<>>
  /\ result = <<>> /\ currentSection = NoSection
OneOpen == Len(open) = 1 /\ doc # <<>> /\ toc = paras[Len(doc)].inside
Reading ==
  /\ config.titles = normalizedTopLevelTocTitles
  /\ SectionsAre(result, currentSection, ReadBelow(Len(doc)), HeadsBelow(Len(doc)), ReadTexts)
  /\ stage \in {"p", "close"} => DescribesLast(Len(doc))
  /\ IF stage = "p" THEN open = <<>> ELSE OneOpen
  /\ stage \in {"r", "t"} => Describes(Len(doc), <<>>)
  /\ stage = "t" => skipCurrentRunText = FALSE
WasRead ==
  /\ config.titles = normalizedTopLevelTocTitles
  /\ result = Cut(ReadBelow(Len(paras) + 1), HeadsBelow(Len(paras) + 1), ReadTexts)
ReadInv ==
  type = "docx" =>
    /\ phase = "titles" => Unread
    /\ phase = "sections" => Reading
    /\ phase = "read" => WasRead

\* Where everything they say is as it was, so are the invariants.
LEMMA ReadSame ==
  ASSUME config' = config, paras' = paras, titles' = titles
  PROVE  /\ normalizedTopLevelTocTitles' = normalizedTopLevelTocTitles /\ ReadTexts' = ReadTexts
         /\ \A i : ReadText(i)' = ReadText(i)
         /\ \A n : ReadBelow(n)' = ReadBelow(n) /\ HeadsBelow(n)' = HeadsBelow(n)
<1>1. \A i : ReadText(i)' = ReadText(i)
  BY DEF ReadText
<1>2. \A i : (Reads(i)' <=> Reads(i)) /\ (Begins(i)' <=> Begins(i))
  BY <1>1 DEF Reads, Begins, isHeadingParagraph
<1>3. ReadTexts' = ReadTexts
  BY <1>1 DEF ReadTexts
<1>4. \A n : ReadBelow(n)' = ReadBelow(n) /\ HeadsBelow(n)' = HeadsBelow(n)
  BY <1>2 DEF ReadBelow, HeadsBelow
<1>5. normalizedTopLevelTocTitles' = normalizedTopLevelTocTitles
  BY DEF normalizedTopLevelTocTitles
<1>. QED
  BY <1>1, <1>3, <1>4, <1>5

LEMMA ReadParagraph ==
  ASSUME DocInv, phase = "sections", stage = "p", Reading, Len(doc) < Len(paras), Here.inside = toc,
         VisitParagraph(Here.style, Here.leader), stage' = "r", UNCHANGED tocVars
  PROVE  Reading'
<1>1. PICK n : n = Len(doc)
  OBVIOUS
<1>2. paras \in Seq(Paras) /\ n \in Nat /\ Len(paras) \in Nat /\ n < Len(paras) /\ doc \in Seq(Paragraphs)
  <2>1. paras \in Seq(Paras) /\ doc \in Seq(Paragraphs)
    BY DEF DocInv, TocInv, FlagsFollow, WalkerInv, DocType
  <2>. QED
    BY <2>1, <1>1
<1>3. open = <<>> /\ DescribesLast(n) /\ config.titles = normalizedTopLevelTocTitles
      /\ SectionsAre(result, currentSection, ReadBelow(n), HeadsBelow(n), ReadTexts)
  BY <1>1 DEF Reading
<1>4. PICK p : doc' = Append(doc, p)
  BY DEF VisitParagraph
<1>5. Len(doc') = n + 1 /\ doc' # <<>>
  BY <1>1, <1>2, <1>4
<1>6. Here = paras[n + 1]
  BY <1>1, <1>3 DEF Here
<1>7. /\ config' = config /\ toc' = toc /\ paras' = paras /\ titles' = titles
      /\ ResetParagraph(Here.style, Here.leader)
      /\ result' = FlushedParagraph[1] /\ currentSection' = FlushedParagraph[2]
  BY DEF VisitParagraph, Store, tocVars
<1>8. OneOpen'
  <2>1. Len(open') = 1
    BY <1>3 DEF VisitParagraph
  <2>. QED
    BY <2>1, <1>5, <1>6, <1>7 DEF OneOpen
<1>9. Describes(n + 1, <<>>)'
  BY <1>6, <1>7, Emptied DEF Describes, ResetParagraph
<1>10. SectionsAre(result', currentSection', ReadBelow(n + 1), HeadsBelow(n + 1), ReadTexts)
  BY <1>2, <1>3, <1>7, ReadFlushed
<1>11. /\ normalizedTopLevelTocTitles' = normalizedTopLevelTocTitles /\ ReadTexts' = ReadTexts
       /\ ReadBelow(n + 1)' = ReadBelow(n + 1) /\ HeadsBelow(n + 1)' = HeadsBelow(n + 1)
  BY <1>7, ReadSame
<1>. QED
  BY <1>3, <1>5, <1>7, <1>8, <1>9, <1>10, <1>11 DEF Reading

LEMMA ReadNode ==
  ASSUME DocInv, phase = "sections", Reading, UNCHANGED tocVars,
         \/ stage = "p" /\ EnterOrLeaveTableOfContents /\ stage' = "p"
         \/ stage = "r" /\ VisitRun /\ stage' = "t"
         \/ stage = "t" /\ VisitText(Here.text) /\ stage' = "close"
         \/ stage = "close" /\ CloseParagraph /\ stage' = "p"
  PROVE  Reading'
<1>1. PICK n : n = Len(doc)
  OBVIOUS
<1>2. n \in Nat /\ DocType /\ doc \in Seq(Paragraphs) /\ (doc # <<>> <=> n # 0)
  <2>1. DocType /\ doc \in Seq(Paragraphs)
    BY DEF DocInv, WalkerInv, DocType
  <2>. QED
    BY <2>1, <1>1
<1>3. /\ config.titles = normalizedTopLevelTocTitles
      /\ SectionsAre(result, currentSection, ReadBelow(n), HeadsBelow(n), ReadTexts)
  BY <1>1 DEF Reading
<1>4. config' = config /\ result' = result /\ currentSection' = currentSection /\ paras' = paras /\ titles' = titles
  BY DEF EnterOrLeaveTableOfContents, VisitRun, VisitText, CloseParagraph, sections, tocVars
<1>5. Len(doc') = n /\ (doc' # <<>> <=> n # 0)
  <2>1. doc' = doc \/ \E l, text : doc' = [doc EXCEPT ![l].text = text]
    BY DEF EnterOrLeaveTableOfContents, VisitRun, VisitText, CloseParagraph
  <2>2. doc' = doc \/ (Len(doc') = n /\ DOMAIN doc' = DOMAIN doc)
    BY <1>1, <1>2, <2>1
  <2>3. DOMAIN doc = 1 .. n /\ DOMAIN <<>> = {}
    BY <1>1, <1>2
  <2>. QED
    BY <1>1, <1>2, <2>2, <2>3
<1>6. /\ normalizedTopLevelTocTitles' = normalizedTopLevelTocTitles /\ ReadTexts' = ReadTexts
      /\ ReadBelow(n)' = ReadBelow(n) /\ HeadsBelow(n)' = HeadsBelow(n) /\ ReadText(n)' = ReadText(n)
  BY <1>4, ReadSame
<1>7. /\ config'.titles = normalizedTopLevelTocTitles'
      /\ SectionsAre(result', currentSection', ReadBelow(n)', HeadsBelow(n)', ReadTexts')
  BY <1>3, <1>4, <1>5, <1>6
<1>8. ASSUME stage # "p"
      PROVE  /\ Len(open) = 1 /\ open # <<>> /\ n # 0 /\ toc = paras[n].inside
             /\ Here = paras[n] /\ (stage \in {"r", "t"} => Describes(n, <<>>))
  <2>1. OneOpen /\ (stage \in {"r", "t"} => Describes(n, <<>>))
    BY <1>1, <1>8 DEF Reading
  <2>2. Len(open) = 1 /\ n # 0 /\ toc = paras[n].inside
    BY <2>1, <1>1, <1>2 DEF OneOpen
  <2>3. Len(<<>>) = 0
    OBVIOUS
  <2>4. open # <<>>
    BY ONLY <2>2, <2>3
  <2>. QED
    BY <2>1, <2>2, <2>4, <1>1 DEF Here
<1>9. CASE stage = "p" /\ EnterOrLeaveTableOfContents /\ stage' = "p"
  <2>1. open' = open /\ open = <<>> /\ UNCHANGED paragraph
    BY <1>9 DEF EnterOrLeaveTableOfContents
  <2>2. DescribesLast(n) /\ (DescribesLast(n)' <=> DescribesLast(n))
    BY <1>1, <1>4, <1>6, <1>9, <2>1 DEF Reading, DescribesLast, Describes, paragraph
  <2>. QED
    BY <1>5, <1>7, <1>9, <2>1, <2>2 DEF Reading
<1>10. CASE stage = "r" /\ VisitRun /\ stage' = "t"
  <2>1. UNCHANGED paragraph /\ skipCurrentRunText' = FALSE /\ toc' = toc
    BY <1>10 DEF VisitRun
  <2>2. Describes(n, <<>>)'
    BY <1>4, <1>8, <1>10, <2>1 DEF Describes, paragraph
  <2>3. Len(open') = 1
    <3>1. PICK run : open' = [open EXCEPT ![Len(open)].run = run]
      BY <1>10 DEF VisitRun
    <3>2. \E S : open \in Seq(S)
      BY <1>2 DEF DocType
    <3>. QED
      BY <1>8, <1>10, <3>1, <3>2
  <2>4. OneOpen'
    BY <1>4, <1>5, <1>8, <1>10, <2>1, <2>3 DEF OneOpen
  <2>. QED
    BY <1>5, <1>7, <1>10, <2>1, <2>2, <2>4 DEF Reading
<1>11. CASE stage = "t" /\ VisitText(Here.text) /\ stage' = "close"
  <2>1. PICK t : t = Here.text
    OBVIOUS
  <2>2. skipCurrentRunText = FALSE /\ Describes(n, <<>>) /\ paragraphText = <<>> /\ t = paras[n].text
    BY <1>8, <1>11, <2>1 DEF Reading, Describes
  <2>3. t \in Text
    BY <1>8, <1>11, <2>1, HereIsParagraph
  <2>4. /\ paragraphText' = ReadText(n) /\ open' = open /\ toc' = toc
        /\ paragraphHasLetter' <=> HasLetter(ReadText(n))
        /\ paragraphHasCyrillic' <=> HasCyrillic(ReadText(n))
        /\ paragraphIsUpperCase' <=> IsUpperCaseCompatible(ReadText(n))
    <3>1. /\ ~HasLetter(<<>>) /\ ~HasCyrillic(<<>>) /\ IsUpperCaseCompatible(<<>>)
          /\ ~paragraphHasLetter /\ ~paragraphHasCyrillic /\ paragraphIsUpperCase
      BY <2>2, Emptied DEF Describes
    <3>2. CASE paras[n].inside
      BY <1>8, <1>11, <2>1, <2>2, <3>1, <3>2 DEF VisitText, Taken, ReadText
    <3>3. CASE ~paras[n].inside
      <4>1. <<>> \o t = t
        BY <2>3 DEF Text
      <4>2. Taken /\ ReadText(n) = t
        BY <1>8, <1>11, <2>2, <3>3 DEF Taken, ReadText
      <4>. QED
        BY <1>11, <2>1, <2>2, <3>1, <4>1, <4>2 DEF VisitText
    <3>. QED
      BY <3>2, <3>3
  <2>5. Describes(n, ReadText(n))'
    BY <1>4, <1>6, <1>11, <2>2, <2>4 DEF Describes, VisitText
  <2>6. OneOpen'
    BY <1>4, <1>5, <1>8, <1>11, <2>4 DEF OneOpen
  <2>. QED
    BY <1>5, <1>7, <1>8, <1>11, <2>5, <2>6 DEF Reading, DescribesLast
<1>12. CASE stage = "close" /\ CloseParagraph /\ stage' = "p"
  <2>1. UNCHANGED paragraph /\ open' = Front(open)
    BY <1>12 DEF CloseParagraph
  <2>2. open' = <<>>
    <3>1. \E S : open \in Seq(S)
      BY <1>2 DEF DocType
    <3>. QED
      BY <1>8, <1>12, <2>1, <3>1 DEF Front
  <2>3. DescribesLast(n) /\ (DescribesLast(n)' <=> DescribesLast(n))
    BY <1>1, <1>4, <1>6, <1>12, <2>1 DEF Reading, DescribesLast, Describes, paragraph
  <2>. QED
    BY <1>5, <1>7, <1>12, <2>2, <2>3 DEF Reading
<1>. QED
  BY <1>9, <1>10, <1>11, <1>12

LEMMA ReadStarts ==
  ASSUME DocInv, phase = "titles", Unread, NEW defined, NEW styles, StartWalker(defined, styles)
  PROVE  Reading'
<1>1. /\ doc = <<>> /\ open = <<>> /\ paragraphText = <<>> /\ result = <<>> /\ currentSection = NoSection
      /\ doc' = doc /\ open' = open /\ paragraphText' = paragraphText
      /\ result' = result /\ currentSection' = currentSection
      /\ stage' = "p" /\ config'.titles = normalizedTopLevelTocTitles /\ titles' = titles /\ paras' = paras
  BY DEF Unread, StartWalker, sections, paragraph, document, tocVars
<1>2. Len(doc') = 0
  BY <1>1
<1>3. normalizedTopLevelTocTitles' = normalizedTopLevelTocTitles
  BY <1>1 DEF normalizedTopLevelTocTitles
<1>4. paras \in Seq(Paras)
  BY DEF DocInv, TocInv, FlagsFollow
<1>5. \A i \in DOMAIN paras : ~(i < 0)
  BY <1>4
<1>6. HeadsBelow(0)' = {}
  BY <1>1, <1>5 DEF HeadsBelow
<1>7. SectionsAre(result', currentSection', ReadBelow(0)', HeadsBelow(0)', ReadTexts')
  BY <1>1, <1>6 DEF SectionsAre
<1>8. DescribesLast(0)'
  BY <1>1 DEF DescribesLast
<1>. QED
  BY <1>1, <1>2, <1>3, <1>7, <1>8 DEF Reading

LEMMA ReadEnds ==
  ASSUME DocInv, Reading, stage = "p", Len(doc) = Len(paras), End, UNCHANGED tocVars
  PROVE  WasRead'
<1>1. PICK n : n = Len(paras)
  OBVIOUS
<1>2. paras \in Seq(Paras) /\ n \in Nat /\ n + 1 \in Nat
  <2>1. paras \in Seq(Paras)
    BY DEF DocInv, TocInv, FlagsFollow
  <2>. QED
    BY <2>1, <1>1
<1>3. /\ DescribesLast(n) /\ config.titles = normalizedTopLevelTocTitles
      /\ SectionsAre(result, currentSection, ReadBelow(n), HeadsBelow(n), ReadTexts)
  BY <1>1 DEF Reading
<1>4. /\ config' = config /\ paras' = paras /\ titles' = titles
      /\ result' = Flushed(FlushedParagraph[1], FlushedParagraph[2])
  BY DEF End, Store, Finished, tocVars
<1>. PICK r, s, K, H, v : /\ r = FlushedParagraph[1] /\ s = FlushedParagraph[2] /\ v = ReadTexts
                          /\ K = ReadBelow(n + 1) /\ H = HeadsBelow(n + 1)
  OBVIOUS
<1>5. SectionsAre(r, s, K, H, v)
  BY <1>1, <1>2, <1>3, ReadFlushed
<1>6. IsCutBy(K, H) /\ Titled(H, v)
  BY <1>2, ReadCut
<1>7. Flushed(r, s) = Cut(K, H, v)
  BY <1>5, <1>6, FlushedIsCut
<1>8. result' = Cut(ReadBelow(n + 1), HeadsBelow(n + 1), ReadTexts)
  BY <1>4, <1>7
<1>9. /\ normalizedTopLevelTocTitles' = normalizedTopLevelTocTitles /\ ReadTexts' = ReadTexts
      /\ ReadBelow(n + 1)' = ReadBelow(n + 1) /\ HeadsBelow(n + 1)' = HeadsBelow(n + 1) /\ Len(paras') = n
  BY <1>1, <1>4, ReadSame
<1>. QED
  BY <1>3, <1>4, <1>8, <1>9 DEF WasRead

LEMMA ReadUnchanged ==
  ASSUME type = "docx", ReadInv, UNCHANGED readerVars
  PROVE  ReadInv'
<1>1. UNCHANGED <<config, result, currentSection, doc, open, toc, skipCurrentRunText, paragraphText, paragraphStyle,
                  paragraphHasLetter, paragraphHasCyrillic, paragraphIsUpperCase, paragraphHasTocBookmark,
                  paragraphHasDotLeaderTab, paras, titles, phase, stage>>
  BY DEF readerVars, vars, sections, paragraph, document, tocVars
<1>2. /\ normalizedTopLevelTocTitles' = normalizedTopLevelTocTitles /\ ReadTexts' = ReadTexts
      /\ \A i : ReadText(i)' = ReadText(i)
      /\ \A n : ReadBelow(n)' = ReadBelow(n) /\ HeadsBelow(n)' = HeadsBelow(n)
  BY <1>1, ReadSame
<1>3. Unread => Unread'
  BY <1>1 DEF Unread
<1>4. Reading => Reading'
  BY <1>1, <1>2 DEF Reading, OneOpen, DescribesLast, Describes
<1>5. WasRead => WasRead'
  BY <1>1, <1>2 DEF WasRead
<1>. QED
  BY <1>1, <1>3, <1>4, <1>5 DEF ReadInv

LEMMA ReadStep == DocInv /\ ReadInv /\ [DocumentReaderNext]_all => ReadInv'
<1>. SUFFICES ASSUME DocInv, ReadInv, [DocumentReaderNext]_all, type' = "docx" PROVE ReadInv'
  BY DEF ReadInv
<1>0. type = "docx" /\ type' = type
  BY DEF DocumentReaderNext, all
<1>1. CASE ReadTitles
  <2>1. phase = "titles" /\ phase' = "titles" /\ UNCHANGED vars /\ stage' = stage
    BY <1>1 DEF ReadTitles
  <2>. QED
    BY <1>0, <2>1 DEF ReadInv, Unread, vars, sections, paragraph, document
<1>2. ASSUME NEW defined \in BOOLEAN, NEW styles, StartWalker(defined, styles) PROVE ReadInv'
  <2>1. phase = "titles" /\ phase' = "sections"
    BY <1>2 DEF StartWalker
  <2>2. Reading'
    BY <1>0, <1>2, <2>1, ReadStarts DEF ReadInv
  <2>. QED
    BY <2>1, <2>2 DEF ReadInv
<1>3. CASE Traverse
  <2>1. phase = "sections" /\ phase' = phase /\ UNCHANGED tocVars
    BY <1>3 DEF Traverse
  <2>2. Reading
    BY <1>0, <2>1 DEF ReadInv
  <2>3. CASE /\ stage = "p" /\ Here.inside = toc /\ VisitParagraph(Here.style, Here.leader) /\ stage' = "r"
    BY <1>3, <2>1, <2>2, <2>3, ReadParagraph DEF ReadInv, Traverse
  <2>4. CASE \/ stage = "p" /\ EnterOrLeaveTableOfContents /\ stage' = "p"
             \/ stage = "r" /\ VisitRun /\ stage' = "t"
             \/ stage = "t" /\ VisitText(Here.text) /\ stage' = "close"
             \/ stage = "close" /\ CloseParagraph /\ stage' = "p"
    BY <2>1, <2>2, <2>4, ReadNode DEF ReadInv
  <2>. QED
    BY <1>3, <2>3, <2>4 DEF Traverse
<1>4. CASE EndTraverse
  <2>1. phase = "sections" /\ phase' = "read" /\ UNCHANGED tocVars
    BY <1>4 DEF EndTraverse
  <2>2. Reading
    BY <1>0, <2>1 DEF ReadInv
  <2>3. WasRead'
    BY <1>4, <2>1, <2>2, ReadEnds DEF EndTraverse
  <2>. QED
    BY <2>1, <2>3 DEF ReadInv
<1>5. CASE ReadXml
  <2>1. phase' = "xml"
    BY <1>5 DEF ReadXml
  <2>. QED
    BY <2>1 DEF ReadInv
<1>6. CASE Rest \/ UNCHANGED all
  BY <1>0, <1>6, ReadUnchanged DEF Rest, all
<1>. QED
  BY <1>0, <1>1, <1>2, <1>3, <1>4, <1>5, <1>6 DEF DocumentReaderNext, ReaderNext

LEMMA ReadInvHolds == DocumentReaderSpec => [](DocInv /\ ReadInv)
<1>1. DocumentReaderInit => ReadInv
  <2>. SUFFICES ASSUME DocumentReaderInit PROVE ReadInv
    OBVIOUS
  <2>1. stage = "p" /\ InitWalker /\ (phase = "titles" \/ phase = "xml")
    BY DEF DocumentReaderInit, ReaderInit, Init
  <2>2. Unread
    BY <2>1 DEF Unread, InitWalker
  <2>. QED
    BY <2>1, <2>2 DEF ReadInv
<1>. QED
  BY <1>1, DocInitInv, DocStep, ReadStep, PTL DEF DocumentReaderSpec

-----------------------------------------------------------------------------
\* A text with a Cyrillic word has something to compare.
LEMMA MatchableWord ==
  ASSUME NEW t \in Text, Has(t, Cyrillic)
  PROVE  normalizeHeadingForMatch(t) # <<>> /\ Len(normalizeHeadingForMatch(t)) \in Nat
<1>1. PICK c \in DOMAIN t : t[c] \in Cyrillic
  BY DEF Has
<1>2. PICK u : u = [i \in DOMAIN t |-> IF t[i] \in Punctuation THEN " " ELSE t[i]]
  OBVIOUS
<1>3. u[c] = t[c] /\ ~IsSpace(u[c]) /\ DOMAIN u = DOMAIN t
  BY <1>1, <1>2, CyrillicIsWord DEF IsSpace
<1>4. PICK S, low : S = {i \in DOMAIN u : IsSpace(u[i]) => BetweenWords(u, i)} /\ low = [i \in DOMAIN u |-> Lower(u[i])]
  OBVIOUS
<1>5. c \in S /\ S \in SUBSET DOMAIN t /\ low[c] = Lower(t[c])
  BY <1>1, <1>3, <1>4
<1>6. IsPlaces(S)
  BY <1>5, Places
<1>7. PICK w : w = Collapse(u)
  OBVIOUS
<1>8. w = Picked(S, low)
  BY <1>4, <1>7 DEF Collapse
<1>9. PICK V : V = {low[i] : i \in S}
  OBVIOUS
<1>10. w \in Seq(V) /\ Len(w) = Cardinality(S)
  BY <1>6, <1>8, <1>9, PickedSeq
<1>11. PICK r : r = Rank(S, c)
  OBVIOUS
<1>12. r \in 1 .. Len(w) /\ w[r] = Lower(t[c])
  BY <1>5, <1>6, <1>8, <1>10, <1>11, PickedPlace
<1>13. w[r] \notin Digits /\ ~IsSpace(w[r])
  BY <1>1, <1>12, LowerCyrillicWord DEF IsSpace
<1>14. PICK number : number = {k \in DOMAIN w \ {1} : IsSpace(w[k]) /\ \A j \in 1 .. k - 1 : w[j] \in Digits}
  OBVIOUS
<1>15. normalizeHeadingForMatch(t)
         = IF number = {} THEN w ELSE SubSeq(w, (CHOOSE k \in number : TRUE) + 1, Len(w))
  <2>1. normalizeHeadingForMatch(t) = stripLeadingTopLevelNumber(w)
    BY <1>2, <1>7 DEF normalizeHeadingForMatch
  <2>. QED
    BY <1>14, <2>1 DEF stripLeadingTopLevelNumber
<1>16. Len(w) \in Nat /\ DOMAIN w = 1 .. Len(w)
  BY <1>10
<1>17. CASE number = {}
  <2>1. normalizeHeadingForMatch(t) = w
    BY <1>15, <1>17
  <2>2. Len(w) # 0
    BY <1>12, <1>16
  <2>3. Len(<<>>) = 0
    OBVIOUS
  <2>. QED
    BY ONLY <1>16, <2>1, <2>2, <2>3
<1>18. CASE number # {}
  <2>1. PICK k : k = (CHOOSE j \in number : TRUE)
    OBVIOUS
  <2>2. k \in number
    BY <1>18, <2>1
  <2>3. k \in 1 .. Len(w) /\ IsSpace(w[k]) /\ \A j \in 1 .. k - 1 : w[j] \in Digits
    BY <1>14, <1>16, <2>2
  <2>4. ~(r < k) /\ r # k
    <3>1. r < k => r \in 1 .. k - 1
      BY <1>12, <1>16, <2>3
    <3>. QED
      BY <1>13, <2>3, <3>1
  <2>5. k + 1 \in Nat /\ 1 <= k + 1 /\ k + 1 <= Len(w) /\ Len(w) - (k + 1) + 1 # 0
    <3>1. PICK n \in Nat : n = Len(w)
      BY <1>16
    <3>2. k \in 1 .. n /\ r \in 1 .. n
      BY <1>12, <2>3, <3>1
    <3>3. k + 1 \in Nat /\ 1 <= k + 1 /\ k + 1 <= n /\ n - (k + 1) + 1 # 0
      BY ONLY <2>4, <3>2, n \in Nat
    <3>. QED
      BY <3>1, <3>3
  <2>6. PICK l : l = k + 1
    OBVIOUS
  <2>7. SubSeq(w, l, Len(w)) \in Seq(V) /\ Len(SubSeq(w, l, Len(w))) = Len(w) - l + 1
    BY ONLY <1>10, <1>16, <2>5, <2>6
  <2>8. normalizeHeadingForMatch(t) = SubSeq(w, l, Len(w))
    BY <1>15, <1>18, <2>1, <2>6
  <2>9. Len(normalizeHeadingForMatch(t)) # 0 /\ Len(normalizeHeadingForMatch(t)) \in Nat
    BY <1>16, <2>5, <2>6, <2>7, <2>8
  <2>10. Len(<<>>) = 0
    OBVIOUS
  <2>. QED
    BY ONLY <2>9, <2>10
<1>. QED
  BY <1>17, <1>18

\* The titles collected hold every title that is listed.
LEMMA ListedIsCollected ==
  ASSUME TocInv, NEW j \in DOMAIN paras, Listed(j)
  PROVE  cleanTocTitle(paras[j].text) \in ToSet(titles)
<1>1. PICK S, clean : S = {i \in DOMAIN paras : Listed(i)} /\ clean = [i \in DOMAIN paras |-> cleanTocTitle(paras[i].text)]
  OBVIOUS
<1>2. j \in S /\ clean[j] = cleanTocTitle(paras[j].text) /\ titles = Picked(S, clean)
  BY <1>1 DEF TocInv, TitlesAreListed
<1>3. IsPlaces(S)
  <2>1. paras \in Seq(Paras)
    BY DEF TocInv, FlagsFollow
  <2>2. Len(paras) \in Nat /\ S \in SUBSET (1 .. Len(paras))
    BY <1>1, <2>1
  <2>. QED
    BY <2>2, PlacesOfSequence
<1>4. Rank(S, j) \in DOMAIN titles /\ titles[Rank(S, j)] = clean[j]
  BY <1>2, <1>3, PickedPlace
<1>. QED
  BY <1>2, <1>4 DEF ToSet

\* u is a stretch of t, which begins after the first o tokens.
PartFrom(u, t, o) ==
  /\ o \in Nat /\ Len(u) + o <= Len(t)
  /\ \A i \in 1 .. Len(u) : u[i] = t[i + o]
Part(u, t) == u \in Text /\ \E o : PartFrom(u, t, o)

LEMMA PartOfPart ==
  ASSUME NEW t \in Text, NEW u, Part(u, t), NEW v, Part(v, u)
  PROVE  Part(v, t)
<1>1. PICK o, q : PartFrom(u, t, o) /\ PartFrom(v, u, q)
  BY DEF Part
<1>2. u \in Text /\ v \in Text
  BY DEF Part
<1>3. Len(t) \in Nat /\ Len(u) \in Nat /\ Len(v) \in Nat
  BY <1>2 DEF Text
<1>4. PICK m, n, k \in Nat : m = Len(t) /\ n = Len(u) /\ k = Len(v)
  BY <1>3
<1>5. o \in Nat /\ q \in Nat /\ n + o <= m /\ k + q <= n
  BY <1>1, <1>4 DEF PartFrom
<1>6. o + q \in Nat /\ k + (o + q) <= m
  BY ONLY <1>5, m \in Nat, n \in Nat, k \in Nat
<1>7. ASSUME NEW i \in 1 .. k PROVE v[i] = t[i + (o + q)]
  <2>1. i + q \in 1 .. n /\ (i + q) + o = i + (o + q)
    BY <1>5
  <2>2. v[i] = u[i + q]
    BY <1>1, <1>4 DEF PartFrom
  <2>3. u[i + q] = t[(i + q) + o]
    BY <1>1, <1>4, <2>1 DEF PartFrom
  <2>. QED
    BY <2>1, <2>2, <2>3
<1>8. PartFrom(v, t, o + q)
  BY <1>4, <1>6, <1>7 DEF PartFrom
<1>. QED
  BY <1>2, <1>8 DEF Part

LEMMA TrimIsPart ==
  ASSUME NEW t \in Text
  PROVE  Part(trim(t), t)
<1>1. PICK W : W = {i \in DOMAIN t : ~IsSpace(t[i])}
  OBVIOUS
<1>2. W \in SUBSET DOMAIN t /\ IsPlaces(W) /\ Len(t) \in Nat /\ DOMAIN t = 1 .. Len(t)
  BY <1>1, Places
<1>3. CASE W = {}
  <2>1. trim(t) = <<>>
    BY <1>1, <1>3 DEF trim
  <2>2. Len(<<>>) = 0 /\ <<>> \in Text
    BY DEF Text
  <2>3. PartFrom(<<>>, t, 0)
    BY <1>2, <2>2 DEF PartFrom
  <2>. QED
    BY <2>1, <2>2, <2>3 DEF Part
<1>4. CASE W # {}
  <2>1. PICK a, b : a = Min(W) /\ b = Max(W)
    OBVIOUS
  <2>2. a \in W /\ b \in W /\ a <= b
    BY <1>2, <1>4, <2>1, MinMaxPlace
  <2>3. a \in 1 .. Len(t) /\ b \in 1 .. Len(t)
    BY <1>2, <2>2
  <2>4. trim(t) = SubSeq(t, a, b)
    BY <1>1, <1>4, <2>1 DEF trim
  <2>5. PICK u : u = SubSeq(t, a, b)
    OBVIOUS
  <2>6. /\ u \in Text /\ Len(u) = b - a + 1
        /\ \A i \in 1 .. b - a + 1 : u[i] = t[i + (a - 1)]
    BY <1>2, <2>2, <2>3, <2>5 DEF Text
  <2>7. a - 1 \in Nat /\ (b - a + 1) + (a - 1) <= Len(t)
    BY <1>2, <2>2, <2>3
  <2>8. PartFrom(u, t, a - 1)
    BY <2>6, <2>7 DEF PartFrom
  <2>. QED
    BY <2>4, <2>5, <2>6, <2>8 DEF Part
<1>. QED
  BY <1>3, <1>4

\* cleanTocTitle takes something off at both ends and nothing between.
LEMMA CleanIsPart ==
  ASSUME NEW t \in Text
  PROVE  Part(cleanTocTitle(t), t)
<1>1. PICK u : u = trim(t)
  OBVIOUS
<1>2. u \in Text /\ Part(u, t)
  BY <1>1, TrimIsPart DEF Part
<1>3. Len(u) \in Nat /\ DOMAIN u = 1 .. Len(u)
  BY <1>2 DEF Text
<1>4. PICK N, kept : /\ N = {i \in DOMAIN u : u[i] \notin Digits}
                     /\ kept = {i \in DOMAIN u : \E j \in i .. Len(u) : u[j] \notin Digits}
  OBVIOUS
<1>5. PICK m \in 0 .. Len(u) : kept = 1 .. m
  <2>1. CASE N = {}
    <3>1. kept = {}
      <4>1. \A i \in 1 .. Len(u) : \A j \in i .. Len(u) : u[j] \in Digits
        BY <1>3, <1>4, <2>1
      <4>. QED
        BY <1>3, <1>4, <4>1
    <3>2. 0 \in 0 .. Len(u) /\ 1 .. 0 = {}
      BY <1>3
    <3>. QED
      BY <3>1, <3>2
  <2>2. CASE N # {}
    <3>1. N \in SUBSET DOMAIN u /\ IsPlaces(N)
      BY <1>2, <1>4, Places
    <3>2. Max(N) \in N /\ \A i \in N : i <= Max(N)
      BY <2>2, <3>1, MinMaxPlace
    <3>3. PICK m : m = Max(N)
      OBVIOUS
    <3>4. m \in 1 .. Len(u) /\ u[m] \notin Digits /\ \A i \in 1 .. Len(u) : u[i] \notin Digits => i <= m
      BY <1>3, <1>4, <3>2, <3>3
    <3>5. ASSUME NEW i \in 1 .. Len(u) PROVE (\E j \in i .. Len(u) : u[j] \notin Digits) <=> i <= m
      <4>1. ASSUME NEW j \in i .. Len(u), u[j] \notin Digits PROVE i <= m
        BY <1>3, <3>4, <4>1
      <4>2. i <= m => m \in i .. Len(u)
        BY <1>3, <3>4
      <4>. QED
        BY <3>4, <4>1, <4>2
    <3>6. kept = 1 .. m
      BY <1>3, <1>4, <3>4, <3>5
    <3>. QED
      BY <1>3, <3>4, <3>6
  <2>. QED
    BY <2>1, <2>2
<1>6. PICK w : w = [i \in 1 .. m |-> u[i]]
  OBVIOUS
<1>7. w \in Text /\ Len(w) = m /\ \A i \in 1 .. m : w[i] = u[i + 0]
  <2>1. m \in Nat /\ \A i \in 1 .. m : i \in 1 .. Len(u) /\ i + 0 = i
    BY <1>3, <1>5
  <2>2. \A i \in 1 .. m : u[i] \in STRING
    BY <1>2, <2>1 DEF Text
  <2>. QED
    BY <1>6, <2>1, <2>2 DEF Text
<1>8. Part(w, u)
  <2>1. PartFrom(w, u, 0)
    BY <1>3, <1>5, <1>7 DEF PartFrom
  <2>. QED
    BY <1>7, <2>1 DEF Part
<1>9. Part(trim(w), w)
  BY <1>7, TrimIsPart
<1>10. cleanTocTitle(t) = trim(w)
  BY <1>1, <1>4, <1>5, <1>6 DEF cleanTocTitle
<1>11. Part(trim(w), u)
  BY <1>2, <1>8, <1>9, PartOfPart
<1>. QED
  BY <1>2, <1>10, <1>11, PartOfPart

LEMMA DotsOfPart ==
  ASSUME NEW t \in Text, NEW u, Part(u, t), hasDotLeaders(u)
  PROVE  hasDotLeaders(t)
<1>1. PICK o : PartFrom(u, t, o)
  BY DEF Part
<1>2. u \in Text
  BY DEF Part
<1>3. PICK m, n : m = Len(u) /\ n = Len(t)
  OBVIOUS
<1>4. m \in Nat /\ n \in Nat /\ DOMAIN u = 1 .. m /\ DOMAIN t = 1 .. n
  BY <1>2, <1>3 DEF Text
<1>5. o \in Nat /\ m + o <= n /\ \A i \in 1 .. m : u[i] = t[i + o]
  BY <1>1, <1>3 DEF PartFrom
<1>6. \A i \in 1 .. m : i + o \in 1 .. n
  BY <1>4, <1>5
<1>7. CASE \E i \in 1 .. m : u[i] = "..."
  BY <1>4, <1>5, <1>6, <1>7 DEF hasDotLeaders
<1>8. CASE \E i \in 1 .. m : i + 2 <= m /\ \A j \in i .. i + 2 : u[j] = "."
  <2>1. PICK i \in 1 .. m : i + 2 <= m /\ \A j \in i .. i + 2 : u[j] = "."
    BY <1>8
  <2>2. i + o \in 1 .. n /\ (i + o) + 2 <= n
    BY <1>4, <1>5, <2>1
  <2>3. ASSUME NEW j \in i + o .. (i + o) + 2 PROVE t[j] = "."
    <3>1. PICK k : k = j - o
      OBVIOUS
    <3>2. k \in i .. i + 2 /\ k \in 1 .. m /\ k + o = j
      BY <1>4, <1>5, <2>1, <3>1
    <3>. QED
      BY <1>5, <2>1, <3>2
  <2>. QED
    BY <1>3, <1>4, <2>2, <2>3 DEF hasDotLeaders
<1>. QED
  BY <1>3, <1>4, <1>7, <1>8 DEF hasDotLeaders

\* A row of a typed table is one for the walker too, unless it has neither a
\* tab nor a page number.
LEMMA RowsDropped == TocInv => RowsAreDropped
<1>. SUFFICES ASSUME TocInv, NEW i \in DOMAIN paras, ManualRow(i) PROVE Dropped(i) <=> ~Numberless(i)
  BY DEF RowsAreDropped
<1>1. PICK t : t = paras[i].text
  OBVIOUS
<1>2. t \in Text
  <2>1. paras \in Seq(Paras)
    BY DEF TocInv, FlagsFollow
  <2>2. paras[i] \in Paras
    BY <2>1
  <2>. QED
    BY <1>1, <2>2, ParaAssumption
<1>3. paras[i].leader \/ hasDotLeaders(cleanTocTitle(t))
  BY <1>1 DEF ManualRow, isTocRow
<1>4. paras[i].leader \/ hasDotLeaders(t)
  BY <1>2, <1>3, CleanIsPart, DotsOfPart
<1>. QED
  BY <1>1, <1>4 DEF Dropped, Numberless, looksLikeManualTocRow

\* What has a Cyrillic word, is no row and reads like a title of the contents
\* is a heading when there are no heading styles.
LEMMA ListedBegins ==
  ASSUME TocInv, WasRead, config.styles = {}, NEW i \in DOMAIN paras, NEW j \in DOMAIN paras, Listed(j),
         ~paras[i].inside, ~Dropped(i), HasCyrillic(paras[i].text),
         normalizeHeadingForMatch(cleanTocTitle(paras[j].text)) = normalizeHeadingForMatch(paras[i].text)
  PROVE  i \in DOMAIN paras /\ ReadText(i) = paras[i].text /\ Begins(i)
<1>1. PICK t : t = paras[i].text
  OBVIOUS
<1>2. paras \in Seq(Paras) /\ i \in DOMAIN paras /\ ~paras[i].inside /\ ~looksLikeManualTocRow(t, paras[i].leader)
  BY <1>1 DEF Dropped, TocInv, FlagsFollow
<1>3. ReadText(i) = t /\ t \in Text
  <2>1. ReadText(i) = t
    BY <1>1, <1>2 DEF ReadText
  <2>. QED
    BY <1>2, <2>1, ReadTextIsText
<1>4. HasCyrillic(t) /\ HasLetter(t) /\ Has(t, Cyrillic)
  BY <1>1, <1>3, CheckedSome
<1>5. t # <<>>
  BY <1>4 DEF Has
<1>6. PICK name : name = normalizeHeadingForMatch(t)
  OBVIOUS
<1>7. name # <<>> /\ Len(name) \in Nat
  BY <1>3, <1>4, <1>6, MatchableWord
<1>8. name \in config.titles
  <2>1. cleanTocTitle(paras[j].text) \in ToSet(titles)
    BY ListedIsCollected
  <2>2. name \in normalizedTopLevelTocTitles
    BY <1>1, <1>6, <1>7, <2>1 DEF normalizedTopLevelTocTitles
  <2>. QED
    BY <2>2 DEF WasRead
<1>9. IsPrefix(name, name)
  BY <1>7 DEF IsPrefix
<1>10. matchesTopLevelTocTitle(t, config.titles)
  BY <1>6, <1>7, <1>8, <1>9 DEF matchesTopLevelTocTitle
<1>. QED
  BY <1>1, <1>2, <1>3, <1>4, <1>5, <1>10 DEF Begins, Reads, isHeadingParagraph

\* The k-th section is that of the k-th heading, and that is no row of the
\* contents but one without a page number.
LEMMA SectionsBegin ==
  ASSUME TocInv, WasRead, phase = "read", NEW H, H = HeadsBelow(Len(paras) + 1)
  PROVE  /\ IsPlaces(H) /\ Cardinality(H) \in Nat /\ DOMAIN result = 1 .. Cardinality(H)
         /\ \A k \in 1 .. Cardinality(H) :
              /\ Nth(H, k) \in MayStartSection
              /\ result[k].title = normalizeTitle(paras[Nth(H, k)].text)
<1>1. paras \in Seq(Paras) /\ Len(paras) + 1 \in Nat
  <2>1. paras \in Seq(Paras)
    BY DEF TocInv, FlagsFollow
  <2>. QED
    BY <2>1
<1>2. PICK K : K = ReadBelow(Len(paras) + 1)
  OBVIOUS
<1>3. IsPlaces(H)
  BY <1>1, ReadCut DEF IsCutBy
<1>4. Cardinality(H) \in Nat
  BY <1>3, FS_CardinalityType DEF IsPlaces
<1>5. result = [k \in 1 .. Cardinality(H) |-> SectionAt(K, H, ReadTexts, Nth(H, k))]
  BY <1>2 DEF WasRead, Cut
<1>6. ASSUME NEW k \in 1 .. Cardinality(H)
      PROVE  Nth(H, k) \in MayStartSection /\ result[k].title = normalizeTitle(paras[Nth(H, k)].text)
  <2>1. PICK h : h = Nth(H, k)
    OBVIOUS
  <2>2. h \in H
    BY <1>3, <2>1, NthPlace
  <2>3. h \in DOMAIN paras /\ Reads(h)
    BY <2>2 DEF HeadsBelow, Begins
  <2>4. ~paras[h].inside /\ ReadText(h) = paras[h].text
    BY <2>3 DEF Reads, ReadText
  <2>5. h \in MayStartSection
    <3>1. ~Dropped(h)
      BY <2>3, <2>4 DEF Dropped, Reads
    <3>2. ManualRow(h) => Numberless(h)
      BY <2>3, <3>1, RowsDropped DEF RowsAreDropped
    <3>. QED
      BY <2>3, <2>4, <3>2 DEF MayStartSection, InContents
  <2>6. result[k].title = normalizeTitle(ReadTexts[h])
    BY <1>5, <2>1 DEF SectionAt
  <2>7. ReadTexts[h] = paras[h].text
    BY <2>3, <2>4 DEF ReadTexts
  <2>. QED
    BY <2>1, <2>5, <2>6, <2>7
<1>. QED
  BY <1>3, <1>4, <1>5, <1>6

LEMMA TitlesBegin == TocInv /\ (phase = "read" => WasRead) => ListedTitlesStartSections
<1>. SUFFICES ASSUME TocInv, WasRead, phase = "read", config.styles = {}, NEW i \in DOMAIN paras, NEW j \in DOMAIN paras,
                     Listed(j), ~paras[i].inside, ~Dropped(i), HasCyrillic(paras[i].text),
                     normalizeHeadingForMatch(cleanTocTitle(paras[j].text)) = normalizeHeadingForMatch(paras[i].text)
              PROVE  \E section \in ToSet(result) : section.title = normalizeTitle(paras[i].text)
  BY DEF ListedTitlesStartSections
<1>1. PICK H : H = HeadsBelow(Len(paras) + 1)
  OBVIOUS
<1>2. i \in H
  <2>1. i \in DOMAIN paras /\ Begins(i)
    BY ListedBegins
  <2>2. paras \in Seq(Paras)
    BY DEF TocInv, FlagsFollow
  <2>3. i < Len(paras) + 1
    BY <2>1, <2>2
  <2>. QED
    BY <1>1, <2>1, <2>3 DEF HeadsBelow
<1>3. /\ IsPlaces(H) /\ DOMAIN result = 1 .. Cardinality(H)
      /\ \A k \in 1 .. Cardinality(H) : result[k].title = normalizeTitle(paras[Nth(H, k)].text)
  BY <1>1, SectionsBegin
<1>4. PICK k : k = Rank(H, i)
  OBVIOUS
<1>5. k \in 1 .. Cardinality(H) /\ Nth(H, k) = i
  BY <1>2, <1>3, <1>4, RankRange, NthOfRank
<1>6. k \in DOMAIN result /\ result[k].title = normalizeTitle(paras[i].text)
  BY <1>3, <1>5
<1>. QED
  BY <1>6 DEF ToSet

LEMMA NoMoreThanMayStart == TocInv /\ (phase = "read" => WasRead) => ContentsAreNoSections
<1>. SUFFICES ASSUME TocInv, WasRead, phase = "read", NEW title
              PROVE  Cardinality({k \in DOMAIN result : result[k].title = title})
                       <= Cardinality({i \in MayStartSection : normalizeTitle(paras[i].text) = title})
  BY DEF ContentsAreNoSections
<1>1. PICK H : H = HeadsBelow(Len(paras) + 1)
  OBVIOUS
<1>2. PICK A, B : /\ A = {k \in DOMAIN result : result[k].title = title}
                  /\ B = {i \in MayStartSection : normalizeTitle(paras[i].text) = title}
  OBVIOUS
<1>3. /\ IsPlaces(H) /\ Cardinality(H) \in Nat /\ DOMAIN result = 1 .. Cardinality(H)
      /\ \A k \in 1 .. Cardinality(H) :
           Nth(H, k) \in MayStartSection /\ result[k].title = normalizeTitle(paras[Nth(H, k)].text)
  BY <1>1, SectionsBegin
<1>4. IsFiniteSet(B)
  <2>1. paras \in Seq(Paras)
    BY DEF TocInv, FlagsFollow
  <2>2. Len(paras) \in Nat /\ B \in SUBSET (1 .. Len(paras))
    BY <1>2, <2>1 DEF MayStartSection
  <2>. QED
    BY <2>2, PlacesOfSequence DEF IsPlaces
<1>5. PICK f : f = [k \in A |-> Nth(H, k)]
  OBVIOUS
<1>6. \A k \in A : k \in 1 .. Cardinality(H) /\ Nth(H, k) \in B
  BY <1>2, <1>3
<1>7. \A k \in A : Rank(H, Nth(H, k)) = k
  BY <1>3, <1>6, NthPlace
<1>8. f \in Injection(A, B)
  BY <1>5, <1>6, <1>7 DEF Injection, IsInjective
<1>9. Cardinality(A) <= Cardinality(B)
  BY ONLY <1>4, <1>8, FS_Injection DEF ExistsInjection
<1>. QED
  BY <1>2, <1>9

(***************************************************************************)
(* ContentsMatchSections: for any paragraphs, in whatever order tables of  *)
(* contents, rows and headings come, collectTopLevelTocTitles and the      *)
(* walker agree - a paragraph that reads like a listed title and is not    *)
(* dropped begins a section, rows of a typed table are dropped, and the    *)
(* contents make no sections - but for typed rows without a page number,   *)
(* which only the first of the two takes for rows.                         *)
(***************************************************************************)
THEOREM ContentsMatch == DocumentReaderSpec => []ContentsMatchSections
<1>1. DocInv /\ ReadInv => ContentsMatchSections
  <2>. SUFFICES ASSUME DocInv, ReadInv PROVE ContentsMatchSections
    OBVIOUS
  <2>1. TocInv /\ (phase = "read" => WasRead)
    BY DEF DocInv, Phases, ReadInv
  <2>. QED
    BY <2>1, TitlesBegin, RowsDropped, NoMoreThanMayStart DEF ContentsMatchSections
<1>. QED
  BY <1>1, ReadInvHolds, PTL
=============================================================================
