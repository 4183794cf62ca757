------------------------------- MODULE DocStyles -------------------------------
(***************************************************************************)
(* parseStyles reads word/styles.xml and finds the styles of top-level     *)
(* headings.  The outline level of a style without one is that of the      *)
(* style it is based on; resolveOutlineLevel follows basedOn and keeps the *)
(* set visiting, since a file may name a style as its own ancestor.        *)
(***************************************************************************)
EXTENDS Naturals, FiniteSets, Sequences

CONSTANTS Ids,       \* style ids; basedOn may name one that is not defined
          Nodes,     \* w:style nodes a file may have
          MaxStyles, \* bound on their number in a file
          None

Levels == {0, 1}
StyleInfo == [id : Ids, headingOne : BOOLEAN, basedOn : Ids \cup {None},
              outlineLevel : Levels \cup {None}]

VARIABLES
  nodes,    \* the w:style nodes of the file, in order
  styles,   \* documentStyles.styles: the style of each id, or None
  todo,     \* ids the second loop has not resolved
  current,  \* the style and the id resolveOutlineLevel looks at
  visiting, \* the ids it has come through
  topLevelHeadingStyles

vars == <<nodes, styles, todo, current, visiting, topLevelHeadingStyles>>

Idle == [style |-> None, at |-> None]

TypeOK ==
  /\ nodes \in Seq(StyleInfo) /\ Len(nodes) <= MaxStyles
  /\ styles \in [Ids -> StyleInfo \cup {None}]
  /\ todo \subseteq Ids
  /\ current \in [style : Ids \cup {None}, at : Ids \cup {None}]
  /\ visiting \subseteq Ids
  /\ topLevelHeadingStyles \subseteq {id \in Ids : styles[id] # None}

Init ==
  /\ nodes = <<>> /\ styles = [id \in Ids |-> None]
  /\ todo = {} /\ current = Idle /\ visiting = {}
  /\ topLevelHeadingStyles = {}

-----------------------------------------------------------------------------
\* styles.emplace: the first style of an id stays.  A mutant assigns.
Assigned(style) == [styles EXCEPT ![style.id] = style]
Emplaced(style) == IF styles[style.id] = None THEN [styles EXCEPT ![style.id] = style] ELSE styles
ReadStyle(style) ==
  /\ topLevelHeadingStyles = {} /\ current = Idle /\ todo = {id \in Ids : styles[id] # None}
  /\ Len(nodes) < MaxStyles
  /\ nodes' = Append(nodes, style)
  /\ styles' = Emplaced(style)
  /\ todo' = todo \cup {style.id}
  /\ UNCHANGED <<current, visiting, topLevelHeadingStyles>>

\* The loop over the unordered map takes its entries in any order.
StartStyle(id) ==
  /\ current = Idle /\ id \in todo
  /\ todo' = todo \ {id}
  /\ current' = [style |-> id, at |-> id]
  /\ visiting' = {}
  /\ UNCHANGED <<nodes, styles, topLevelHeadingStyles>>

\* What the loop does with the level that came back.
IsHeading(level) == level = 0 \/ (level = None /\ styles[current.style].headingOne)
WithStyle(level) == topLevelHeadingStyles \cup (IF IsHeading(level) THEN {current.style} ELSE {})
Resolved(level) ==
  /\ topLevelHeadingStyles' = WithStyle(level)
  /\ current' = Idle
  /\ UNCHANGED <<nodes, styles, todo, visiting>>

\* The search ends; a mutant does not remember where it came through.
EndOfLine(at) == styles[at] # None => styles[at].basedOn = None
Dead(at) == styles[at] # None => styles[at].basedOn = None \/ at \in visiting

ReturnLevel ==
  /\ current # Idle /\ styles[current.at] # None /\ styles[current.at].outlineLevel # None
  /\ Resolved(styles[current.at].outlineLevel)

ReturnNullopt ==
  /\ current # Idle /\ Dead(current.at)
  /\ styles[current.at] # None => styles[current.at].outlineLevel = None
  /\ Resolved(None)

VisitBase ==
  /\ current # Idle /\ ~Dead(current.at) /\ styles[current.at].outlineLevel = None
  /\ visiting' = visiting \cup {current.at}
  /\ current' = [current EXCEPT !.at = styles[current.at].basedOn]
  /\ UNCHANGED <<nodes, styles, todo, topLevelHeadingStyles>>

Resolve == (\E id \in Ids : StartStyle(id)) \/ ReturnLevel \/ ReturnNullopt \/ VisitBase
Idling == current = Idle /\ todo = {} /\ UNCHANGED vars
Next == (\E style \in Nodes : ReadStyle(style)) \/ Resolve \/ Idling

Spec == Init /\ [][Next]_vars
FairSpec == Spec /\ WF_vars(Resolve)

-----------------------------------------------------------------------------
Defined(id) == id \in Ids /\ \E i \in DOMAIN nodes : nodes[i].id = id
First(id) == nodes[CHOOSE i \in DOMAIN nodes : nodes[i].id = id /\ \A j \in 1 .. i - 1 : nodes[j].id # id]

\* A line of descent: each style is the base of the one before it.
Descent(line) ==
  /\ \A i \in DOMAIN line : Defined(line[i])
  /\ \A i \in DOMAIN line \ {1} : line[i] = First(line[i - 1]).basedOn
Without(line) == \A i \in 1 .. Len(line) - 1 : First(line[i]).outlineLevel = None
Lines(id) == {line \in UNION {[1 .. n -> Ids] : n \in 1 .. Cardinality(Ids)} :
                line[1] = id /\ Descent(line) /\ Without(line)}
LevelOf(id) ==
  LET ends == {First(line[Len(line)]).outlineLevel : line \in Lines(id)} \ {None}
  IN IF ends = {} THEN None ELSE CHOOSE level \in ends : TRUE

(***************************************************************************)
(* A style is a top-level heading when its nearest ancestor with a level,  *)
(* itself included, has level 0, and when no ancestor has a level but it   *)
(* is called heading 1.  Of several definitions of an id the first counts, *)
(* whatever order the map gives the styles in, and cycles and undefined    *)
(* bases count as no level.                                                *)
(***************************************************************************)
HeadingsAreInherited ==
  \A id \in Ids : Defined(id) /\ id \notin todo /\ current.style # id =>
    (id \in topLevelHeadingStyles <=> LevelOf(id) = 0 \/ (LevelOf(id) = None /\ First(id).headingOne))

(***************************************************************************)
(* A file whose styles are based on each other in a circle does not keep   *)
(* the reader in resolveOutlineLevel for ever: every style it starts on is *)
(* resolved.                                                               *)
(***************************************************************************)
ResolvingEnds == \A id \in Ids : current.style = id ~> current.style # id
=============================================================================
