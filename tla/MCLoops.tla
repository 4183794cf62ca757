------------------------------- MODULE MCLoops --------------------------------
(***************************************************************************)
(* The loops over data of any size or shape: readZipEntry with its growing *)
(* buffer, resolveOutlineLevel over styles that name each other, and       *)
(* base64UrlEncode with an int that overflows.  None uses anything of the  *)
(* others: a behaviour takes the steps of one, those of the last two       *)
(* beside a file that is never opened.                                     *)
(***************************************************************************)
EXTENDS ZipReader, FiniteSets

CONSTANTS
  Ids, StyleNodes, MaxStyles,   \* of DocStyles
  TokenBytes, TokenLength, Width \* of Base64Url

VARIABLES
  nodes, styles, todo, current, visiting, topLevelHeadingStyles,
  data, val, valb, result, ended

stylesVars == <<nodes, styles, todo, current, visiting, topLevelHeadingStyles>>
tokenVars == <<data, val, valb, result, ended>>
all == <<vars, stylesVars, tokenVars>>

Styles == INSTANCE DocStyles WITH Nodes <- StyleNodes
Base64 == INSTANCE Base64Url WITH Bytes <- TokenBytes, MaxLength <- TokenLength

ASSUME StyleAssumption ==
  /\ IsFiniteSet(Ids) /\ StyleNodes \subseteq Styles!StyleInfo
  /\ None \notin Ids \cup {0, 1} /\ None \notin Styles!StyleInfo

\* An int has 16 bits or more.
ASSUME TokenAssumption ==
  /\ TokenBytes \subseteq 0 .. 255
  /\ 2 ^ (Width - 1) \in Nat /\ 2 ^ Width \in Nat \ {0} /\ 2 ^ Width % 65536 = 0

Unopened == pc = "stream" /\ \A e \in Entries : zip[e] = None
ReadFile == nodes = <<>> /\ data = <<>> /\ ~ended /\ Step /\ UNCHANGED <<stylesVars, tokenVars>>
ReadStyles == Unopened /\ data = <<>> /\ ~ended /\ Styles!Next /\ UNCHANGED <<vars, tokenVars>>
EncodeToken == Unopened /\ nodes = <<>> /\ Base64!Next /\ UNCHANGED <<vars, stylesVars>>
LoopsInit == Init /\ Styles!Init /\ Base64!Init
LoopsSpec ==
  /\ LoopsInit
  /\ [][ReadFile \/ ReadStyles \/ EncodeToken \/ (Ended /\ UNCHANGED <<stylesVars, tokenVars>>)]_all
  /\ WF_all(ReadFile) /\ WF_stylesVars(Styles!Resolve)

-----------------------------------------------------------------------------
\* What a style is based on matters, and its name, only without a level.
SomeStyleNodes ==
  [id : Ids, headingOne : {FALSE}, basedOn : {None}, outlineLevel : {0, 1}] \cup
  [id : Ids, headingOne : BOOLEAN, basedOn : Ids \cup {None}, outlineLevel : {None}]
\* The bytes at the ends of the range and with single bits at each end.
SomeBytes == {0, 1, 90, 128, 255}

\* A style is a heading by its own level or by what it inherits.
HeadingsAreInherited == Styles!HeadingsAreInherited
\* Reading an entry of any size and resolving styles in any circle both end.
LoopsEnd == ReadingEnds /\ Styles!ResolvingEnds
\* The text of a token says all its bits and no other, whatever overflows.
EncodesEveryBit == Base64!EncodesEveryBit
=============================================================================
