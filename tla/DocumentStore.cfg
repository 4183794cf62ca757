\* Three calls about two files: a pair that is compared, two inserts and a
\* deletion of one file, or a read between them.  No symmetry: the run checks a
\* liveness property too.
CONSTANTS
  Calls = {c1, c2, c3}
  Ids = {f1, f2}
  Titles = {"t1", "t2"}
  Contents <- SomeContents
  None = None
SPECIFICATION FairSpec
PROPERTIES ImplementsDirectory CallsReturn
