--------------------------- MODULE MCDocumentStore -----------------------------
\* Instances of DocumentStore for TLC.
EXTENDS DocumentStore

\* A document with one section, with one title twice, and with two titles.
SomeContents == {<<"t1">>, <<"t1", "t1">>, <<"t2", "t1">>}
=============================================================================
