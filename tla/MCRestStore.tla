----------------------------- MODULE MCRestStore -------------------------------
(* The methods for documents, tokens and sessions use different tables. *)
EXTENDS RestStore, TLC

DocumentMethods == {"insertDocument", "selectDocumentById", "deleteDocument"}
TokenMethods == {"upsertGoogleOAuthTokens", "selectGoogleOAuthTokens", "selectAuthUser", "insertAuthUser",
                 "updateAuthUserLogin"}
SessionMethods == (Writes \cup Reads) \ (DocumentMethods \cup TokenMethods)
Groups == {DocumentMethods, TokenMethods, SessionMethods}
SomeContents == {<<>>, <<"s1", "s2">>}
CallSymmetry == Permutations(Calls)
=============================================================================
