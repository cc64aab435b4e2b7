---------------------------- MODULE MCCorpusStore ----------------------------
(***************************************************************************)
(* A GitHub file of two revisions, one of them also chunked as code after  *)
(* the file types were extended, and a pasted note that hints the slug of  *)
(* the file from another corpus.                                           *)
(***************************************************************************)
EXTENDS CorpusStore

MCParts == [b \in Bodies |-> IF b = "long" THEN 2 ELSE 1]

File(text, form) ==
    [base |-> "readme", uri |-> "github", corpus |-> "repo", kind |-> form, body |-> text, seed |-> FALSE]
Note == [File("short", "prose") EXCEPT !.uri = None, !.corpus = "imported"]

MCInputs == {File("short", "prose"), File("short", "code"), File("long", "prose"), Note}
==============================================================================
