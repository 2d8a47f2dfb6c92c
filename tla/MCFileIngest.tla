---------------------------- MODULE MCFileIngest ----------------------------
\* Two uploads that share a document, and a re-ingest.
EXTENDS FileIngest

CONSTANTS a, b

MCFilesOf == [j \in Jobs |-> CASE j = 1 -> <<a, b>> [] j = 2 -> <<b>> [] j = 3 -> <<>>]
=============================================================================
