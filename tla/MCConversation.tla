--------------------------- MODULE MCConversation ---------------------------
(* Instances of the conversations: two datasets, one session or two.       *)
EXTENDS Conversation, TLC

CONSTANTS bird, spider, media

SqliteTypes == [d \in Datasets |-> IF d = media THEN "multimodal_demo" ELSE "sqlite_benchmark"]
Named == Datasets
OrNone == Datasets \cup {None}
Symmetry == Permutations(Questions) \cup Permutations(Sqls)

=============================================================================
