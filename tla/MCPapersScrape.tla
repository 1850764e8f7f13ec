---- MODULE MCPapersScrape ----
(* Small instances of PapersScrape: three papers, one of them cross-listed, one *)
(* malformed, one that OpenAlex is not sure of.                                 *)
EXTENDS PapersScrape

PaperTables == {"papers", "rejects"}
PaperKeys == {PaperKey(x) : x \in Papers} \cup {RejectKey(x) : x \in Papers}
TableOfKey == [k \in PaperKeys |-> IF k[1] = "paper" THEN "papers" ELSE "rejects"]

SubmittedOn == [x \in Papers |-> IF x \in {1, 2} THEN 1 ELSE 2]
ListedUnder == [x \in Papers |-> IF x = 1 THEN {"cs.AI", "cs.LG"} ELSE {"cs.LG"}]
TwoCategories == <<"cs.AI", "cs.LG">>
Said == [x \in Papers |-> IF x = 1 THEN {"linked"} ELSE {"rejected", "miss"}]
====
