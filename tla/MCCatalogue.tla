----------------------------- MODULE MCCatalogue -----------------------------
(***************************************************************************)
(* Two records of one paper, each with something the other lacks, two      *)
(* members who share a short name, and an index that knows a third version *)
(* of the paper and the same DOI under another id.                         *)
(***************************************************************************)
EXTENDS Catalogue, TLC

MCNames == <<<<"goncalo", "oliveira">>, <<"goncalo", "goulart", "oliveira">>,
             <<"alexandre", "francisco">>>>
MCExtra == <<{}, {}, {<<"alexandre", "paulo", "lopes", "francisco">>}>>
MCInitial == [w \in {"goncalo", "goulart", "g"} |-> "g"] @@
             [w \in {"alexandre"} |-> "a"] @@ [w \in {"paulo", "p"} |-> "p"] @@ ("lopes" :> "l")
MCPicks == {None, 1}
MCAliases == <<[member |-> <<"alexandre", "francisco">>, alias |-> <<"alexandre", "p", "francisco">>]>>
MCLength == [t \in {"none", "page", "text", "own"} |-> IF t = "none" THEN 0 ELSE 5]

Row(name, by) == [name |-> name, by |-> by, member |-> None, via |-> ""]
Both(first, second) == <<Row(first, 2), Row(second, 3)>>
Short == Both(<<"goncalo", "oliveira">>, <<"alexandre", "p", "francisco">>)
Long == Both(<<"goncalo", "g", "oliveira">>, <<"a", "francisco">>)

Paper(oa, doi, preprint, year, cites, abstract, authors) ==
    [title |-> "t", year |-> year, preprint |-> preprint, oa |-> oa, doi |-> doi,
     abstract |-> abstract, cites |-> cites, authors |-> authors]
Stored(w, slug) == w @@ [slug |-> slug, status |-> "published"]

Early == Paper("W1", "", FALSE, 2020, 1, "text", Short)
Journal == Paper("W2", "d", FALSE, 2021, 2, "page", Long)
MCSeed == <<Stored(Early, <<"t">>), Stored(Journal, <<"t", "W2">>)>>
MCWorks == <<
    [Early EXCEPT !.cites = 3],
    Paper("W3", "", TRUE, 0, 3, "none", Long),
    Paper("W4", "d", FALSE, 2021, 2, "none", Long)>>

(* What LinksRight in CatalogueProofs supposes of the names.               *)
ASSUME MCNamesTell == NamesTell
==============================================================================
