------------------------------- MODULE MCSite -------------------------------
(***************************************************************************)
(* Three published works and a draft; one work has no slug, two cite each  *)
(* other, one cites the draft.  A member without a slug shares a project.  *)
(***************************************************************************)
EXTENDS Panels

Work(key, year, refs, authors) ==
    [NoWork EXCEPT !.key = key, !.slug = key, !.year = year, !.kind = "journal",
                   !.refs = refs, !.authors = authors, !.status = "published"]
MCLibrary ==
    <<Work("a", 2023, {"b", "d"}, {1}),
      [Work("b", 2024, {"a"}, {1, 2}) EXCEPT !.kind = "preprint"],
      [Work("c", 2024, {}, {1}) EXCEPT !.slug = ""],
      [Work("d", 2023, {"a"}, {1}) EXCEPT !.status = "pending_review"]>>

MCMembers == <<[slug |-> "ao", contacts |-> {"email"}],
               [slug |-> "", contacts |-> {"personal"}]>>
MCTheses == <<[slug |-> "t1", level |-> "msc", people |-> {1}],
              [slug |-> "t2", level |-> "phd", people |-> {1, 2}]>>
MCNews == <<[slug |-> "n1", related |-> {1, 3}], [slug |-> "n2", related |-> {4}]>>
MCTeams == <<{1, 2}>>
MCMatched == [t \in ToSet(Types) |-> IF t \in {"publications", "members"} THEN 1..4 ELSE {}]
(* With a year and kind the list does not know, pages before the first and *)
(* after the last, a draft, and the panel's own pages; the site map leads  *)
(* to the rest.                                                            *)
MCTyped ==
    {Route(s, None) : s \in {"home", "sitemap", "library"}}
    \cup {Route("work", 4), Route("person", 2), Route("document", 1),
          [Route("search", None) EXCEPT !.kind = "members"],
          [Route("works", None) EXCEPT !.year = 2024, !.at = 5],
          [Route("works", None) EXCEPT !.kind = "poem", !.at = 0]}
=============================================================================
