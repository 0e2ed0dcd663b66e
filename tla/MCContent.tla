------------------------------ MODULE MCContent ------------------------------
(***************************************************************************)
(* Two dissertations and one the old site hides, two projects, a paper     *)
(* discussed on three days, two of which editors have entered, the second  *)
(* with a slug of its own, a theme nobody wants any more, a fixture and a  *)
(* fixture whose title a real topic has too.                               *)
(***************************************************************************)
EXTENDS Content

Person(name, person) == [name |-> name, person |-> person]
AO == <<"arlindo", "oliveira">>
MS == <<"mario", "silva">>
JS == <<"joao", "silva">>

(* Two colleagues have the same first and last name.                       *)
MCMembers == <<Person(<<"arlindo", "l", "oliveira">>, "ao"), Person(MS, "ms"), Person(JS, "js"),
               Person(<<"arlindo", "costa", "oliveira">>, "aco")>>
MCAliases == [m \in DOMAIN MCMembers |-> {MCMembers[m].name, FirstLast(MCMembers[m].name)}]

Topic(title, stage, people, desc, hidden) ==
    [title |-> title, stage |-> stage, people |-> people, desc |-> desc, hidden |-> hidden]
MCTheses == <<Topic("Graphs", "open", <<Person(AO, "ao")>>, "page", FALSE),
              Topic("Speech", "finished", <<Person(AO, "ao"), Person(JS, "js")>>, "", FALSE),
              Topic("Retired", "open", <<>>, "page", TRUE)>>
MCGrants == <<[title |-> "Excel", lead |-> Person(<<"mario", "da", "silva">>, "ms"), kind |-> ""],
              [title |-> "Deep", lead |-> Person(AO, "ao"), kind |-> "international"]>>
MCMeetings == <<[title |-> "Paper", at |-> "d1"], [title |-> "Paper", at |-> "d2"],
                [title |-> "Paper", at |-> "d3"], [title |-> "Draft", at |-> ""]>>
MCTexts == <<[title |-> "Excel"], [title |-> "Absent"]>>
MCWanted == <<"Vision", "Agents">>
MCFixtures == <<[title |-> "Ecg"], [title |-> "Records"]>>
MCNewTitles == {"Renamed"}

MCSeed ==
    <<[Doc("theme", "Vision") EXCEPT !.desc = "seed"], Doc("theme", "Biology"),
      Doc("thesis", "Ecg"), Doc("thesis", "Records"),
      [Doc("thesis", "Records") EXCEPT !.slug = "own", !.desc = "human"],
      [Doc("project", "Excel") EXCEPT !.themes = {2}],
      [Doc("event", "Paper") EXCEPT !.at = "d1"],
      [Doc("event", "Paper") EXCEPT !.slug = "own", !.at = "d2"]>>

(* What PeopleRight in ContentProofs supposes of the pages.                *)
ASSUME MCPagesTell == PagesTell
=============================================================================
