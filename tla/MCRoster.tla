------------------------------ MODULE MCRoster -------------------------------
(***************************************************************************)
(* Four people of the group and their sources, cut down from the data of   *)
(* the repository: two namesakes of whom one is pinned by his photo file,  *)
(* a person the lists give in full and once more in short, and a person    *)
(* whose dataset entry and lists differ in the last name.                  *)
(***************************************************************************)
EXTENDS Roster, TLC

MCFold == [w \in {"joao", "meneses", "santos", "goncalo", "oliveira", "goulart",
                  "ana", "alves", "pimenta", "a", "g"} |-> w] @@ ("João" :> "joao")

Goncalo == <<"goncalo", "oliveira">>
Goulart == <<"goncalo", "goulart", "oliveira">>
Ana == <<"ana", "alves">>
AnaInFull == <<"ana", "pimenta", "alves">>
Joao == <<"joao", "meneses">>
JoaoAccented == <<"João", "meneses">>
JoaoInFull == <<"João", "meneses", "santos">>

Contact(kind, value) == [k \in Kinds |-> IF k = kind THEN value ELSE ""]

MCSeed == <<
    Record("goncalo", Goncalo, "msc", "active", NoContact, ""),
    Record("goulart", Goulart, "phd", "active", Contact("linkedin", "in/gg"), "")>>

Row(person, names, kind, value) ==
    [person |-> person, names |-> names, kind |-> kind, value |-> value, role |-> "",
     status |-> "", orcid |-> "", verified |-> FALSE, replace |-> FALSE]
MCDataset == <<
    [Row("ana", <<Ana>>, "email", "ana@") EXCEPT !.orcid = "0000", !.verified = TRUE],
    [Row("goulart", <<Goulart, Goncalo>>, "linkedin", "in/goulart") EXCEPT !.role = "msc"],
    Row("joao", <<Joao>>, "linkedin", "in/joao")>>

Card(person, names, file, status) ==
    [person |-> person, names |-> names, file |-> file, status |-> status]
MCTeam == <<
    Card("goncalo", <<Goncalo>>, "GoncaloOliveira.jpg", "active"),
    Card("goulart", <<Goncalo>>, "gravo.jpeg", "completed"),
    Card("ana", <<AnaInFull>>, "ana.jpg", "completed"),
    Card("ana", <<<<"ana", "a">>, Ana>>, "AnaAlves.jpg", "completed"),
    Card("ana", <<Ana>>, "ana2.jpg", "")>>
MCPins == "gravo.jpeg" :> Goulart

MCLists == <<
    [name |-> AnaInFull, kind |-> "email", value |-> "ana@"],
    [name |-> Ana, kind |-> "email", value |-> "ana@"],
    [name |-> JoaoAccented, kind |-> "linkedin", value |-> "in/joao"]>>
(* The lists as they are: the last name of one entry is not in the dataset. *)
MCListsAsKept == <<[name |-> JoaoInFull, kind |-> "linkedin", value |-> "in/joao"]>>

MCDoctors == <<
    [person |-> "rita", name |-> <<"ana">>, section |-> "finished"],
    [person |-> "joao", name |-> Joao, section |-> "suspended"]>>
MCSpellings == [
    ana |-> {AnaInFull}, goncalo |-> {<<"goncalo", "a", "oliveira">>},
    goulart |-> {<<"goncalo", "g", "oliveira">>}, joao |-> {JoaoInFull}, rita |-> {}]

(* What FacesRight in RosterProofs supposes of the sources.                *)
ASSUME MCSourcesTell == SourcesTell
============================================================================
