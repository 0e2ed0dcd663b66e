---------------------------- MODULE ContentProofs ----------------------------
(***************************************************************************)
(* Proofs about Content: whatever the pages say, however many documents,   *)
(* edits, failures and deaths there are, the collections stay well formed, *)
(* a script leaves what editors wrote and what others depend on, and an    *)
(* import nobody disturbs is complete.                                     *)
(***************************************************************************)
EXTENDS Content, DataLemmas

(* Lists, appended to, with an entry replaced, or joined.                  *)
LEMMA ListFacts ==
    ASSUME NEW s, IsList(s)
    PROVE  Len(s) \in Nat /\ DOMAIN s = 1..Len(s)
BY DEF IsList

LEMMA AppendedList ==
    ASSUME NEW s, IsList(s), NEW x
    PROVE  LET t == Append(s, x) IN
           /\ IsList(t) /\ Len(t) = Len(s) + 1 /\ DOMAIN t = 1..(Len(s) + 1)
           /\ t[Len(s) + 1] = x
           /\ \A i \in DOMAIN s : t[i] = s[i]
<1> DEFINE S == ToSet(s) \cup {x}
           t == Append(s, x)
<1>1. s \in Seq(S) /\ x \in S
  <2>1. s \in Seq(ToSet(s)) /\ ToSet(s) \subseteq S
    BY DEF IsList
  <2> HIDE DEF S
  <2> QED BY <2>1, SeqMonotonic DEF S
<1>2. /\ t \in Seq(S) /\ Len(t) = Len(s) + 1 /\ DOMAIN t = 1..(Len(s) + 1)
      /\ t[Len(s) + 1] = x
      /\ \A i \in DOMAIN s : t[i] = s[i]
  <2> HIDE DEF S
  <2> QED BY <1>1
<1>3. IsList(t)
  <2>1. t \in Seq(ToSet(t))
    <3> HIDE DEF S, t
    <3> QED BY <1>2 DEF ToSet
  <2> QED BY <2>1 DEF IsList
<1> HIDE DEF t
<1> QED BY <1>2, <1>3 DEF t

LEMMA FunctionIsList ==
    ASSUME NEW n \in Nat, NEW t, t = [k \in 1..n |-> t[k]]
    PROVE  IsList(t) /\ Len(t) = n /\ DOMAIN t = 1..n
<1>1. DOMAIN t = 1..n
  BY Zenon
<1>2. \A k \in 1..n : t[k] \in ToSet(t)
  BY <1>1 DEF ToSet
<1>3. t \in [1..n -> ToSet(t)]
  BY <1>2
<1>4. t \in Seq(ToSet(t)) /\ Len(t) = n
  <2> HIDE DEF ToSet
  <2> QED BY <1>3, SeqDef
<1> QED BY <1>1, <1>4 DEF IsList

LEMMA ReplacedList ==
    ASSUME NEW s, IsList(s), NEW t, DOMAIN t = DOMAIN s, t = [k \in DOMAIN t |-> t[k]]
    PROVE  IsList(t) /\ Len(t) = Len(s) /\ DOMAIN t = 1..Len(s)
BY ListFacts, FunctionIsList

LEMMA JoinedList ==
    ASSUME NEW a, NEW b, IsList(a), IsList(b)
    PROVE  /\ IsList(a \o b) /\ DOMAIN (a \o b) = 1..(Len(a) + Len(b))
           /\ \A k \in DOMAIN (a \o b) :
                (a \o b)[k] = IF k <= Len(a) THEN a[k] ELSE b[k - Len(a)]
<1> DEFINE S == ToSet(a) \cup ToSet(b)
           t == a \o b
<1>1. a \in Seq(S) /\ b \in Seq(S)
  <2>1. a \in Seq(ToSet(a)) /\ b \in Seq(ToSet(b))
    BY DEF IsList
  <2> HIDE DEF ToSet
  <2> QED BY <2>1, SeqMonotonic
<1>2. /\ t \in Seq(S) /\ Len(t) = Len(a) + Len(b)
      /\ \A k \in 1..Len(t) : t[k] = IF k <= Len(a) THEN a[k] ELSE b[k - Len(a)]
  <2> HIDE DEF S
  <2> QED BY <1>1
<1>3. t \in Seq(ToSet(t)) /\ DOMAIN t = 1..(Len(a) + Len(b))
  <2> HIDE DEF S, t
  <2>1. DOMAIN t = 1..Len(t)
    BY <1>2
  <2>2. t \in Seq(ToSet(t))
    BY <1>2 DEF ToSet
  <2> QED BY <1>2, <2>1, <2>2
<1> HIDE DEF t
<1> QED BY <1>2, <1>3 DEF t, IsList

(* A finite set of numbers can be put in order: were there one that cannot,*)
(* there would be a smallest, and without its greatest element it could.   *)
LEMMA AscendingExists ==
    ASSUME NEW n \in Nat, NEW T, T \subseteq 1..n
    PROVE  /\ Cardinality(T) \in Nat
           /\ \E s \in [1..Cardinality(T) -> T] :
                \A j, k \in DOMAIN s : j < k => s[j] < s[k]
<1> DEFINE Ordered(U) == \E s \in [1..Cardinality(U) -> U] :
                            \A j, k \in DOMAIN s : j < k => s[j] < s[k]
           Bad == {c \in Nat : \E U \in SUBSET (1..n) : Cardinality(U) = c /\ ~Ordered(U)}
<1>1. \A U \in SUBSET (1..n) : IsFiniteSet(U) /\ Cardinality(U) \in Nat
  <2>1. IsFiniteSet(1..n)
    BY FS_Interval
  <2> QED BY <2>1, FS_Subset, FS_CardinalityType
<1>2. ASSUME Bad # {} PROVE FALSE
  <2>1. PICK c \in Bad : \A d \in Bad : c <= d
    <3>1. Bad \subseteq Nat
      OBVIOUS
    <3> HIDE DEF Bad
    <3> QED BY <1>2, <3>1, LeastNatural
  <2>2. PICK U \in SUBSET (1..n) : Cardinality(U) = c /\ ~Ordered(U)
    BY <2>1
  <2>3. U # {}
    <3> SUFFICES ASSUME U = {} PROVE FALSE
      OBVIOUS
    <3>1. Cardinality(U) = 0
      BY FS_EmptySet
    <3>2. [k \in 1..0 |-> 0] \in [1..Cardinality(U) -> U]
      BY <3>1
    <3>3. \A j, k \in DOMAIN [k \in 1..0 |-> 0] : FALSE
      OBVIOUS
    <3> QED BY <2>2, <3>2, <3>3
  <2> DEFINE x == Max(U)
             R == U \ {x}
  <2>4. x \in U /\ \A y \in U : y <= x
    <3>1. U \subseteq 0..n
      OBVIOUS
    <3> QED BY <2>3, <3>1, MaxIsGreatest
  <2>5. R \in SUBSET (1..n) /\ Cardinality(R) = c - 1 /\ c - 1 \in Nat
    <3>1. IsFiniteSet(U) /\ Cardinality(U) = c
      BY <1>1, <2>2
    <3>2. IsFiniteSet(R) /\ Cardinality(R) = c - 1
      <4> HIDE DEF x
      <4> QED BY <2>4, <3>1, FS_RemoveElement
    <3>3. R \in SUBSET (1..n)
      OBVIOUS
    <3>4. c - 1 \in Nat
      <4> HIDE DEF R
      <4> QED BY <1>1, <3>2, <3>3
    <3> QED BY <3>2, <3>3, <3>4
  <2>6. PICK r \in [1..(c - 1) -> R] : \A j, k \in DOMAIN r : j < k => r[j] < r[k]
    <3>1. c - 1 \notin Bad
      BY <2>1, <2>5
    <3>2. Ordered(R)
      <4> HIDE DEF Ordered
      <4> QED BY <2>5, <3>1
    <3> QED BY <2>5, <3>2
  <2> DEFINE s == [k \in 1..c |-> IF k = c THEN x ELSE r[k]]
  <2>7. c \in Nat \ {0} /\ R \subseteq U /\ U \subseteq Int
    BY <2>5, <2>1
  <2>8. s \in [1..c -> U]
    <3> HIDE DEF R, x, Bad
    <3> SUFFICES ASSUME NEW k \in 1..c PROVE s[k] \in U
      OBVIOUS
    <3>1. k # c => k \in 1..(c - 1)
      BY <2>7
    <3> QED BY <2>4, <2>6, <2>7, <3>1
  <2>9. \A j, k \in DOMAIN s : j < k => s[j] < s[k]
    <3> SUFFICES ASSUME NEW j \in 1..c, NEW k \in 1..c, j < k PROVE s[j] < s[k]
      OBVIOUS
    <3>1. j \in 1..(c - 1) /\ s[j] = r[j] /\ r[j] \in R
      <4> HIDE DEF R, x, Bad
      <4> QED BY <2>6, <2>7
    <3>2. r[j] \in U /\ r[j] # x
      BY <3>1
    <3>3. CASE k = c
      <4>1. s[k] = x
        BY <3>3
      <4>2. r[j] <= x /\ r[j] \in Int /\ x \in Int
        <5> HIDE DEF x
        <5> QED BY <2>4, <2>7, <3>2
      <4> HIDE DEF R, x, Bad, s
      <4> QED BY <3>1, <3>2, <4>1, <4>2
    <3>4. CASE k # c
      <4>1. k \in 1..(c - 1) /\ s[k] = r[k]
        BY <2>7, <3>4
      <4> HIDE DEF R, x, Bad, s
      <4> QED BY <2>6, <3>1, <4>1
    <3> QED BY <3>3, <3>4
  <2> HIDE DEF s, Bad, x, R
  <2> QED BY <2>2, <2>8, <2>9
<1>3. Ordered(T)
  <2> HIDE DEF Ordered
  <2> QED BY <1>1, <1>2
<1> QED BY <1>1, <1>3

LEMMA AscendingIsThem ==
    ASSUME NEW n \in Nat, NEW T, T \subseteq 1..n
    PROVE  Cardinality(T) \in Nat /\ Ascending(T) \in [1..Cardinality(T) -> T]
BY AscendingExists DEF Ascending

----------------------------------------------------------------------------
(* What can become of the documents: one is changed in place, removed, or  *)
(* there is a new one.                                                     *)

(* D's documents are in E, gone or in the same collection.                 *)
Kept(D, E) ==
    DOMAIN D \subseteq DOMAIN E /\ \A i \in DOMAIN D : E[i] = Gone \/ E[i].coll = D[i].coll

GoneFields == {"coll", "title", "slug", "at", "stage", "people", "members", "desc", "themes"}
LEMMA GoneFacts ==
    /\ DOMAIN Gone = GoneFields
    /\ Gone.coll = "gone" /\ Gone.themes = {} /\ Gone.members = {} /\ Gone.coll \notin Collections
    /\ DocOK(Gone)
    /\ \A t : [Gone EXCEPT !.themes = @ \ {t}] = Gone
<1>1. DOMAIN Gone = GoneFields
  BY DEF Gone, Doc, GoneFields
<1>2. /\ Gone.coll = "gone" /\ Gone.themes = {} /\ Gone.members = {}
      /\ Gone.coll \notin Collections
  BY DEF Gone, Doc, Collections
<1>3. DocOK(Gone)
  BY <1>2 DEF DocOK
<1>4. ASSUME NEW t PROVE [Gone EXCEPT !.themes = @ \ {t}] = Gone
  <2>1. Gone.themes \ {t} = Gone.themes
    BY <1>2
  <2>2. Gone = [f \in GoneFields |-> Gone[f]]
    BY DEF Gone, Doc, GoneFields
  <2>3. [Gone EXCEPT !.themes = Gone.themes] = Gone
    BY <2>2
  <2> QED BY <2>1, <2>3
<1> QED BY <1>1, <1>2, <1>3, <1>4

LEMMA OfGone ==
    ASSUME NEW D, NEW c \in Collections, NEW i \in Of(D, c)
    PROVE  i \in DOMAIN D /\ D[i] # Gone /\ D[i].coll = c
BY GoneFacts DEF Of

LEMMA Changed ==
    ASSUME NEW D, DocsOK(D), NEW i \in DOMAIN D, NEW d, DocOK(d),
           d.coll = D[i].coll, d.slug = D[i].slug, d.themes \subseteq Of(D, "theme")
    PROVE  LET E == [D EXCEPT ![i] = d] IN
           DocsOK(E) /\ Kept(D, E) /\ DOMAIN E = DOMAIN D /\ (\A c : Of(E, c) = Of(D, c))
<1> DEFINE E == [D EXCEPT ![i] = d]
<1>1. DOMAIN E = DOMAIN D /\ \A j \in DOMAIN D : E[j] = IF j = i THEN d ELSE D[j]
  OBVIOUS
<1>2. IsList(E)
  BY <1>1, ReplacedList DEF DocsOK
<1> HIDE DEF E
<1>3. \A c : Of(E, c) = Of(D, c)
  BY <1>1 DEF Of
<1>4. Kept(D, E)
  BY <1>1 DEF Kept
<1>5. \A j \in DOMAIN E : DocOK(E[j]) /\ E[j].themes \subseteq Of(E, "theme")
  BY <1>1, <1>3 DEF DocsOK
<1>6. \A j \in DOMAIN D : E[j].slug = D[j].slug
  BY <1>1
<1>7. \A c \in Collections : \A j, k \in Of(E, c) : E[j].slug = E[k].slug => j = k
  <2> SUFFICES ASSUME NEW c \in Collections, NEW j \in Of(D, c), NEW k \in Of(D, c),
                      E[j].slug = E[k].slug
               PROVE  j = k
    BY <1>3
  <2>1. D[j].slug = D[k].slug
    BY <1>6 DEF Of
  <2> QED BY <2>1 DEF DocsOK
<1> QED BY <1>1, <1>2, <1>3, <1>4, <1>5, <1>7 DEF DocsOK, E

LEMMA Deleted ==
    ASSUME NEW D, DocsOK(D), NEW i \in DOMAIN D, D[i].coll # "theme"
    PROVE  LET E == [D EXCEPT ![i] = Gone] IN
           DocsOK(E) /\ Kept(D, E) /\ DOMAIN E = DOMAIN D /\ Of(E, "theme") = Of(D, "theme")
<1> DEFINE E == [D EXCEPT ![i] = Gone]
<1>1. DOMAIN E = DOMAIN D /\ \A j \in DOMAIN D : E[j] = IF j = i THEN Gone ELSE D[j]
  OBVIOUS
<1>2. IsList(E)
  BY <1>1, ReplacedList DEF DocsOK
<1> HIDE DEF E
<1>3. Of(E, "theme") = Of(D, "theme")
  BY <1>1, GoneFacts DEF Of
<1>4. Kept(D, E)
  BY <1>1 DEF Kept
<1>5. \A j \in DOMAIN E : DocOK(E[j]) /\ E[j].themes \subseteq Of(E, "theme")
  BY <1>1, <1>3, GoneFacts DEF DocsOK
<1>6. \A c \in Collections : \A j \in Of(E, c) : j \in Of(D, c) /\ E[j] = D[j]
  BY <1>1, GoneFacts DEF Of
<1>7. \A c \in Collections : \A j, k \in Of(E, c) : E[j].slug = E[k].slug => j = k
  BY <1>6 DEF DocsOK
<1> QED BY <1>1, <1>2, <1>3, <1>4, <1>5, <1>7 DEF DocsOK, E

Without(D, t) ==
    [i \in DOMAIN D |-> IF i = t THEN Gone ELSE [D[i] EXCEPT !.themes = @ \ {t}]]
LEMMA Removed ==
    ASSUME NEW D, DocsOK(D), NEW t \in DOMAIN D, NEW E, E = Without(D, t)
    PROVE  /\ DocsOK(E) /\ Kept(D, E) /\ DOMAIN E = DOMAIN D
           /\ \A i \in DOMAIN D :
                i # t => /\ \A f \in GoneFields : f # "themes" => E[i][f] = D[i][f]
                         /\ E[i].themes = D[i].themes \ {t}
           /\ E[t] = Gone
           /\ \A c \in Collections : Of(E, c) = Of(D, c) \ {t}
<1>1. DOMAIN E = DOMAIN D /\ E[t] = Gone
  BY DEF Without
<1>2. IsList(E)
  <2>1. E = [i \in DOMAIN E |-> E[i]]
    BY DEF Without
  <2> QED BY <1>1, <2>1, ReplacedList DEF DocsOK
<1>3. \A i \in DOMAIN D : DOMAIN D[i] = GoneFields
  BY GoneFacts DEF DocsOK, DocOK
<1>4. \A i \in DOMAIN D :
        i # t => /\ \A f \in GoneFields : f # "themes" => E[i][f] = D[i][f]
                 /\ E[i].themes = D[i].themes \ {t}
                 /\ DOMAIN E[i] = GoneFields
                 /\ D[i] = Gone => E[i] = Gone
  BY <1>3, GoneFacts DEF GoneFields, Without
<1>5. \A i \in DOMAIN D : i # t => E[i].coll = D[i].coll /\ E[i].slug = D[i].slug
                                   /\ E[i].title = D[i].title /\ E[i].members = D[i].members
  BY <1>4 DEF GoneFields
<1> HIDE DEF GoneFields
<1>6. \A c \in Collections : Of(E, c) = Of(D, c) \ {t}
  BY <1>1, <1>5, GoneFacts DEF Of
<1>7. Kept(D, E)
  BY <1>1, <1>5 DEF Kept
<1>8. \A i \in DOMAIN E : DocOK(E[i]) /\ E[i].themes \subseteq Of(E, "theme")
  <2> SUFFICES ASSUME NEW i \in DOMAIN D, i # t
               PROVE  DocOK(E[i]) /\ E[i].themes \subseteq Of(E, "theme")
    BY <1>1, GoneFacts
  <2>1. DocOK(D[i]) /\ D[i].themes \subseteq Of(D, "theme")
    BY DEF DocsOK
  <2>2. DocOK(E[i])
    BY <1>4, <1>5, <2>1, GoneFacts DEF DocOK
  <2>3. E[i].themes \subseteq Of(E, "theme")
    BY <1>4, <1>6, <2>1 DEF Collections
  <2> QED BY <2>2, <2>3
<1>9. \A c \in Collections : \A i, j \in Of(E, c) : E[i].slug = E[j].slug => i = j
  <2> SUFFICES ASSUME NEW c \in Collections, NEW i \in Of(E, c), NEW j \in Of(E, c),
                      E[i].slug = E[j].slug
               PROVE  i = j
    OBVIOUS
  <2>1. i \in Of(D, c) /\ j \in Of(D, c) /\ i # t /\ j # t
    BY <1>6
  <2>2. D[i].slug = D[j].slug
    BY <1>5, <2>1 DEF Of
  <2> QED BY <2>1, <2>2 DEF DocsOK
<1> QED BY <1>1, <1>2, <1>4, <1>6, <1>7, <1>8, <1>9 DEF DocsOK

LEMMA Added ==
    ASSUME NEW D, DocsOK(D), NEW d, DocOK(d), d.themes = {},
           \A i \in Of(D, d.coll) : D[i].slug # d.slug
    PROVE  LET E == Append(D, d) IN
           /\ DocsOK(E) /\ Kept(D, E) /\ DOMAIN E = 1..(Len(D) + 1) /\ Len(E) = Len(D) + 1
           /\ DOMAIN D = 1..Len(D) /\ Len(D) \in Nat
           /\ E[Len(D) + 1] = d /\ \A i \in DOMAIN D : E[i] = D[i]
<1> DEFINE E == Append(D, d)
           n == Len(D) + 1
<1>1. /\ IsList(E) /\ DOMAIN E = 1..n /\ E[n] = d /\ Len(E) = n
      /\ DOMAIN D = 1..Len(D) /\ Len(D) \in Nat
      /\ \A i \in DOMAIN D : E[i] = D[i]
  BY ListFacts, AppendedList DEF DocsOK
<1>2. DOMAIN E = DOMAIN D \cup {n} /\ n \notin DOMAIN D
  BY <1>1
<1> HIDE DEF E, n
<1>3. \A c : \A i \in Of(E, c) : i \in Of(D, c) \/ (i = n /\ c = d.coll)
  BY <1>1, <1>2 DEF Of
<1>4. \A c : Of(D, c) \subseteq Of(E, c)
  BY <1>1, <1>2 DEF Of
<1>5. \A i \in DOMAIN E : DocOK(E[i]) /\ E[i].themes \subseteq Of(E, "theme")
  BY <1>1, <1>2, <1>4 DEF DocsOK
<1>6. \A c \in Collections : \A i, j \in Of(E, c) : E[i].slug = E[j].slug => i = j
  <2> SUFFICES ASSUME NEW c \in Collections, NEW i \in Of(E, c), NEW j \in Of(E, c),
                      E[i].slug = E[j].slug
               PROVE  i = j
    OBVIOUS
  <2>1. CASE i \in Of(D, c) /\ j \in Of(D, c)
    <3>1. D[i].slug = D[j].slug
      BY <1>1, <2>1 DEF Of
    <3> QED BY <2>1, <3>1 DEF DocsOK
  <2>2. CASE i \in Of(D, c) /\ j = n /\ c = d.coll
    BY <1>1, <2>2 DEF Of
  <2>3. CASE j \in Of(D, c) /\ i = n /\ c = d.coll
    BY <1>1, <2>3 DEF Of
  <2> QED BY <1>3, <2>1, <2>2, <2>3
<1>7. Kept(D, E)
  BY <1>1, <1>2 DEF Kept
<1> QED BY <1>1, <1>5, <1>6, <1>7 DEF DocsOK, E, n

----------------------------------------------------------------------------
(* The inductive invariant.  Each part takes the state, to speak of the    *)
(* state before a step and of the one after.                               *)

JobFields == {"script", "rows", "snap", "at", "target", "failed", "disturbed"}
Importers == {"theses", "grants", "meetings", "themes"}

(* What the script read is still there or gone, and its target is in the   *)
(* collection it writes.                                                   *)
JobOK(j, D) ==
    /\ DOMAIN j = JobFields
    /\ j.script \in Scripts \cup {"none"}
    /\ j.at \in Nat \ {0}
    /\ IsList(j.rows)
    /\ DocsOK(j.snap) /\ Kept(j.snap, D)
    /\ j.target \in {None, Unread} \cup DOMAIN D
    /\ j.target # Unread => j.script # "none" /\ j.at <= Len(j.rows)
    /\ j.target \in DOMAIN D => D[j.target] = Gone \/ D[j.target].coll = CollOf[j.script]

RowsOK(j) ==
    \A k \in DOMAIN j.rows :
        LET r == j.rows[k] IN
        /\ j.script = "grants" => r.title # ""
        /\ j.script = "fixtures" => r.title \in FixtureTitles
        /\ j.script = "themes" =>
              /\ IF r.id = None THEN r.title \in ToSet(Wanted)
                 ELSE r.id \in Of(j.snap, "theme") /\ j.snap[r.id].title \notin ToSet(Wanted)
              /\ r.id = None => \A m \in DOMAIN j.rows : k < m => j.rows[m].id = None

NamesFixtures(j) == j.disturbed /\ NewTitles \cap FixtureTitles # {}

(* What Look saw of its target and is still so: no link to a theme it is   *)
(* about to remove has been there all along, a fixture still has its title *)
(* alone, and a project to be described had no text.                       *)
TargetOK(j, D, h) ==
    j.target # Unread =>
        LET r == j.rows[j.at] t == j.target IN
        /\ j.script = "themes" /\ r.id # None => t = r.id /\ \A link \in h : link[2] # t
        /\ j.script = "fixtures" =>
              /\ t \in DOMAIN D
              /\ D[t] = Gone \/ Titled(D, "thesis", D[t].title) = {t}
              /\ j.snap[t].title \in FixtureTitles \/ NamesFixtures(j)
        /\ j.script = "texts" => t \in DOMAIN j.snap /\ j.snap[t].desc = ""

(* While fixtures are removed nothing is added, and a dissertation has a   *)
(* fixture's title only if it had when the script began.                   *)
FixturesOK(j, D) ==
    j.script = "fixtures" =>
        /\ DOMAIN D = DOMAIN j.snap
        /\ \A i \in Of(D, "thesis") :
              D[i].title \in FixtureTitles => j.snap[i].title \in FixtureTitles \/ NamesFixtures(j)

Removing(j) == j.script = "themes" /\ j.rows[j.at].id # None
Matches(j, d, r) == d.title = r.title /\ (j.script = "meetings" => d.at = r.at)
ShownBy(j, d, r) ==
    /\ d.coll = CollOf[j.script] /\ d.title = r.title
    /\ j.script = "theses" => \E q \in ToSet(j.rows) : q.title = r.title /\ q.stage = d.stage
    /\ j.script = "meetings" => d.at = r.at
TakenBy(j, D, i, r) ==
    /\ D[i].slug = r.title
    /\ \/ i \in DOMAIN j.snap /\ j.snap[i].title # r.title
       \/ j.script = "meetings" /\ D[i].title = r.title /\ D[i].at # r.at
Done(j, D, k) ==
    \/ j.script = "themes" /\ j.rows[k].id # None
    \/ \E i \in DOMAIN D : ShownBy(j, D[i], j.rows[k])
    \/ \E i \in Of(D, CollOf[j.script]) : TakenBy(j, D, i, j.rows[k])

(* Documents have the titles they were read with, new ones have the slug   *)
(* of theirs, and no wanted theme has been removed.                        *)
NamesOK(j, D) ==
    /\ \A i \in Of(D, CollOf[j.script]) :
          IF i \in DOMAIN j.snap THEN D[i].title = j.snap[i].title ELSE D[i].slug = D[i].title
    /\ j.script = "themes" =>
          \A i \in Of(j.snap, "theme") : j.snap[i].title \in ToSet(Wanted) => D[i] # Gone

(* The target is the record that matches the row, if there is one.         *)
FoundOK(j, D) ==
    LET r == j.rows[j.at] IN
    IF j.target = None
    THEN j.script # "themes" => \A i \in Of(D, CollOf[j.script]) : ~Matches(j, D[i], r)
    ELSE D[j.target] # Gone /\ Matches(j, D[j.target], r)

(* A run that nothing disturbed: every row taken has its own record, or is *)
(* one whose slug another document has.                                    *)
SteadyOK(j, D) ==
    ~j.disturbed /\ ~j.failed /\ j.script \in Importers =>
        /\ NamesOK(j, D)
        /\ j.target # Unread /\ ~Removing(j) => FoundOK(j, D)
        /\ \A k \in DOMAIN j.rows : k < j.at => Done(j, D, k)

IInv ==
    /\ DocsOK(docs)
    /\ JobOK(job, docs) /\ RowsOK(job)
    /\ TargetOK(job, docs, held) /\ FixturesOK(job, docs) /\ SteadyOK(job, docs)
    /\ upsets \in 0..MaxUpsets
    /\ held \subseteq Linked(docs)

----------------------------------------------------------------------------
(* What a script makes of a document, and of none.                         *)
LEMMA InvestigatorIsMember ==
    ASSUME NEW name
    PROVE  MatchInvestigator(name) \in DOMAIN Members \cup {None}
<1>1. DOMAIN Members \subseteq Nat
  <2>1. IsList(Members)
    BY ContentAssumption
  <2>2. Len(Members) \in Nat /\ DOMAIN Members = 1..Len(Members)
    BY <2>1, ListFacts
  <2> QED BY <2>2
<1>2. ASSUME NEW n, Cardinality(Claimants(n)) = 1 PROVE Oldest(Claimants(n)) \in DOMAIN Members
  <2>1. Claimants(n) \subseteq DOMAIN Members
    BY DEF Claimants
  <2>2. Claimants(n) # {}
    BY <1>2, FS_EmptySet
  <2>3. Min(Claimants(n)) \in Claimants(n)
    BY <1>1, <1>2, <2>1, OnlyOne
  <2> QED BY <2>1, <2>2, <2>3 DEF Oldest
<1> QED BY <1>2 DEF MatchInvestigator

LEMMA NewGrantFacts ==
    ASSUME NEW r
    PROVE  LET e == NewGrant(r) IN
           /\ DOMAIN e = GoneFields
           /\ e.coll = "project" /\ e.title = r.title /\ e.themes = {}
           /\ e.members \subseteq DOMAIN Members
<1> DEFINE lead == MatchInvestigator(r.lead.name)
           made == [Doc("project", r.title) EXCEPT !.stage = "national"]
           mid == GrantData(r, made)
<1>1. DOMAIN made = GoneFields /\ made.coll = "project" /\ made.themes = {}
  BY DEF Doc, GoneFields
<1>2. DOMAIN mid = GoneFields /\ mid.coll = "project" /\ mid.title = r.title /\ mid.themes = {}
  <2> HIDE DEF made
  <2> QED BY <1>1 DEF GrantData, GoneFields
<1>3. {lead} \ {None} \subseteq DOMAIN Members
  BY InvestigatorIsMember
<1>4. NewGrant(r) = [mid EXCEPT !.people = <<Credit(r.lead, lead)>>, !.members = {lead} \ {None}]
  BY DEF NewGrant
<1> HIDE DEF mid, lead, made
<1> QED BY <1>2, <1>3, <1>4 DEF GoneFields

(* A record that is there keeps its collection, its slug, its links and    *)
(* its members, and takes the row's title.                                 *)
WrittenFor(r, d, e) ==
    /\ DOMAIN e = GoneFields
    /\ e.coll = d.coll /\ e.slug = d.slug /\ e.themes = d.themes /\ e.members = d.members
    /\ e.title = IF job.script = "texts" THEN d.title ELSE r.title
    /\ job.script = "theses" => e.stage = r.stage
    /\ job.script = "meetings" => e.at = r.at
    /\ job.script = "grants" => e.desc = d.desc
LEMMA DataFacts ==
    ASSUME NEW r, NEW d, DOMAIN d = GoneFields, job.script \in Importers \cup {"texts"},
           job.script = "grants" => d.title # ""
    PROVE  WrittenFor(r, d, Data(r, d))
<1>1. CASE job.script = "theses"
  BY <1>1 DEF Data, ThesisData, WrittenFor, GoneFields
<1>2. CASE job.script = "grants"
  BY <1>2 DEF Data, GrantData, WrittenFor, GoneFields
<1>3. CASE job.script = "meetings"
  BY <1>3 DEF Data, MeetingData, WrittenFor, GoneFields
<1>4. CASE job.script = "texts"
  BY <1>4 DEF Data, Described, WrittenFor, GoneFields
<1>5. CASE job.script = "themes"
  BY <1>5 DEF Data, ThemeData, WrittenFor, GoneFields
<1> QED BY <1>1, <1>2, <1>3, <1>4, <1>5 DEF Importers

LEMMA CollOfFacts ==
    /\ CollOf["theses"] = "thesis" /\ CollOf["grants"] = "project" /\ CollOf["meetings"] = "event"
    /\ CollOf["texts"] = "project" /\ CollOf["themes"] = "theme" /\ CollOf["fixtures"] = "thesis"
BY DEF CollOf

(* A new record is well formed, and shows its row.                         *)
MadeFor(r, e) ==
    /\ DocOK(e)
    /\ e.coll = CollOf[job.script] /\ e.slug = r.title /\ e.title = r.title /\ e.themes = {}
    /\ job.script = "theses" => e.stage = r.stage
    /\ job.script = "meetings" => e.at = r.at
LEMMA MadeFacts ==
    ASSUME NEW r, job.script \in Importers, job.script = "grants" => r.title # ""
    PROVE  LET made == [Doc(CollOf[job.script], "") EXCEPT !.slug = r.title] IN
           MadeFor(r, [Data(r, made) EXCEPT !.slug = r.title])
<1> DEFINE made == [Doc(CollOf[job.script], "") EXCEPT !.slug = r.title]
           mid == Data(r, made)
           e == [mid EXCEPT !.slug = r.title]
<1>1. /\ DOMAIN made = GoneFields /\ made.coll = CollOf[job.script] /\ made.title = ""
      /\ made.themes = {} /\ made.members = {}
  BY DEF Doc, GoneFields
<1>2. CollOf[job.script] \in Collections /\ CollOf[job.script] # "gone"
      /\ (CollOf[job.script] = "project" => job.script = "grants")
  BY CollOfFacts DEF Importers, Collections
<1> HIDE DEF made
<1>3. /\ DOMAIN mid = GoneFields /\ mid.coll = CollOf[job.script] /\ mid.title = r.title
      /\ mid.themes = {} /\ mid.members \subseteq DOMAIN Members
      /\ job.script = "theses" => mid.stage = r.stage
      /\ job.script = "meetings" => mid.at = r.at
  <2>1. CASE job.script = "grants"
    <3>1. mid = NewGrant(r)
      BY <1>1, <2>1 DEF Data
    <3>2. /\ DOMAIN NewGrant(r) = GoneFields
          /\ NewGrant(r).coll = "project" /\ NewGrant(r).title = r.title
          /\ NewGrant(r).themes = {} /\ NewGrant(r).members \subseteq DOMAIN Members
      BY NewGrantFacts
    <3> HIDE DEF mid
    <3> QED BY <2>1, <3>1, <3>2, CollOfFacts
  <2>2. CASE job.script # "grants"
    <3>1. WrittenFor(r, made, mid)
      BY <1>1, <2>2, DataFacts
    <3> HIDE DEF mid
    <3> QED BY <1>1, <2>2, <3>1 DEF WrittenFor, Importers
  <2> QED BY <2>1, <2>2
<1> HIDE DEF mid
<1>4. /\ DOMAIN e = GoneFields /\ e.slug = r.title
      /\ e.coll = mid.coll /\ e.title = mid.title /\ e.themes = mid.themes
      /\ e.members = mid.members /\ e.stage = mid.stage /\ e.at = mid.at
  BY <1>3 DEF GoneFields
<1> HIDE DEF e
<1>5. DocOK(e)
  BY <1>2, <1>3, <1>4, GoneFacts DEF DocOK
<1>6. MadeFor(r, e)
  BY <1>3, <1>4, <1>5 DEF MadeFor
<1> QED BY <1>6 DEF e, mid, made

----------------------------------------------------------------------------
(* What a write does to the documents: it removes its target, makes a new  *)
(* record of its row, or writes its row to its target.                     *)
TargetIsThere ==
    /\ job.target \in DOMAIN docs /\ docs[job.target] # Gone
    /\ docs[job.target].coll = CollOf[job.script]
RemovesIt(E) ==
    Removes /\ TargetIsThere /\ E = Without(docs, job.target)
MakesIt(E) ==
    /\ ~Removes /\ job.script \in Importers
    /\ \E e : /\ MadeFor(Row, e) /\ \A i \in Of(docs, e.coll) : docs[i].slug # e.slug
              /\ E = Append(docs, e)
WritesIt(E) ==
    /\ ~Removes /\ TargetIsThere /\ job.script \in Importers \cup {"texts"}
    /\ \E e : WrittenFor(Row, docs[job.target], e) /\ DocOK(e) /\ E = [docs EXCEPT ![job.target] = e]

LEMMA NoneIsNoDocument ==
    ASSUME NEW D, IsList(D)
    PROVE  None \notin DOMAIN D /\ Unread \notin DOMAIN D /\ None # Unread
BY ListFacts DEF None, Unread

LEMMA RowFacts ==
    ASSUME IInv, Writing
    PROVE  /\ job.at \in DOMAIN job.rows /\ Row = job.rows[job.at]
           /\ job.script = "grants" => Row.title # ""
           /\ job.script = "fixtures" => Row.title \in FixtureTitles
           /\ job.script = "themes" =>
                 IF Row.id = None THEN Row.title \in ToSet(Wanted)
                 ELSE Row.id \in Of(job.snap, "theme")
                      /\ job.snap[Row.id].title \notin ToSet(Wanted)
           /\ job.script = "themes" /\ Row.id # None =>
                 \A k \in DOMAIN job.rows : k < job.at => job.rows[k].id # None
<1>1. job.at \in DOMAIN job.rows
  BY ListFacts DEF IInv, JobOK, Writing
<1>2. job.script = "themes" /\ Row.id # None =>
        \A k \in DOMAIN job.rows : k < job.at => job.rows[k].id # None
  BY <1>1 DEF IInv, RowsOK, Row
<1> QED BY <1>1, <1>2 DEF IInv, RowsOK, Row

LEMMA Writes ==
    ASSUME IInv, Writing, job.target # Unread, ~Refused, NEW E, E = Result
    PROVE  RemovesIt(E) \/ MakesIt(E) \/ WritesIt(E)
<1> DEFINE t == job.target
           made == [Doc(CollOf[job.script], "") EXCEPT !.slug = Row.title]
<1>1. /\ DocsOK(docs) /\ JobOK(job, docs) /\ TargetOK(job, docs, held)
      /\ job.script \in Scripts /\ t \in {None} \cup DOMAIN docs
      /\ None \notin DOMAIN docs
  <2>1. DocsOK(docs) /\ JobOK(job, docs) /\ TargetOK(job, docs, held)
    BY DEF IInv
  <2>2. job.script \in Scripts /\ t \in {None} \cup DOMAIN docs
    BY <2>1 DEF JobOK, Writing
  <2> QED BY <2>1, <2>2, NoneIsNoDocument DEF DocsOK
<1>2. t # None => TargetIsThere
  <2> SUFFICES ASSUME t # None PROVE TargetIsThere
    OBVIOUS
  <2>1. docs[t] # Gone
    BY DEF Refused
  <2> QED BY <1>1, <2>1 DEF JobOK, TargetIsThere
<1>3. CASE Removes
  <2>1. CASE job.script = "fixtures"
    <3>1. t \in DOMAIN docs
      BY <1>1, <2>1 DEF TargetOK
    <3> QED BY <1>1, <1>2, <1>3, <3>1 DEF RemovesIt, Result, Without
  <2>2. CASE job.script = "themes" /\ Row.id # None
    <3>1. t = Row.id
      BY <1>1, <2>2 DEF TargetOK, Row
    <3> QED BY <1>1, <1>2, <1>3, <2>2, <3>1 DEF RemovesIt, Result, Without
  <2> QED BY <1>3, <2>1, <2>2 DEF Removes
<1>4. CASE ~Removes /\ t = None
  <2>1. job.script \in Importers
    <3>1. job.script # "texts"
      <4> SUFFICES ASSUME job.script = "texts" PROVE FALSE
        OBVIOUS
      <4>1. t \in DOMAIN job.snap
        BY <1>1 DEF TargetOK
      <4> QED BY <1>1, <1>4, <4>1 DEF JobOK, Kept
    <3> QED BY <1>1, <1>4, <3>1 DEF Removes, Importers, Scripts
  <2>2. MadeFor(Row, [Data(Row, made) EXCEPT !.slug = Row.title])
    BY <2>1, MadeFacts, RowFacts
  <2>3. E = Append(docs, [Data(Row, made) EXCEPT !.slug = Row.title])
    BY <1>4 DEF Result
  <2> DEFINE e == [Data(Row, made) EXCEPT !.slug = Row.title]
  <2>4. MadeFor(Row, e) /\ E = Append(docs, e)
    BY <2>2, <2>3
  <2> HIDE DEF e
  <2>5. \A i \in Of(docs, e.coll) : docs[i].slug # e.slug
    BY <1>4, <2>4 DEF Refused, MadeFor
  <2> QED BY <1>4, <2>1, <2>4, <2>5 DEF MakesIt
<1>5. CASE ~Removes /\ t # None
  <2>1. TargetIsThere /\ DocOK(docs[t]) /\ docs[t] # Gone
    BY <1>1, <1>2, <1>5 DEF TargetIsThere, DocsOK
  <2>2. job.script \in Importers \cup {"texts"}
    BY <1>1, <1>5 DEF Removes, Importers, Scripts
  <2>3. DOMAIN docs[t] = GoneFields
    BY <2>1, GoneFacts DEF DocOK
  <2>4. job.script = "grants" => docs[t].title # ""
    BY <2>1, CollOfFacts DEF TargetIsThere, DocOK
  <2> DEFINE e == Data(Row, docs[t])
  <2>5. WrittenFor(Row, docs[t], e)
    BY <2>2, <2>3, <2>4, DataFacts
  <2>6. E = [docs EXCEPT ![t] = e]
    BY <1>5 DEF Result
  <2> HIDE DEF e
  <2>7. DocOK(e)
    <3>1. e.coll # "gone" /\ e.coll \in Collections
      BY <2>1, <2>5 DEF DocOK, WrittenFor
    <3>2. e.coll = "project" => e.title # ""
      <4> SUFFICES ASSUME e.coll = "project" PROVE e.title # ""
        OBVIOUS
      <4>1. job.script \in {"grants", "texts"} /\ docs[t].coll = "project"
        BY <2>1, <2>2, <2>5, CollOfFacts DEF TargetIsThere, WrittenFor, Importers
      <4>2. docs[t].title # "" /\ (job.script = "grants" => Row.title # "")
        BY <2>1, <4>1, RowFacts DEF DocOK
      <4> QED BY <2>5, <4>1, <4>2 DEF WrittenFor
    <3> QED BY <2>1, <2>5, <3>1, <3>2, GoneFacts DEF DocOK, WrittenFor
  <2> QED BY <1>5, <2>1, <2>2, <2>5, <2>6, <2>7 DEF WritesIt
<1> QED BY <1>3, <1>4, <1>5

LEMMA WriteKeeps ==
    ASSUME IInv, NEW E, RemovesIt(E) \/ MakesIt(E) \/ WritesIt(E)
    PROVE  DocsOK(E) /\ Kept(docs, E)
<1>1. DocsOK(docs)
  BY DEF IInv
<1>2. CASE RemovesIt(E)
  BY <1>1, <1>2, Removed DEF RemovesIt, TargetIsThere
<1>3. CASE MakesIt(E)
  <2>1. PICK e : /\ MadeFor(Row, e) /\ \A i \in Of(docs, e.coll) : docs[i].slug # e.slug
                 /\ E = Append(docs, e)
    BY <1>3 DEF MakesIt
  <2> QED BY <1>1, <2>1, Added DEF MadeFor
<1>4. CASE WritesIt(E)
  <2>1. PICK e : /\ WrittenFor(Row, docs[job.target], e) /\ DocOK(e)
                 /\ E = [docs EXCEPT ![job.target] = e]
    BY <1>4 DEF WritesIt
  <2>2. job.target \in DOMAIN docs /\ e.coll = docs[job.target].coll
        /\ e.slug = docs[job.target].slug /\ e.themes \subseteq Of(docs, "theme")
    BY <1>1, <1>4, <2>1 DEF WritesIt, TargetIsThere, WrittenFor, DocsOK
  <2> QED BY <1>1, <2>1, <2>2, Changed
<1> QED BY <1>2, <1>3, <1>4

----------------------------------------------------------------------------
(* The next row.                                                           *)
(* What is gone stays so.                                                  *)
LEMMA GoneStays ==
    ASSUME NEW D, NEW E, Kept(D, E), DocsOK(E), NEW i \in DOMAIN D, D[i] = Gone
    PROVE  E[i] = Gone
BY GoneFacts DEF Kept, DocsOK, DocOK

LEMMA KeptOn ==
    ASSUME NEW C, NEW D, NEW E, Kept(C, D), Kept(D, E), DocsOK(E)
    PROVE  Kept(C, E)
BY GoneStays DEF Kept

LEMMA JobKeeps ==
    ASSUME NEW j, NEW D, NEW E, JobOK(j, D), DocsOK(D), DocsOK(E), Kept(D, E)
    PROVE  JobOK(j, E)
<1>1. Kept(j.snap, E)
  BY KeptOn DEF JobOK
<1>2. j.target \in {None, Unread} \cup DOMAIN E
  BY DEF JobOK, Kept
<1>3. j.target \in DOMAIN E => j.target \in DOMAIN D
  BY NoneIsNoDocument DEF JobOK, DocsOK
<1>4. j.target \in DOMAIN E => E[j.target] = Gone \/ E[j.target].coll = CollOf[j.script]
  BY <1>3, GoneStays DEF JobOK, Kept
<1> QED BY <1>1, <1>2, <1>4 DEF JobOK

(* What is said of a script depends on its rows and on what it read.       *)
LEMMA SameScript ==
    ASSUME NEW i, NEW j, j.script = i.script, j.rows = i.rows, j.snap = i.snap
    PROVE  /\ RowsOK(i) => RowsOK(j)
           /\ \A D : NamesOK(i, D) => NamesOK(j, D)
           /\ \A D, k : Done(i, D, k) => Done(j, D, k)
<1>1. RowsOK(i) => RowsOK(j)
  BY DEF RowsOK
<1>2. ASSUME NEW D, NamesOK(i, D) PROVE NamesOK(j, D)
  BY <1>2 DEF NamesOK
<1>3. ASSUME NEW D, NEW k, Done(i, D, k) PROVE Done(j, D, k)
  BY <1>3 DEF Done, ShownBy, TakenBy
<1> QED BY <1>1, <1>2, <1>3

LEMMA OnwardFacts ==
    ASSUME IInv, NEW f
    PROVE  LET j == Onward(f) IN
           /\ DOMAIN j = JobFields /\ j.script = job.script /\ j.rows = job.rows
           /\ j.snap = job.snap /\ j.disturbed = job.disturbed
           /\ j.at = job.at + 1 /\ j.target = Unread /\ j.failed = (job.failed \/ f)
BY DEF IInv, JobOK, Onward, JobFields

LEMMA MovesOn ==
    ASSUME IInv, NEW f, NEW E, DocsOK(E), Kept(docs, E), NEW h
    PROVE  JobOK(Onward(f), E) /\ RowsOK(Onward(f)) /\ TargetOK(Onward(f), E, h)
<1> DEFINE j == Onward(f)
<1>1. /\ DOMAIN j = JobFields /\ j.script = job.script /\ j.rows = job.rows
      /\ j.snap = job.snap /\ j.disturbed = job.disturbed
      /\ j.at = job.at + 1 /\ j.target = Unread
  BY OnwardFacts
<1> HIDE DEF j
<1>2. JobOK(job, E)
  BY JobKeeps DEF IInv
<1>3. Unread \notin DOMAIN E
  BY NoneIsNoDocument DEF DocsOK
<1>4. j.at \in Nat \ {0}
  BY <1>1, <1>2 DEF JobOK
<1>5. JobOK(j, E)
  BY <1>1, <1>2, <1>3, <1>4 DEF JobOK
<1>6. RowsOK(j)
  BY <1>1 DEF IInv, RowsOK
<1>7. TargetOK(j, E, h)
  BY <1>1 DEF TargetOK
<1> QED BY <1>5, <1>6, <1>7 DEF j

(* What a write does to a document that is there before it: nothing, or it *)
(* drops a link, or it makes it the row's record, which it was.            *)
SameFields(d, e) ==
    e.coll = d.coll /\ e.slug = d.slug /\ e.title = d.title /\ e.at = d.at /\ e.stage = d.stage
LEMMA TargetMatches ==
    ASSUME IInv, Writing, job.target # Unread, ~Removes, TargetIsThere, ~job.disturbed, ~job.failed,
           job.script \in Importers
    PROVE  Matches(job, docs[job.target], Row)
<1>1. job.target # None
  BY NoneIsNoDocument DEF IInv, DocsOK, TargetIsThere
<1>2. FoundOK(job, docs)
  BY DEF IInv, SteadyOK, Removing, Removes, Row
<1> QED BY <1>1, <1>2 DEF FoundOK, Row

LEMMA WriteTouches ==
    ASSUME IInv, Writing, job.target # Unread, NEW E, RemovesIt(E) \/ MakesIt(E) \/ WritesIt(E),
           ~job.disturbed, ~job.failed, job.script \in Importers,
           NEW i \in DOMAIN docs, ~(RemovesIt(E) /\ i = job.target)
    PROVE  /\ i \in DOMAIN E
           /\ \/ SameFields(docs[i], E[i])
              \/ /\ ~Removes /\ i = job.target
                 /\ E[i].coll = docs[i].coll /\ E[i].slug = docs[i].slug
                 /\ E[i].title = docs[i].title
                 /\ job.script = "meetings" => E[i].at = docs[i].at
                 /\ job.script = "theses" => E[i].stage = Row.stage
                 /\ docs[i].title = Row.title
<1>1. DocsOK(docs)
  BY DEF IInv
<1>2. CASE RemovesIt(E)
  BY <1>1, <1>2, Removed DEF RemovesIt, TargetIsThere, SameFields, GoneFields
<1>3. CASE MakesIt(E)
  <2>1. PICK e : /\ MadeFor(Row, e) /\ \A k \in Of(docs, e.coll) : docs[k].slug # e.slug
                 /\ E = Append(docs, e)
    BY <1>3 DEF MakesIt
  <2>2. DOMAIN E = 1..(Len(docs) + 1) /\ Len(docs) \in Nat /\ DOMAIN docs = 1..Len(docs)
        /\ E[i] = docs[i]
    BY <1>1, <2>1, Added DEF MadeFor
  <2> QED BY <2>2 DEF SameFields
<1>4. CASE WritesIt(E)
  <2>1. PICK e : WrittenFor(Row, docs[job.target], e) /\ E = [docs EXCEPT ![job.target] = e]
    BY <1>4 DEF WritesIt
  <2>2. CASE i # job.target
    BY <2>1, <2>2 DEF SameFields
  <2>3. CASE i = job.target
    <3>1. Matches(job, docs[i], Row) /\ ~Removes /\ E[i] = e /\ i \in DOMAIN E
      BY <1>4, <2>1, <2>3, TargetMatches DEF WritesIt
    <3>2. job.script # "texts"
      BY DEF Importers
    <3> QED BY <2>1, <2>3, <3>1, <3>2 DEF Matches, WrittenFor
  <2> QED BY <2>2, <2>3
<1> QED BY <1>2, <1>3, <1>4

(* A theme that is removed is none the script wants.                       *)
LEMMA RemovedIsUnwanted ==
    ASSUME IInv, Writing, job.target # Unread, NEW E, RemovesIt(E), ~job.disturbed, ~job.failed,
           job.script \in Importers
    PROVE  /\ job.script = "themes" /\ Row.id # None /\ job.target = Row.id
           /\ job.target \in DOMAIN job.snap /\ job.snap[job.target].title \notin ToSet(Wanted)
           /\ docs[job.target].title \notin ToSet(Wanted)
<1>1. /\ job.script = "themes" /\ Row.id # None /\ TargetIsThere
  BY DEF RemovesIt, Removes, Importers
<1>2. job.target = Row.id /\ job.target \in DOMAIN job.snap
      /\ job.snap[job.target].title \notin ToSet(Wanted)
  BY <1>1, RowFacts DEF IInv, TargetOK, Row, Of
<1>3. docs[job.target].title = job.snap[job.target].title
  <2>1. job.target \in Of(docs, CollOf[job.script])
    BY <1>1 DEF TargetIsThere, Of
  <2> QED BY <1>2, <2>1 DEF IInv, SteadyOK, NamesOK
<1> QED BY <1>1, <1>2, <1>3

(* A record that shows a row shows it after the write.                     *)
LEMMA ShownStays ==
    ASSUME IInv, Writing, job.target # Unread, NEW E, RemovesIt(E) \/ MakesIt(E) \/ WritesIt(E),
           ~job.disturbed, ~job.failed, job.script \in Importers,
           NEW k \in DOMAIN job.rows, ~(job.script = "themes" /\ job.rows[k].id # None),
           NEW i \in DOMAIN docs, ShownBy(job, docs[i], job.rows[k])
    PROVE  i \in DOMAIN E /\ ShownBy(job, E[i], job.rows[k])
<1>1. ~(RemovesIt(E) /\ i = job.target)
  <2> SUFFICES ASSUME RemovesIt(E), i = job.target PROVE FALSE
    OBVIOUS
  <2>1. job.script = "themes" /\ docs[i].title \notin ToSet(Wanted)
    BY RemovedIsUnwanted
  <2>2. job.rows[k].title \in ToSet(Wanted)
    BY <2>1 DEF IInv, RowsOK
  <2> QED BY <2>1, <2>2 DEF ShownBy
<1>2. Row = job.rows[job.at] /\ Row \in ToSet(job.rows)
  BY RowFacts DEF ToSet
<1> QED BY <1>1, <1>2, WriteTouches DEF ShownBy, SameFields

(* Who has a slug that was refused keeps it: themes are removed before the *)
(* first new one is written.                                               *)
LEMMA TakenStays ==
    ASSUME IInv, Writing, job.target # Unread, NEW E, RemovesIt(E) \/ MakesIt(E) \/ WritesIt(E),
           ~job.disturbed, ~job.failed, job.script \in Importers,
           NEW k \in DOMAIN job.rows, k < job.at, ~(job.script = "themes" /\ job.rows[k].id # None),
           NEW i \in Of(docs, CollOf[job.script]), TakenBy(job, docs, i, job.rows[k])
    PROVE  i \in Of(E, CollOf[job.script]) /\ TakenBy(job, E, i, job.rows[k])
<1>1. ~RemovesIt(E)
  <2> SUFFICES ASSUME RemovesIt(E) PROVE FALSE
    OBVIOUS
  <2>1. job.script = "themes" /\ Row.id # None
    BY RemovedIsUnwanted
  <2> QED BY <2>1, RowFacts
<1>2. i \in DOMAIN docs
  BY DEF Of
<1>3. /\ i \in DOMAIN E /\ E[i].coll = docs[i].coll /\ E[i].slug = docs[i].slug
      /\ E[i].title = docs[i].title /\ (job.script = "meetings" => E[i].at = docs[i].at)
  BY <1>1, <1>2, WriteTouches DEF SameFields
<1> QED BY <1>3 DEF Of, TakenBy

(* After the write the row has its record, if it is not a theme's removal. *)
LEMMA RowGetsShown ==
    ASSUME IInv, Writing, job.target # Unread, NEW E, MakesIt(E) \/ WritesIt(E),
           ~job.disturbed, ~job.failed, job.script \in Importers
    PROVE  \E i \in DOMAIN E : ShownBy(job, E[i], Row)
<1>1. DocsOK(docs) /\ Row \in ToSet(job.rows)
  BY RowFacts DEF IInv, ToSet
<1>2. CASE MakesIt(E)
  <2>1. PICK e : /\ MadeFor(Row, e) /\ \A k \in Of(docs, e.coll) : docs[k].slug # e.slug
                 /\ E = Append(docs, e)
    BY <1>2 DEF MakesIt
  <2>2. DOMAIN E = 1..(Len(docs) + 1) /\ Len(docs) \in Nat /\ E[Len(docs) + 1] = e
    BY <1>1, <2>1, Added DEF MadeFor
  <2>3. Len(docs) + 1 \in DOMAIN E
    BY <2>2
  <2>4. ShownBy(job, e, Row)
    BY <1>1, <2>1 DEF ShownBy, MadeFor
  <2> QED BY <2>2, <2>3, <2>4
<1>3. CASE WritesIt(E)
  <2>1. PICK e : WrittenFor(Row, docs[job.target], e) /\ E = [docs EXCEPT ![job.target] = e]
    BY <1>3 DEF WritesIt
  <2>2. job.target \in DOMAIN E /\ E[job.target] = e /\ docs[job.target].coll = CollOf[job.script]
    BY <1>3, <2>1 DEF WritesIt, TargetIsThere
  <2>3. ShownBy(job, e, Row)
    BY <1>1, <2>1, <2>2 DEF ShownBy, WrittenFor, Importers
  <2> QED BY <2>2, <2>3
<1> QED BY <1>2, <1>3

LEMMA DoneAfter ==
    ASSUME IInv, Writing, job.target # Unread, NEW E, RemovesIt(E) \/ MakesIt(E) \/ WritesIt(E),
           ~job.disturbed, ~job.failed, job.script \in Importers,
           NEW k \in DOMAIN job.rows, k <= job.at
    PROVE  Done(job, E, k)
<1>1. CASE job.script = "themes" /\ job.rows[k].id # None
  BY <1>1 DEF Done
<1>2. CASE k = job.at /\ ~(job.script = "themes" /\ job.rows[k].id # None)
  <2>1. Row = job.rows[k]
    BY <1>2 DEF Row
  <2>2. ~RemovesIt(E)
    BY <1>2, <2>1 DEF RemovesIt, Removes, Importers
  <2> QED BY <2>1, <2>2, RowGetsShown DEF Done
<1>3. CASE k # job.at /\ ~(job.script = "themes" /\ job.rows[k].id # None)
  <2>1. k < job.at
    BY <1>3, ListFacts DEF IInv, JobOK
  <2>2. Done(job, docs, k)
    BY <2>1 DEF IInv, SteadyOK
  <2>3. CASE \E i \in DOMAIN docs : ShownBy(job, docs[i], job.rows[k])
    BY <1>3, <2>3, ShownStays DEF Done
  <2>4. CASE \E i \in Of(docs, CollOf[job.script]) : TakenBy(job, docs, i, job.rows[k])
    BY <1>3, <2>1, <2>4, TakenStays DEF Done
  <2> QED BY <1>3, <2>2, <2>3, <2>4 DEF Done
<1> QED BY <1>1, <1>2, <1>3

LEMMA NamesStay ==
    ASSUME IInv, Writing, job.target # Unread, NEW E, RemovesIt(E) \/ MakesIt(E) \/ WritesIt(E),
           ~job.disturbed, ~job.failed, job.script \in Importers
    PROVE  NamesOK(job, E)
<1>1. /\ DocsOK(docs) /\ NamesOK(job, docs) /\ DocsOK(job.snap) /\ Kept(job.snap, docs)
      /\ CollOf[job.script] \in Collections
  BY CollOfFacts DEF IInv, JobOK, SteadyOK, Importers, Collections
<1>2. ASSUME NEW i \in Of(E, CollOf[job.script])
      PROVE  IF i \in DOMAIN job.snap THEN E[i].title = job.snap[i].title ELSE E[i].slug = E[i].title
  <2>1. CASE i \in DOMAIN docs
    <3>1. ~(RemovesIt(E) /\ i = job.target)
      BY <1>1, <1>2, Removed, GoneFacts DEF RemovesIt, TargetIsThere, Of
    <3>2. E[i].coll = docs[i].coll /\ E[i].slug = docs[i].slug /\ E[i].title = docs[i].title
      BY <2>1, <3>1, WriteTouches DEF SameFields
    <3>3. i \in Of(docs, CollOf[job.script])
      BY <1>2, <2>1, <3>2 DEF Of
    <3> QED BY <1>1, <3>2, <3>3 DEF NamesOK
  <2>2. CASE i \notin DOMAIN docs
    <3>1. i \notin DOMAIN job.snap
      BY <1>1, <2>2 DEF Kept
    <3>2. MakesIt(E)
      <4>1. DOMAIN E = DOMAIN docs \/ MakesIt(E)
        BY <1>1, Removed DEF RemovesIt, TargetIsThere, WritesIt
      <4> QED BY <2>2, <4>1 DEF Of
    <3>3. PICK e : /\ MadeFor(Row, e) /\ \A k \in Of(docs, e.coll) : docs[k].slug # e.slug
                   /\ E = Append(docs, e)
      BY <3>2 DEF MakesIt
    <3>4. DOMAIN E = 1..(Len(docs) + 1) /\ Len(docs) \in Nat /\ DOMAIN docs = 1..Len(docs)
          /\ E[Len(docs) + 1] = e
      BY <1>1, <3>3, Added DEF MadeFor
    <3>5. i = Len(docs) + 1
      BY <1>2, <2>2, <3>4 DEF Of
    <3> QED BY <3>1, <3>3, <3>4, <3>5 DEF MadeFor
  <2> QED BY <2>1, <2>2
<1>3. ASSUME job.script = "themes", NEW i \in Of(job.snap, "theme"),
             job.snap[i].title \in ToSet(Wanted)
      PROVE  E[i] # Gone
  <2>1. docs[i] # Gone /\ i \in DOMAIN docs /\ docs[i].coll = "theme"
    BY <1>1, <1>3 DEF NamesOK, Kept, Of
  <2>2. ~(RemovesIt(E) /\ i = job.target)
    BY <1>3, RemovedIsUnwanted
  <2>3. E[i].coll = docs[i].coll
    BY <2>1, <2>2, WriteTouches DEF SameFields
  <2> QED BY <2>1, <2>3, GoneFacts
<1> QED BY <1>2, <1>3 DEF NamesOK

LEMMA FixturesGoOn ==
    ASSUME IInv, Writing, NEW E, RemovesIt(E) \/ MakesIt(E) \/ WritesIt(E), NEW j,
           j.script = job.script, j.snap = job.snap, j.disturbed = job.disturbed
    PROVE  FixturesOK(j, E)
<1> SUFFICES ASSUME job.script = "fixtures" PROVE FixturesOK(j, E)
  BY DEF FixturesOK
<1>1. RemovesIt(E) /\ DocsOK(docs)
  BY DEF MakesIt, WritesIt, Removes, IInv
<1>2. DOMAIN E = DOMAIN docs /\ \A i \in Of(E, "thesis") : i \in Of(docs, "thesis")
                                                         /\ E[i].title = docs[i].title
  <2>1. /\ DOMAIN E = DOMAIN docs
        /\ \A i \in DOMAIN docs : i # job.target => E[i].title = docs[i].title
        /\ Of(E, "thesis") = Of(docs, "thesis") \ {job.target}
    BY <1>1, Removed DEF RemovesIt, TargetIsThere, GoneFields, Collections
  <2> QED BY <2>1 DEF Of
<1> QED BY <1>2 DEF IInv, FixturesOK, NamesFixtures

LEMMA WriteStep ==
    ASSUME IInv, Writing, job.target # Unread, NEW E, RemovesIt(E) \/ MakesIt(E) \/ WritesIt(E),
           NEW h
    PROVE  LET j == Onward(FALSE) IN
           /\ DocsOK(E) /\ JobOK(j, E) /\ RowsOK(j)
           /\ TargetOK(j, E, h) /\ FixturesOK(j, E) /\ SteadyOK(j, E)
<1> DEFINE j == Onward(FALSE)
<1>1. /\ DOMAIN j = JobFields /\ j.script = job.script /\ j.rows = job.rows
      /\ j.snap = job.snap /\ j.disturbed = job.disturbed
      /\ j.at = job.at + 1 /\ j.target = Unread /\ (~j.failed => ~job.failed)
  BY OnwardFacts
<1>2. DocsOK(E) /\ Kept(docs, E)
  BY WriteKeeps
<1>3. JobOK(j, E) /\ RowsOK(j) /\ TargetOK(j, E, h)
  BY <1>2, MovesOn
<1> HIDE DEF j
<1>4. FixturesOK(j, E)
  BY <1>1, FixturesGoOn
<1>5. SteadyOK(j, E)
  <2> SUFFICES ASSUME ~job.disturbed, ~job.failed, job.script \in Importers
               PROVE  NamesOK(job, E) /\ \A k \in DOMAIN job.rows : k < j.at => Done(job, E, k)
    BY <1>1, SameScript DEF SteadyOK
  <2>1. ASSUME NEW k \in DOMAIN job.rows, k < j.at PROVE Done(job, E, k)
    <3>1. k <= job.at
      BY <1>1, <2>1, ListFacts DEF IInv, JobOK
    <3> QED BY <3>1, DoneAfter
  <2> QED BY <2>1, NamesStay
<1> QED BY <1>2, <1>3, <1>4, <1>5 DEF j

(* A row passed over: the documents are as they were.                      *)
LEMMA PassStep ==
    ASSUME IInv, Writing, NEW f \in BOOLEAN,
           ~f /\ ~job.disturbed /\ ~job.failed /\ job.script \in Importers => Done(job, docs, job.at),
           NEW h
    PROVE  LET j == Onward(f) IN
           /\ JobOK(j, docs) /\ RowsOK(j)
           /\ TargetOK(j, docs, h) /\ FixturesOK(j, docs) /\ SteadyOK(j, docs)
<1> DEFINE j == Onward(f)
<1>1. /\ DOMAIN j = JobFields /\ j.script = job.script /\ j.rows = job.rows
      /\ j.snap = job.snap /\ j.disturbed = job.disturbed
      /\ j.at = job.at + 1 /\ j.target = Unread /\ j.failed = (job.failed \/ f)
  BY OnwardFacts
<1>2. DocsOK(docs) /\ Kept(docs, docs)
  BY DEF IInv, Kept
<1>3. JobOK(j, docs) /\ RowsOK(j) /\ TargetOK(j, docs, h)
  BY <1>2, MovesOn
<1> HIDE DEF j
<1>4. FixturesOK(j, docs)
  BY <1>1 DEF IInv, FixturesOK, NamesFixtures
<1>5. SteadyOK(j, docs)
  <2> SUFFICES ASSUME ~job.disturbed, ~job.failed, ~f, job.script \in Importers,
                      NEW k \in DOMAIN job.rows, k < j.at
               PROVE  Done(job, docs, k)
    BY <1>1, SameScript DEF SteadyOK, IInv
  <2>1. CASE k = job.at
    BY <2>1
  <2>2. CASE k # job.at
    <3>1. k < job.at
      BY <1>1, <2>2, ListFacts DEF IInv, JobOK
    <3>2. Done(job, docs, k)
      BY <3>1 DEF IInv, SteadyOK
    <3> QED BY <3>2
  <2> QED BY <2>1, <2>2
<1> QED BY <1>3, <1>4, <1>5 DEF j

(* A row the database refuses is a record whose slug is taken; a theme's   *)
(* second mention on the list is a record that shows it.                   *)
LEMMA RefusedRow ==
    ASSUME IInv, Writing, job.target # Unread, Refused, ~job.disturbed, ~job.failed,
           job.script \in Importers
    PROVE  /\ Done(job, docs, job.at)
           /\ job.script = "grants" =>
                 \E i \in Of(docs, CollOf[job.script]) : TakenBy(job, docs, i, Row)
<1>1. DocsOK(docs) /\ NamesOK(job, docs) /\ Row = job.rows[job.at]
  BY DEF IInv, SteadyOK, Row
<1>2. CASE Removing(job)
  BY <1>2 DEF Done, Removing
<1>3. CASE ~Removing(job)
  <2>1. FoundOK(job, docs)
    BY <1>3 DEF IInv, SteadyOK
  <2>2. job.target = None
    BY <2>1 DEF FoundOK, Refused
  <2>3. PICK i \in Of(docs, CollOf[job.script]) : docs[i].slug = Row.title
    BY <2>2 DEF Refused
  <2>4. i \in DOMAIN docs /\ docs[i].coll = CollOf[job.script]
    BY <2>3 DEF Of
  <2>5. CASE docs[i].title # Row.title
    <3>1. i \in DOMAIN job.snap /\ docs[i].title = job.snap[i].title
      BY <1>1, <2>3, <2>5 DEF NamesOK
    <3> QED BY <1>1, <2>3, <2>5, <3>1 DEF Done, TakenBy
  <2>6. CASE docs[i].title = Row.title /\ job.script = "themes"
    <3>1. ShownBy(job, docs[i], Row)
      BY <2>4, <2>6 DEF ShownBy
    <3> QED BY <1>1, <2>4, <2>6, <3>1 DEF Done
  <2>7. CASE docs[i].title = Row.title /\ job.script # "themes"
    <3>1. ~Matches(job, docs[i], Row)
      BY <1>1, <2>1, <2>2, <2>3, <2>7 DEF FoundOK
    <3>2. job.script = "meetings" /\ docs[i].at # Row.at
      BY <2>7, <3>1 DEF Matches
    <3> QED BY <1>1, <2>3, <2>7, <3>2 DEF Done, TakenBy
  <2> QED BY <2>5, <2>6, <2>7
<1> QED BY <1>2, <1>3 DEF Removing

----------------------------------------------------------------------------
(* Look.                                                                   *)
LEMMA NewestIsOne ==
    ASSUME NEW D, IsList(D), NEW T, T \subseteq DOMAIN D
    PROVE  /\ Newest(T) \in T \cup {None} /\ (Newest(T) = None => T = {})
           /\ Oldest(T) \in T \cup {None} /\ (Oldest(T) = None => T = {})
<1>1. Len(D) \in Nat /\ T \subseteq 0..Len(D) /\ T \subseteq Nat /\ None \notin T
  BY ListFacts DEF None
<1>2. CASE T = {}
  BY <1>2 DEF Newest, Oldest
<1>3. CASE T # {}
  BY <1>1, <1>3, MinIsLeast, MaxIsGreatest DEF Newest, Oldest
<1> QED BY <1>2, <1>3

(* The target is in its collection and has the row's title, in what the    *)
(* script has read or in the database.                                     *)
LEMMA TargetFacts ==
    ASSUME IInv, Writing, ~Spared(Row), Target(Row) # None
    PROVE  LET t == Target(Row) IN
           /\ t \in DOMAIN docs
           /\ docs[t] = Gone \/ docs[t].coll = CollOf[job.script]
           /\ job.script \in {"theses", "grants", "meetings", "fixtures"} => docs[t].title = Row.title
           /\ job.script = "meetings" => docs[t].at = Row.at
           /\ job.script \in {"texts", "themes"} => t \in DOMAIN job.snap
           /\ job.script = "themes" /\ Row.id = None => job.snap[t].title = Row.title
           /\ job.script = "themes" /\ Row.id # None => t = Row.id
<1> DEFINE t == Target(Row)
           r == Row
<1>1. IsList(docs) /\ IsList(job.snap) /\ Kept(job.snap, docs) /\ job.script \in Scripts
  BY DEF IInv, JobOK, DocsOK, Writing
<1>2. \A c, title : Titled(docs, c, title) \subseteq DOMAIN docs
                    /\ Titled(job.snap, c, title) \subseteq DOMAIN job.snap
  BY DEF Titled, Of
<1>3. \A c, title : \A i \in Titled(job.snap, c, title) :
          i \in DOMAIN docs /\ (docs[i] = Gone \/ docs[i].coll = c)
  BY <1>1 DEF Titled, Of, Kept
<1>4. CASE job.script \in {"theses", "grants", "meetings", "fixtures"}
  <2>1. PICK T : /\ t = Newest(T) /\ T \subseteq Titled(docs, CollOf[job.script], r.title)
                 /\ job.script = "meetings" => \A i \in T : docs[i].at = r.at
    <3>1. CASE job.script = "theses"
      BY <3>1, CollOfFacts DEF Target, SameThesis
    <3>2. CASE job.script = "grants"
      BY <3>2, CollOfFacts DEF Target, SameGrant
    <3>3. CASE job.script = "meetings"
      BY <3>3, CollOfFacts DEF Target, SameMeeting
    <3>4. CASE job.script = "fixtures"
      BY <3>4, CollOfFacts DEF Target, Fixture
    <3> QED BY <1>4, <3>1, <3>2, <3>3, <3>4
  <2>2. T \subseteq DOMAIN docs
    BY <1>2, <2>1
  <2>3. t \in T
    BY <1>1, <2>1, <2>2, NewestIsOne
  <2> QED BY <1>4, <2>1, <2>3 DEF Titled, Of
<1>5. CASE job.script = "texts"
  <2>1. t = Oldest(Titled(job.snap, "project", r.title))
    BY <1>5 DEF Target, ReadProject
  <2>2. t \in Titled(job.snap, "project", r.title)
    BY <1>1, <1>2, <2>1, NewestIsOne
  <2> QED BY <1>2, <1>3, <1>5, <2>2, CollOfFacts
<1>6. CASE job.script = "themes" /\ r.id = None
  <2>1. t = Newest(Titled(job.snap, "theme", r.title))
    BY <1>6 DEF Target, ReadTheme
  <2>2. t \in Titled(job.snap, "theme", r.title)
    BY <1>1, <1>2, <2>1, NewestIsOne
  <2> QED BY <1>2, <1>3, <1>6, <2>2, CollOfFacts DEF Titled
<1>7. CASE job.script = "themes" /\ r.id # None
  <2>1. t = r.id
    BY <1>7 DEF Target, ReadTheme
  <2>2. t \in Of(job.snap, "theme")
    BY <1>7, <2>1, RowFacts
  <2> QED BY <1>1, <1>7, <2>1, <2>2, CollOfFacts DEF Of, Kept
<1> QED BY <1>1, <1>4, <1>5, <1>6, <1>7 DEF Scripts

(* What the importers that ask the database find, or do not.               *)
FoundFor(r) ==
    {i \in Of(docs, CollOf[job.script]) : Matches(job, docs[i], r)}
LEMMA FindsMatches ==
    ASSUME job.script \in {"theses", "grants", "meetings"}, NEW r
    PROVE  Target(r) = Newest(FoundFor(r)) /\ FoundFor(r) \subseteq DOMAIN docs
<1>1. FoundFor(r) \subseteq DOMAIN docs
  BY DEF FoundFor, Of
<1>2. CASE job.script = "theses"
  <2>1. FoundFor(r) = Titled(docs, "thesis", r.title)
    BY <1>2, CollOfFacts DEF FoundFor, Matches, Titled
  <2> QED BY <1>1, <1>2, <2>1 DEF Target, SameThesis
<1>3. CASE job.script = "grants"
  <2>1. FoundFor(r) = Titled(docs, "project", r.title)
    BY <1>3, CollOfFacts DEF FoundFor, Matches, Titled
  <2> QED BY <1>1, <1>3, <2>1 DEF Target, SameGrant
<1>4. CASE job.script = "meetings"
  <2>1. FoundFor(r) = {i \in Titled(docs, "event", r.title) : docs[i].at = r.at}
    BY <1>4, CollOfFacts DEF FoundFor, Matches, Titled
  <2> QED BY <1>1, <1>4, <2>1 DEF Target, SameMeeting
<1> QED BY <1>2, <1>3, <1>4

LEMMA NoTarget ==
    ASSUME IInv, job.script \in {"theses", "grants", "meetings"}, NEW r, Target(r) = None
    PROVE  \A i \in Of(docs, CollOf[job.script]) : ~Matches(job, docs[i], r)
<1>1. IsList(docs) /\ FoundFor(r) \subseteq DOMAIN docs /\ Newest(FoundFor(r)) = None
  BY FindsMatches DEF IInv, DocsOK
<1>2. FoundFor(r) = {}
  BY <1>1, NewestIsOne
<1> QED BY <1>2 DEF FoundFor

LEMMA FoundIsThere ==
    ASSUME IInv, job.script \in {"theses", "grants", "meetings"}, NEW r, Target(r) # None
    PROVE  docs[Target(r)] # Gone
<1>1. IsList(docs) /\ FoundFor(r) \subseteq DOMAIN docs /\ Target(r) = Newest(FoundFor(r))
  BY FindsMatches DEF IInv, DocsOK
<1>2. Target(r) \in FoundFor(r)
  BY <1>1, NewestIsOne
<1>3. CollOf[job.script] \in Collections
  BY CollOfFacts DEF Collections
<1> QED BY <1>2, <1>3, OfGone DEF FoundFor

LEMMA ThemeTarget ==
    ASSUME IInv, job.script = "themes", NEW r, r.id = None, Target(r) # None
    PROVE  Target(r) \in Of(job.snap, "theme") /\ job.snap[Target(r)].title = r.title
<1>1. Target(r) = Newest(Titled(job.snap, "theme", r.title))
  BY DEF Target, ReadTheme
<1>2. IsList(job.snap) /\ Titled(job.snap, "theme", r.title) \subseteq DOMAIN job.snap
  BY DEF IInv, JobOK, DocsOK, Titled, Of
<1>3. Target(r) \in Titled(job.snap, "theme", r.title)
  BY <1>1, <1>2, NewestIsOne
<1> QED BY <1>3 DEF Titled

LEMMA LookStep ==
    ASSUME IInv, Writing, ~Spared(Row)
    PROVE  LET j == [job EXCEPT !.target = Target(Row)] IN
           /\ JobOK(j, docs) /\ RowsOK(j)
           /\ TargetOK(j, docs, held) /\ FixturesOK(j, docs) /\ SteadyOK(j, docs)
<1> DEFINE j == [job EXCEPT !.target = Target(Row)]
           t == Target(Row)
<1>1. /\ DOMAIN j = JobFields /\ j.script = job.script /\ j.rows = job.rows
      /\ j.snap = job.snap /\ j.disturbed = job.disturbed /\ j.failed = job.failed
      /\ j.at = job.at /\ j.target = t
  BY DEF IInv, JobOK, JobFields
<1>2. /\ DocsOK(docs) /\ JobOK(job, docs) /\ None \notin DOMAIN docs
      /\ Row = job.rows[job.at] /\ job.script \in Scripts
  BY NoneIsNoDocument, RowFacts DEF IInv, DocsOK, JobOK, Writing
<1> HIDE DEF j
<1>3. t # None => t \in DOMAIN docs /\ (docs[t] = Gone \/ docs[t].coll = CollOf[job.script])
  BY TargetFacts
<1>4. JobOK(j, docs)
  BY <1>1, <1>2, <1>3 DEF JobOK, Writing
<1>5. RowsOK(j)
  BY <1>1 DEF IInv, RowsOK
<1>6. FixturesOK(j, docs)
  BY <1>1 DEF IInv, FixturesOK, NamesFixtures
<1>7. TargetOK(j, docs, held)
  <2>1. ASSUME job.script = "themes", Row.id # None
        PROVE  t = Row.id /\ \A link \in held : link[2] # t
    <3>1. t = Row.id
      BY <2>1 DEF Target, ReadTheme
    <3>2. \A i \in DOMAIN docs : Row.id \notin docs[i].themes
      BY <2>1 DEF Spared, IsInUse
    <3>3. \A link \in held : link[1] \in DOMAIN docs /\ link[2] \in docs[link[1]].themes
      BY DEF IInv, Linked
    <3> QED BY <3>1, <3>2, <3>3
  <2>2. ASSUME job.script = "fixtures"
        PROVE  /\ t \in DOMAIN docs
               /\ docs[t] = Gone \/ Titled(docs, "thesis", docs[t].title) = {t}
               /\ job.snap[t].title \in FixtureTitles \/ NamesFixtures(job)
    <3> DEFINE T == Titled(docs, "thesis", Row.title)
    <3>1. Cardinality(T) = 1
      BY <2>2 DEF Spared, IsShared
    <3>2. T \subseteq DOMAIN docs /\ \A i \in T : docs[i].title = Row.title
      BY DEF Titled, Of
    <3>3. t = Newest(T)
      BY <2>2 DEF Target, Fixture
    <3>4. T # {} /\ IsFiniteSet(T)
      <4>1. IsFiniteSet(DOMAIN docs)
        BY <1>2, ListFacts, FS_Interval DEF DocsOK
      <4>2. Cardinality({}) = 0
        BY FS_EmptySet
      <4> HIDE DEF T
      <4> QED BY <3>1, <3>2, <4>1, <4>2, FS_Subset
    <3>5. t \in T
      <4> HIDE DEF T
      <4> QED BY <1>2, <3>2, <3>3, <3>4, NewestIsOne DEF DocsOK
    <3>6. T = {t}
      <4>1. PICK x : T = {x}
        <5> HIDE DEF T
        <5> QED BY <3>1, <3>4, FS_Singleton
      <4> HIDE DEF T
      <4> QED BY <3>5, <4>1
    <3>7. docs[t].title = Row.title /\ t \in Of(docs, "thesis")
      BY <3>5 DEF Titled
    <3>8. Row.title \in FixtureTitles
      BY <2>2, RowFacts
    <3> QED BY <2>2, <3>2, <3>5, <3>6, <3>7, <3>8 DEF IInv, FixturesOK
  <2>3. ASSUME job.script = "texts" PROVE t \in DOMAIN job.snap /\ job.snap[t].desc = ""
    <3>1. t = ReadProject(Row) /\ t # None /\ job.snap[t].desc = ""
      BY <2>3 DEF Target, Spared, IsSettled
    <3> QED BY <2>3, <3>1, TargetFacts
  <2> QED BY <1>1, <1>2, <2>1, <2>2, <2>3 DEF TargetOK, NamesFixtures
<1>8. SteadyOK(j, docs)
  <2> SUFFICES ASSUME ~job.disturbed, ~job.failed, job.script \in Importers, ~Removing(job)
               PROVE  IF t = None
                      THEN job.script # "themes" =>
                             \A i \in Of(docs, CollOf[job.script]) : ~Matches(job, docs[i], Row)
                      ELSE docs[t] # Gone /\ Matches(job, docs[t], Row)
    BY <1>1, <1>2 DEF IInv, SteadyOK, NamesOK, Done, ShownBy, TakenBy, FoundOK, Matches, Removing
  <2>1. CASE t = None /\ job.script # "themes"
    <3>1. job.script \in {"theses", "grants", "meetings"}
      BY <2>1 DEF Importers
    <3> QED BY <2>1, <3>1, NoTarget
  <2>2. CASE t # None /\ job.script = "themes"
    <3>1. Row.id = None
      BY <1>2, <2>2 DEF Removing
    <3>2. t \in Of(job.snap, "theme") /\ job.snap[t].title = Row.title
      BY <2>2, <3>1, ThemeTarget
    <3>3. Row.title \in ToSet(Wanted)
      BY <2>2, <3>1, RowFacts
    <3>4. docs[t] # Gone
      BY <2>2, <3>2, <3>3 DEF IInv, SteadyOK, NamesOK
    <3>5. t \in Of(docs, CollOf[job.script]) /\ t \in DOMAIN job.snap
      BY <1>3, <2>2, <3>2, <3>4 DEF Of
    <3>6. docs[t].title = job.snap[t].title
      BY <3>5 DEF IInv, SteadyOK, NamesOK
    <3> QED BY <2>2, <3>2, <3>4, <3>6 DEF Matches
  <2>3. CASE t # None /\ job.script # "themes"
    <3>1. job.script \in {"theses", "grants", "meetings"}
      BY <2>3 DEF Importers
    <3>2. docs[t].title = Row.title /\ (job.script = "meetings" => docs[t].at = Row.at)
      BY <2>3, <3>1, TargetFacts
    <3>3. docs[t] # Gone
      BY <2>3, <3>1, FoundIsThere
    <3> QED BY <2>3, <3>2, <3>3 DEF Matches
  <2> QED BY <2>1, <2>2, <2>3
<1> QED BY <1>4, <1>5, <1>6, <1>7, <1>8 DEF j

----------------------------------------------------------------------------
(* A script begins.                                                        *)
LEMMA EntriesAreList ==
    ASSUME NEW s, IsList(s), NEW T, T \subseteq DOMAIN s
    PROVE  IsList(Entries(s, T))
<1>1. Cardinality(T) \in Nat
  <2>1. IsFiniteSet(DOMAIN s)
    BY ListFacts, FS_Interval
  <2> QED BY <2>1, FS_Subset, FS_CardinalityType
<1>2. Entries(s, T) = [k \in 1..Cardinality(T) |-> Entries(s, T)[k]]
  BY DEF Entries
<1> QED BY <1>1, <1>2, FunctionIsList

LEMMA ThemeRowsFacts ==
    ASSUME DocsOK(docs)
    PROVE  /\ IsList(ThemeRows)
           /\ \A k \in DOMAIN ThemeRows :
                 LET r == ThemeRows[k] IN
                 /\ IF r.id = None THEN r.title \in ToSet(Wanted)
                    ELSE r.id \in Of(docs, "theme") /\ docs[r.id].title \notin ToSet(Wanted)
                 /\ r.id = None => \A m \in DOMAIN ThemeRows : k < m => ThemeRows[m].id = None
<1> DEFINE old == {t \in Of(docs, "theme") : docs[t].title \notin ToSet(Wanted)}
           c == Cardinality(old)
           newest(k) == Ascending(old)[c + 1 - k]
           a == [k \in 1..c |-> [title |-> docs[newest(k)].title, id |-> newest(k)]]
           b == [k \in DOMAIN Wanted |-> [title |-> Wanted[k], id |-> None]]
<1>1. /\ DOMAIN docs = 1..Len(docs) /\ Len(docs) \in Nat /\ None \notin DOMAIN docs
      /\ DOMAIN Wanted = 1..Len(Wanted) /\ Len(Wanted) \in Nat
  BY ContentAssumption, ListFacts, NoneIsNoDocument DEF DocsOK
<1>2. old \subseteq 1..Len(docs) /\ old \subseteq Of(docs, "theme")
      /\ \A t \in old : docs[t].title \notin ToSet(Wanted)
  BY <1>1 DEF Of
<1>3. c \in Nat /\ Ascending(old) \in [1..c -> old]
  <2> HIDE DEF old
  <2> QED BY <1>1, <1>2, AscendingIsThem
<1>4. \A k \in 1..c : newest(k) \in old /\ newest(k) # None
  <2> SUFFICES ASSUME NEW k \in 1..c PROVE newest(k) \in old /\ newest(k) # None
    OBVIOUS
  <2>1. c + 1 - k \in 1..c
    <3> HIDE DEF c
    <3> QED BY <1>3
  <2> HIDE DEF old, c
  <2> QED BY <1>1, <1>2, <1>3, <2>1 DEF Of
<1>5. DOMAIN a = 1..c /\ \A k \in 1..c : a[k].id = newest(k) /\ a[k].id # None
  <2> HIDE DEF newest, c, old
  <2> QED BY <1>4
<1>6. DOMAIN b = DOMAIN Wanted /\ \A k \in DOMAIN Wanted : b[k].id = None /\ b[k].title = Wanted[k]
  OBVIOUS
<1>7. IsList(a) /\ Len(a) = c /\ IsList(b) /\ Len(b) = Len(Wanted)
  <2>1. a = [k \in 1..c |-> a[k]] /\ b = [k \in 1..Len(Wanted) |-> b[k]]
    BY <1>1
  <2> HIDE DEF a, b, c
  <2> QED BY <1>1, <1>3, <2>1, FunctionIsList
<1>8. ThemeRows = a \o b
  BY DEF ThemeRows
<1> HIDE DEF a, b, newest, c
<1>9. /\ IsList(a \o b) /\ DOMAIN (a \o b) = 1..(c + Len(Wanted))
      /\ \A k \in DOMAIN (a \o b) : (a \o b)[k] = IF k <= c THEN a[k] ELSE b[k - c]
  BY <1>7, JoinedList
<1>10. ASSUME NEW k \in DOMAIN (a \o b)
       PROVE  LET r == (a \o b)[k] IN
              IF r.id = None THEN r.title \in ToSet(Wanted)
              ELSE r.id \in Of(docs, "theme") /\ docs[r.id].title \notin ToSet(Wanted)
  <2>1. CASE k <= c
    <3>1. k \in 1..c /\ (a \o b)[k] = a[k]
      BY <1>3, <1>9, <2>1
    <3>2. a[k].id \in old /\ a[k].id # None
      BY <1>4, <1>5, <3>1
    <3> HIDE DEF old
    <3> QED BY <1>2, <3>1, <3>2
  <2>2. CASE ~(k <= c)
    <3>1. k - c \in DOMAIN Wanted /\ (a \o b)[k] = b[k - c]
      BY <1>1, <1>3, <1>9, <2>2
    <3>2. Wanted[k - c] \in ToSet(Wanted)
      BY <3>1 DEF ToSet
    <3> QED BY <1>6, <3>1, <3>2
  <2> QED BY <2>1, <2>2
<1>11. ASSUME NEW k \in DOMAIN (a \o b), NEW m \in DOMAIN (a \o b), k < m,
              (a \o b)[k].id = None
       PROVE  (a \o b)[m].id = None
  <2>1. ~(k <= c)
    <3> SUFFICES ASSUME k <= c PROVE FALSE
      OBVIOUS
    <3>1. k \in 1..c /\ (a \o b)[k] = a[k]
      BY <1>3, <1>9
    <3> QED BY <1>5, <1>11, <3>1
  <2>2. m - c \in DOMAIN Wanted /\ (a \o b)[m] = b[m - c]
    BY <1>1, <1>3, <1>9, <1>11, <2>1
  <2> QED BY <1>6, <2>2
<1> QED BY <1>8, <1>9, <1>10, <1>11

LEMMA RowsFacts ==
    ASSUME DocsOK(docs), NEW s \in Scripts
    PROVE  /\ IsList(Rows(s))
           /\ s = "grants" => Rows(s) = Grants
           /\ s = "fixtures" => Rows(s) = Fixtures
           /\ s = "themes" => Rows(s) = ThemeRows
<1>1. IsList(Published) /\ IsList(Dated)
  BY ContentAssumption, EntriesAreList DEF Published, Dated
<1>2. CASE s = "theses"
  BY <1>1, <1>2 DEF Rows
<1>3. CASE s = "grants"
  BY ContentAssumption, <1>3 DEF Rows
<1>4. CASE s = "meetings"
  BY <1>1, <1>4 DEF Rows
<1>5. CASE s = "texts"
  BY ContentAssumption, <1>5 DEF Rows
<1>6. CASE s = "themes"
  BY <1>6, ThemeRowsFacts DEF Rows
<1>7. CASE s = "fixtures"
  BY ContentAssumption, <1>7 DEF Rows
<1> QED BY <1>2, <1>3, <1>4, <1>5, <1>6, <1>7 DEF Scripts

LEMMA StartStep ==
    ASSUME DocsOK(docs), NEW s \in Scripts, NEW h
    PROVE  LET j == [NoJob EXCEPT !.script = s, !.rows = Rows(s), !.snap = docs] IN
           /\ JobOK(j, docs) /\ RowsOK(j)
           /\ TargetOK(j, docs, h) /\ FixturesOK(j, docs) /\ SteadyOK(j, docs)
<1> DEFINE j == [NoJob EXCEPT !.script = s, !.rows = Rows(s), !.snap = docs]
<1>1. /\ DOMAIN j = JobFields /\ j.script = s /\ j.rows = Rows(s) /\ j.snap = docs
      /\ j.at = 1 /\ j.target = Unread /\ j.disturbed = FALSE
  BY DEF NoJob, JobFields, Unread
<1> HIDE DEF j
<1>2. Unread \notin DOMAIN docs
  BY NoneIsNoDocument DEF DocsOK
<1>3. JobOK(j, docs)
  BY <1>1, <1>2, RowsFacts DEF JobOK, Kept
<1>4. RowsOK(j)
  <2> SUFFICES ASSUME NEW k \in DOMAIN Rows(s)
               PROVE  LET r == Rows(s)[k] IN
                      /\ s = "grants" => r.title # ""
                      /\ s = "fixtures" => r.title \in FixtureTitles
                      /\ s = "themes" =>
                         /\ IF r.id = None THEN r.title \in ToSet(Wanted)
                            ELSE r.id \in Of(docs, "theme") /\ docs[r.id].title \notin ToSet(Wanted)
                         /\ r.id = None => \A m \in DOMAIN Rows(s) : k < m => Rows(s)[m].id = None
    BY <1>1 DEF RowsOK
  <2> QED BY ContentAssumption, RowsFacts, ThemeRowsFacts DEF FixtureTitles
<1>5. TargetOK(j, docs, h)
  BY <1>1 DEF TargetOK
<1>6. FixturesOK(j, docs)
  BY <1>1 DEF FixturesOK
<1>7. SteadyOK(j, docs)
  <2>1. \A k \in DOMAIN j.rows : ~(k < j.at)
    BY <1>1, RowsFacts, ListFacts
  <2>2. ASSUME s \in Importers PROVE NamesOK(j, docs)
    <3>1. \A i \in Of(docs, "theme") : docs[i] # Gone
      BY OfGone DEF Collections
    <3> QED BY <1>1, <3>1 DEF NamesOK, Of
  <2> QED BY <1>1, <2>1, <2>2 DEF SteadyOK
<1> QED BY <1>3, <1>4, <1>5, <1>6, <1>7 DEF j

LEMMA NoJobStep ==
    ASSUME DocsOK(docs), NEW h
    PROVE  /\ JobOK(NoJob, docs) /\ RowsOK(NoJob)
           /\ TargetOK(NoJob, docs, h) /\ FixturesOK(NoJob, docs) /\ SteadyOK(NoJob, docs)
<1>1. /\ DOMAIN NoJob = JobFields /\ NoJob.script = "none" /\ NoJob.rows = <<>>
      /\ NoJob.snap = <<>> /\ NoJob.at = 1 /\ NoJob.target = Unread
  BY DEF NoJob, JobFields, Unread
<1>2. Unread \notin DOMAIN docs
  BY NoneIsNoDocument DEF DocsOK
<1>3. IsList(<<>>) /\ DOMAIN <<>> = {}
  BY DEF IsList
<1>4. DocsOK(<<>>) /\ Kept(<<>>, docs)
  BY <1>3 DEF DocsOK, Kept, Of
<1>5. JobOK(NoJob, docs)
  BY <1>1, <1>2, <1>3, <1>4 DEF JobOK
<1>6. RowsOK(NoJob)
  BY <1>1, <1>3 DEF RowsOK
<1> QED BY <1>1, <1>5, <1>6 DEF TargetOK, FixturesOK, SteadyOK, Importers

----------------------------------------------------------------------------
(* An editor changes a document in place or deletes one that is no theme;  *)
(* a new title is one that no document of the collection has.              *)
ChangesIt(i, d) ==
    /\ DocOK(d) /\ d.coll = docs[i].coll /\ d.slug = docs[i].slug
    /\ d.themes \subseteq Of(docs, "theme")
    /\ \/ d.title = docs[i].title
       \/ d.title \in NewTitles /\ Titled(docs, docs[i].coll, d.title) = {}
DeletesIt(i, d) == d = Gone /\ docs[i].coll # "theme"

LEMMA Edits ==
    ASSUME DocsOK(docs), Editor
    PROVE  \E i \in DOMAIN docs, d \in {docs'[k] : k \in DOMAIN docs} :
              Edit(i, d) /\ (ChangesIt(i, d) \/ DeletesIt(i, d))
<1>1. PICK i \in DOMAIN docs :
        Describe(i) \/ Retitle(i) \/ Join(i) \/ LinkTheme(i) \/ UnlinkTheme(i) \/ Delete(i)
  BY DEF Editor
<1>2. DocOK(docs[i]) /\ docs[i].themes \subseteq Of(docs, "theme") /\ DOMAIN docs[i] = GoneFields
  BY GoneFacts DEF DocsOK, DocOK
<1>3. ASSUME NEW d, Edit(i, d), ChangesIt(i, d) \/ DeletesIt(i, d)
      PROVE  \E k \in DOMAIN docs, e \in {docs'[m] : m \in DOMAIN docs} :
                Edit(k, e) /\ (ChangesIt(k, e) \/ DeletesIt(k, e))
  <2>1. docs'[i] = d
    BY <1>3 DEF Edit
  <2>2. d \in {docs'[m] : m \in DOMAIN docs}
    BY <2>1
  <2> QED BY <1>3, <2>2
<1>4. CASE Describe(i)
  <2> DEFINE d == [docs[i] EXCEPT !.desc = "human"]
  <2>1. DOMAIN d = GoneFields /\ \A f \in GoneFields : f # "desc" => d[f] = docs[i][f]
    BY <1>2 DEF GoneFields
  <2>2. Edit(i, d) /\ docs[i].coll \in {"thesis", "project"}
    BY <1>4 DEF Describe
  <2> HIDE DEF d
  <2>3. ChangesIt(i, d)
    BY <1>2, <2>1, <2>2, GoneFacts DEF ChangesIt, DocOK, GoneFields
  <2> QED BY <1>3, <2>2, <2>3
<1>5. CASE Retitle(i)
  <2>1. PICK t \in NewTitles :
          Titled(docs, docs[i].coll, t) = {} /\ Edit(i, [docs[i] EXCEPT !.title = t])
    BY <1>5 DEF Retitle
  <2> DEFINE d == [docs[i] EXCEPT !.title = t]
  <2>2. DOMAIN d = GoneFields /\ d.title = t
        /\ \A f \in GoneFields : f # "title" => d[f] = docs[i][f]
    BY <1>2 DEF GoneFields
  <2>3. docs[i].coll # "gone" /\ t # ""
    BY <1>5, ContentAssumption DEF Retitle
  <2>4. Edit(i, d)
    BY <2>1
  <2> HIDE DEF d
  <2>5. ChangesIt(i, d)
    BY <1>2, <2>1, <2>2, <2>3, GoneFacts DEF ChangesIt, DocOK, GoneFields
  <2> QED BY <1>3, <2>4, <2>5
<1>6. CASE Join(i)
  <2>1. PICK m \in DOMAIN Members : Edit(i, [docs[i] EXCEPT !.members = @ \cup {m}])
    BY <1>6 DEF Join
  <2> DEFINE d == [docs[i] EXCEPT !.members = @ \cup {m}]
  <2>2. DOMAIN d = GoneFields /\ d.members = docs[i].members \cup {m}
        /\ \A f \in GoneFields : f # "members" => d[f] = docs[i][f]
    BY <1>2 DEF GoneFields
  <2>3. Edit(i, d) /\ docs[i].coll = "project"
    BY <1>6, <2>1 DEF Join
  <2> HIDE DEF d
  <2>4. ChangesIt(i, d)
    BY <1>2, <2>2, <2>3, GoneFacts DEF ChangesIt, DocOK, GoneFields
  <2> QED BY <1>3, <2>3, <2>4
<1>7. CASE LinkTheme(i)
  <2>1. PICK t \in Of(docs, "theme") : Edit(i, [docs[i] EXCEPT !.themes = @ \cup {t}])
    BY <1>7 DEF LinkTheme
  <2> DEFINE d == [docs[i] EXCEPT !.themes = @ \cup {t}]
  <2>2. DOMAIN d = GoneFields /\ d.themes = docs[i].themes \cup {t}
        /\ \A f \in GoneFields : f # "themes" => d[f] = docs[i][f]
    BY <1>2 DEF GoneFields
  <2>3. Edit(i, d) /\ docs[i].coll \in {"thesis", "project"}
    BY <1>7, <2>1 DEF LinkTheme
  <2> HIDE DEF d
  <2>4. ChangesIt(i, d)
    BY <1>2, <2>2, <2>3, GoneFacts DEF ChangesIt, DocOK, GoneFields
  <2> QED BY <1>3, <2>3, <2>4
<1>8. CASE UnlinkTheme(i)
  <2>1. PICK t \in docs[i].themes : Edit(i, [docs[i] EXCEPT !.themes = @ \ {t}])
    BY <1>8 DEF UnlinkTheme
  <2> DEFINE d == [docs[i] EXCEPT !.themes = @ \ {t}]
  <2>2. DOMAIN d = GoneFields /\ d.themes = docs[i].themes \ {t}
        /\ \A f \in GoneFields : f # "themes" => d[f] = docs[i][f]
    BY <1>2 DEF GoneFields
  <2>3. Edit(i, d) /\ docs[i].coll # "gone"
    BY <1>2, <2>1, GoneFacts DEF DocOK
  <2> HIDE DEF d
  <2>4. ChangesIt(i, d)
    BY <1>2, <2>2, <2>3, GoneFacts DEF ChangesIt, DocOK, GoneFields
  <2> QED BY <1>3, <2>3, <2>4
<1>9. CASE Delete(i)
  <2>1. Edit(i, Gone) /\ DeletesIt(i, Gone)
    BY <1>9 DEF Delete, DeletesIt
  <2> QED BY <1>3, <2>1
<1> QED BY <1>1, <1>4, <1>5, <1>6, <1>7, <1>8, <1>9

LEMMA EditKeeps ==
    ASSUME DocsOK(docs), NEW i \in DOMAIN docs, NEW d, ChangesIt(i, d) \/ DeletesIt(i, d)
    PROVE  DocsOK([docs EXCEPT ![i] = d]) /\ Kept(docs, [docs EXCEPT ![i] = d])
BY Changed, Deleted DEF ChangesIt, DeletesIt

(* A title nothing else had is the document's alone, and so stays one that *)
(* was.                                                                    *)
LEMMA EditTitles ==
    ASSUME DocsOK(docs), NEW i \in DOMAIN docs, NEW d, ChangesIt(i, d) \/ DeletesIt(i, d),
           NEW E, DOMAIN E = DOMAIN docs, E[i] = d, \A k \in DOMAIN docs : k # i => E[k] = docs[k],
           NEW t \in DOMAIN docs, docs[t].coll = "thesis",
           Titled(docs, "thesis", docs[t].title) = {t}
    PROVE  E[t] = Gone \/ Titled(E, "thesis", E[t].title) = {t}
<1>1. DOMAIN E = DOMAIN docs /\ E[i] = d /\ \A k \in DOMAIN docs : k # i => E[k] = docs[k]
  OBVIOUS
<1>2. CASE DeletesIt(i, d)
  BY <1>1, <1>2, GoneFacts DEF DeletesIt, Titled, Of
<1>3. CASE ChangesIt(i, d)
  <2>1. d.coll = docs[i].coll
    BY <1>3 DEF ChangesIt
  <2>2. CASE d.title = docs[i].title
    <3>1. \A k \in DOMAIN docs : E[k].coll = docs[k].coll /\ E[k].title = docs[k].title
      BY <1>1, <2>1, <2>2
    <3> QED BY <1>1, <3>1 DEF Titled, Of
  <2>3. CASE Titled(docs, docs[i].coll, d.title) = {}
    BY <1>1, <2>1, <2>3 DEF Titled, Of
  <2> QED BY <1>3, <2>2, <2>3 DEF ChangesIt
<1> QED BY <1>2, <1>3

DisturbedJob(j) ==
    /\ DOMAIN j = JobFields /\ j.script = job.script /\ j.rows = job.rows
    /\ j.snap = job.snap /\ j.at = job.at /\ j.target = job.target
    /\ (j.script = "none" \/ j.disturbed)
    /\ (job.disturbed => j.disturbed)
LEMMA DisturbedFacts ==
    ASSUME IInv
    PROVE  DisturbedJob(IF job.script = "none" THEN job ELSE [job EXCEPT !.disturbed = TRUE])
<1>1. DOMAIN job = JobFields
  BY DEF IInv, JobOK
<1>2. CASE job.script = "none"
  BY <1>1, <1>2 DEF DisturbedJob
<1>3. CASE job.script # "none"
  BY <1>1, <1>3 DEF DisturbedJob, JobFields
<1> QED BY <1>2, <1>3

LEMMA EditStep ==
    ASSUME IInv, NEW i \in DOMAIN docs, NEW d, ChangesIt(i, d) \/ DeletesIt(i, d),
           NEW E, DocsOK(E), Kept(docs, E), DOMAIN E = DOMAIN docs, E[i] = d,
           \A k \in DOMAIN docs : k # i => E[k] = docs[k],
           NEW h, h \subseteq held, NEW j, DisturbedJob(j)
    PROVE  /\ JobOK(j, E) /\ RowsOK(j)
           /\ TargetOK(j, E, h) /\ FixturesOK(j, E) /\ SteadyOK(j, E)
<1>1. /\ DOMAIN j = JobFields /\ j.script = job.script /\ j.rows = job.rows
      /\ j.snap = job.snap /\ j.at = job.at /\ j.target = job.target
      /\ (j.script = "none" \/ j.disturbed)
      /\ (job.disturbed => j.disturbed)
  BY DEF DisturbedJob
<1>2. DocsOK(docs) /\ DocsOK(E) /\ Kept(docs, E) /\ DOMAIN E = DOMAIN docs
      /\ E[i] = d /\ \A k \in DOMAIN docs : k # i => E[k] = docs[k]
  BY DEF IInv
<1>3. NamesFixtures(job) => NamesFixtures(j)
  BY <1>1 DEF NamesFixtures
<1>4. JobOK(job, E)
  BY <1>2, JobKeeps DEF IInv
<1>5. JobOK(j, E)
  BY <1>1, <1>4 DEF JobOK
<1>6. RowsOK(j)
  BY <1>1, SameScript DEF IInv
<1>10. ASSUME NEW t \in DOMAIN docs, docs[t].coll = "thesis",
              Titled(docs, "thesis", docs[t].title) = {t}
       PROVE  E[t] = Gone \/ Titled(E, "thesis", E[t].title) = {t}
  <2>1. DocsOK(docs) /\ DOMAIN E = DOMAIN docs /\ E[i] = d
        /\ \A k \in DOMAIN docs : k # i => E[k] = docs[k]
    BY <1>2
  <2> QED BY <1>10, <2>1, EditTitles
<1>7. TargetOK(j, E, h)
  <2> SUFFICES ASSUME job.target # Unread PROVE TargetOK(j, E, h)
    BY <1>1 DEF TargetOK
  <2>1. ASSUME job.script = "fixtures"
        PROVE  /\ job.target \in DOMAIN E
               /\ E[job.target] = Gone
                  \/ Titled(E, "thesis", E[job.target].title) = {job.target}
    <3>1. /\ job.target \in DOMAIN docs
          /\ docs[job.target] = Gone
             \/ Titled(docs, "thesis", docs[job.target].title) = {job.target}
      BY <2>1 DEF IInv, TargetOK
    <3>2. CASE docs[job.target] = Gone
      <4>1. job.target \in DOMAIN docs
        BY <3>1
      <4>2. Kept(docs, E) /\ DocsOK(E) /\ DOMAIN E = DOMAIN docs
        BY <1>2
      <4>3. E[job.target] = Gone
        BY <3>2, <4>1, <4>2, GoneStays
      <4> QED BY <4>1, <4>2, <4>3
    <3>3. CASE docs[job.target] # Gone
      <4>1. docs[job.target].coll = "thesis"
        BY <2>1, <3>1, <3>3, CollOfFacts DEF IInv, JobOK
      <4>2. job.target \in DOMAIN docs /\ DocsOK(docs) /\ DOMAIN E = DOMAIN docs
            /\ Titled(docs, "thesis", docs[job.target].title) = {job.target}
        BY <1>2, <3>1, <3>3
      <4>3. E[job.target] = Gone \/ Titled(E, "thesis", E[job.target].title) = {job.target}
        BY <1>10, <4>1, <4>2
      <4> QED BY <4>2, <4>3
    <3> QED BY <3>2, <3>3, <3>1, <1>2
  <2> QED BY <1>1, <1>3, <2>1 DEF IInv, TargetOK
<1>8. FixturesOK(j, E)
  <2> SUFFICES ASSUME job.script = "fixtures", NEW k \in Of(E, "thesis"),
                      E[k].title \in FixtureTitles
               PROVE  job.snap[k].title \in FixtureTitles \/ NamesFixtures(j)
    BY <1>1, <1>2 DEF IInv, FixturesOK
  <2>1. k \in DOMAIN docs /\ k \in Of(docs, "thesis")
    BY <1>2, GoneFacts DEF Of, ChangesIt, DeletesIt
  <2>2. CASE E[k].title = docs[k].title
    BY <1>3, <2>1, <2>2 DEF IInv, FixturesOK
  <2>3. CASE E[k].title # docs[k].title
    <3>1. k = i /\ E[k] # Gone
      BY <1>2, <2>1, <2>3, OfGone DEF Collections
    <3>2. d.title \in NewTitles
      BY <1>2, <2>3, <3>1 DEF ChangesIt, DeletesIt
    <3> QED BY <1>1, <1>2, <3>1, <3>2 DEF NamesFixtures
  <2> QED BY <2>2, <2>3
<1>9. SteadyOK(j, E)
  BY <1>1 DEF SteadyOK, Importers
<1> QED BY <1>5, <1>6, <1>7, <1>8, <1>9

----------------------------------------------------------------------------
(* The invariant is inductive.                                             *)
LEMMA InitIInv == Init => IInv
<1> SUFFICES ASSUME Init PROVE IInv
  OBVIOUS
<1>1. DocsOK(docs) /\ job = NoJob /\ upsets = 0 /\ held = {}
  BY ContentAssumption DEF Init
<1>2. upsets \in 0..MaxUpsets
  <2>1. MaxUpsets \in Nat
    BY ContentAssumption
  <2> QED BY <1>1, <2>1
<1> QED BY <1>1, <1>2, NoJobStep DEF IInv

LEMMA UnlessFacts ==
    ASSUME IInv, Unless(1)
    PROVE  upsets' \in 0..MaxUpsets /\ upsets' # upsets
<1>1. MaxUpsets \in Nat
  BY ContentAssumption
<1> QED BY <1>1 DEF IInv, Unless

LEMMA LookKeeps == IInv /\ Look => IInv'
<1> SUFFICES ASSUME IInv, Look PROVE IInv'
  OBVIOUS
<1>1. Writing /\ docs' = docs /\ upsets' = upsets /\ held' = held
  BY DEF Look
<1>2. /\ JobOK(job', docs) /\ RowsOK(job')
      /\ TargetOK(job', docs, held) /\ FixturesOK(job', docs) /\ SteadyOK(job', docs)
  <2>1. CASE Spared(Row)
    <3>1. job' = Onward(FALSE)
      BY <2>1 DEF Look
    <3>2. job.script \in Importers => Done(job, docs, job.at)
      BY <2>1 DEF Spared, IsInUse, Importers, Done, Row
    <3> QED BY <1>1, <3>1, <3>2, PassStep
  <2>2. CASE ~Spared(Row)
    <3>1. job' = [job EXCEPT !.target = Target(Row)]
      BY <2>2 DEF Look
    <3> QED BY <1>1, <2>2, <3>1, LookStep
  <2> QED BY <2>1, <2>2
<1> QED BY <1>1, <1>2 DEF IInv

(* A failure: the record is refused, or the database is.                   *)
LEMMA FailureKeeps ==
    ASSUME IInv, Writing, NEW f \in BOOLEAN, f \/ (job.target # Unread /\ Refused),
           job' = Failing(f), docs' = docs, held' = held
    PROVE  /\ JobOK(job', docs) /\ RowsOK(job')
           /\ TargetOK(job', docs, held) /\ FixturesOK(job', docs) /\ SteadyOK(job', docs)
<1>1. CASE job.script = "grants"
  BY <1>1, NoJobStep DEF IInv, Failing
<1>2. CASE job.script # "grants"
  <2>1. job' = Onward(f)
    BY <1>2 DEF Failing
  <2>2. ~f /\ ~job.disturbed /\ ~job.failed /\ job.script \in Importers => Done(job, docs, job.at)
    BY RefusedRow
  <2> QED BY <2>1, <2>2, PassStep
<1> QED BY <1>1, <1>2

LEMMA WriteLeaves == IInv /\ Write => IInv'
<1> SUFFICES ASSUME IInv, Write PROVE IInv'
  OBVIOUS
<1>1. Writing /\ job.target # Unread
  BY DEF Write
<1>2. CASE Refused /\ job' = Failing(FALSE) /\ UNCHANGED <<docs, upsets, held>>
  BY <1>1, <1>2, FailureKeeps DEF IInv
<1>3. CASE ~Refused /\ docs' = Result /\ held' = held \cap Linked(docs')
           /\ job' = Onward(FALSE) /\ UNCHANGED upsets
  <2>1. RemovesIt(docs') \/ MakesIt(docs') \/ WritesIt(docs')
    BY <1>1, <1>3, Writes
  <2>2. /\ DocsOK(docs') /\ JobOK(job', docs') /\ RowsOK(job')
        /\ TargetOK(job', docs', held') /\ FixturesOK(job', docs') /\ SteadyOK(job', docs')
    BY <1>1, <1>3, <2>1, WriteStep
  <2>3. held' \subseteq Linked(docs') /\ upsets' \in 0..MaxUpsets
    BY <1>3 DEF IInv
  <2> QED BY <2>2, <2>3 DEF IInv
<1>4. CASE Unless(1) /\ job' = Failing(TRUE) /\ UNCHANGED <<docs, held>>
  BY <1>1, <1>4, FailureKeeps, UnlessFacts DEF IInv
<1> QED BY <1>2, <1>3, <1>4 DEF Write

LEMMA EndKeeps ==
    ASSUME IInv, job' = NoJob, docs' = docs, held' = {}, upsets' \in 0..MaxUpsets
    PROVE  IInv'
<1>1. DocsOK(docs)
  BY DEF IInv
<1>2. /\ JobOK(NoJob, docs) /\ RowsOK(NoJob)
      /\ TargetOK(NoJob, docs, {}) /\ FixturesOK(NoJob, docs) /\ SteadyOK(NoJob, docs)
  BY <1>1, NoJobStep
<1> QED BY <1>1, <1>2 DEF IInv

LEMMA EditorKeeps == IInv /\ Editor => IInv' /\ upsets' # upsets
<1> SUFFICES ASSUME IInv, Editor PROVE IInv' /\ upsets' # upsets
  OBVIOUS
<1>1. DocsOK(docs)
  BY DEF IInv
<1>2. PICK i \in DOMAIN docs, d \in {docs'[k] : k \in DOMAIN docs} :
        Edit(i, d) /\ (ChangesIt(i, d) \/ DeletesIt(i, d))
  BY <1>1, Edits
<1>3. /\ Unless(1) /\ held' = held \cap Linked(docs') /\ docs' = [docs EXCEPT ![i] = d]
      /\ job' = IF job.script = "none" THEN job ELSE [job EXCEPT !.disturbed = TRUE]
  BY <1>2 DEF Edit
<1>4. DocsOK(docs') /\ Kept(docs, docs')
  BY <1>1, <1>2, <1>3, EditKeeps
<1>5. DOMAIN docs' = DOMAIN docs /\ docs'[i] = d
      /\ \A k \in DOMAIN docs : k # i => docs'[k] = docs[k]
  BY <1>3
<1>6. DisturbedJob(job')
  BY <1>3, DisturbedFacts
<1>7. held' \subseteq held /\ held' \subseteq Linked(docs')
  BY <1>3
<1>8. /\ JobOK(job', docs') /\ RowsOK(job')
      /\ TargetOK(job', docs', held') /\ FixturesOK(job', docs') /\ SteadyOK(job', docs')
  BY <1>2, <1>4, <1>5, <1>6, <1>7, EditStep
<1>9. upsets' \in 0..MaxUpsets /\ upsets' # upsets
  BY <1>3, UnlessFacts
<1> QED BY <1>4, <1>7, <1>8, <1>9 DEF IInv

LEMMA StepIInv == IInv /\ [Next]_vars => IInv'
<1> SUFFICES ASSUME IInv, [Next]_vars PROVE IInv'
  OBVIOUS
<1>1. ASSUME NEW s \in Scripts, Start(s) PROVE IInv'
  <2>1. /\ docs' = docs /\ upsets' = upsets /\ held' = Linked(docs) /\ DocsOK(docs)
        /\ job' = [NoJob EXCEPT !.script = s, !.rows = Rows(s), !.snap = docs]
    BY <1>1 DEF Start, IInv
  <2>2. /\ JobOK(job', docs) /\ RowsOK(job')
        /\ TargetOK(job', docs, held') /\ FixturesOK(job', docs) /\ SteadyOK(job', docs)
    BY <2>1, StartStep
  <2> QED BY <2>1, <2>2 DEF IInv
<1>2. ASSUME NEW s \in Scripts, PageReadsShort(s) PROVE IInv'
  <2>1. UNCHANGED <<docs, job, held>> /\ upsets' \in 0..MaxUpsets
    BY <1>2, UnlessFacts DEF PageReadsShort
  <2> QED BY <2>1 DEF IInv
<1>3. CASE Look
  BY <1>3, LookKeeps
<1>4. CASE Write
  BY <1>4, WriteLeaves
<1>5. CASE Finish
  BY <1>5, EndKeeps DEF Finish, IInv
<1>6. CASE ScriptDies
  BY <1>6, EndKeeps, UnlessFacts DEF ScriptDies
<1>7. CASE Editor
  BY <1>7, EditorKeeps
<1>8. CASE UNCHANGED vars
  BY <1>8 DEF vars, IInv
<1> QED BY <1>1, <1>2, <1>3, <1>4, <1>5, <1>6, <1>7, <1>8 DEF Next, Script

LEMMA Invariance == Spec => []IInv
BY InitIInv, StepIInv, PTL DEF Spec

----------------------------------------------------------------------------
(* At every moment the collections are well formed (links of documents     *)
(* lead to themes and members that are there, no two of a collection share *)
(* a slug, what is removed is wholly gone), and the running script points  *)
(* at a document or at none.                                               *)
THEOREM TypeCorrect == Spec => []ContentTypeOK
<1>1. IInv => ContentTypeOK
  BY DEF IInv, JobOK, ContentTypeOK
<1> QED BY <1>1, Invariance, PTL

(* A step that is no upset leaves the documents alone, or is a write.      *)
LEMMA StepKinds ==
    ASSUME IInv, [Next]_vars, upsets' = upsets
    PROVE  \/ docs' = docs
           \/ /\ Writing /\ job.target # Unread
              /\ RemovesIt(docs') \/ MakesIt(docs') \/ WritesIt(docs')
<1>1. ~Unless(1)
  BY UnlessFacts
<1>2. CASE Write
  <2>1. Writing /\ job.target # Unread
    BY <1>2 DEF Write
  <2>2. CASE ~Refused /\ docs' = Result
    BY <2>1, <2>2, Writes
  <2> QED BY <1>2, <2>1, <2>2 DEF Write
<1>3. ~Editor
  BY EditorKeeps
<1> QED BY <1>2, <1>3 DEF Next, Script, Start, PageReadsShort, Look, Finish, ScriptDies, vars

(* The description and the members of a project, and the themes of         *)
(* anything while they exist, are what an editor made of them, whatever    *)
(* script runs over them, unless the edit came after the script had read   *)
(* the project's empty description.                                        *)
THEOREM EditsOutliveScripts == Spec => EditorsWorkStands
<1> DEFINE Stands(i) ==
       LET was == docs[i] is == docs'[i] IN
       job'.disturbed = job.disturbed /\ upsets' = upsets /\ was # Gone /\ is # Gone =>
          /\ was.coll = "project" =>
                /\ was.members \subseteq is.members
                /\ was.desc # "" /\ was.desc = job.snap[i].desc => is.desc = was.desc
          /\ was.themes \cap Of(docs', "theme") \subseteq is.themes
<1>1. ASSUME IInv, [Next]_vars, NEW i \in DOMAIN job.snap PROVE Stands(i)
  <2> SUFFICES ASSUME upsets' = upsets, docs[i] # Gone, docs'[i] # Gone
               PROVE  /\ docs[i].coll = "project" =>
                         /\ docs[i].members \subseteq docs'[i].members
                         /\ docs[i].desc # "" /\ docs[i].desc = job.snap[i].desc =>
                               docs'[i].desc = docs[i].desc
                      /\ docs[i].themes \cap Of(docs', "theme") \subseteq docs'[i].themes
    OBVIOUS
  <2>1. DocsOK(docs) /\ i \in DOMAIN docs
    BY <1>1 DEF IInv, JobOK, Kept
  <2>2. CASE docs' = docs
    BY <2>2
  <2>3. CASE RemovesIt(docs')
    <3>1. i # job.target
      BY <2>1, <2>3, Removed DEF RemovesIt, TargetIsThere
    <3>2. /\ docs'[i].members = docs[i].members /\ docs'[i].desc = docs[i].desc
          /\ docs'[i].themes = docs[i].themes \ {job.target}
          /\ Of(docs', "theme") = Of(docs, "theme") \ {job.target}
      BY <2>1, <2>3, <3>1, Removed DEF RemovesIt, TargetIsThere, GoneFields, Collections
    <3> QED BY <3>2
  <2>4. CASE MakesIt(docs')
    <3>1. PICK e : /\ MadeFor(Row, e) /\ \A k \in Of(docs, e.coll) : docs[k].slug # e.slug
                   /\ docs' = Append(docs, e)
      BY <2>4 DEF MakesIt
    <3>2. docs'[i] = docs[i]
      BY <2>1, <3>1, Added DEF MadeFor
    <3> QED BY <3>2
  <2>5. CASE WritesIt(docs') /\ job.target # Unread
    <3>1. PICK e : /\ WrittenFor(Row, docs[job.target], e)
                   /\ docs' = [docs EXCEPT ![job.target] = e]
      BY <2>5 DEF WritesIt
    <3>2. CASE i # job.target
      BY <2>1, <3>1, <3>2
    <3>3. CASE i = job.target
      <4>1. docs'[i] = e /\ e.members = docs[i].members /\ e.themes = docs[i].themes
        BY <2>1, <3>1, <3>3 DEF WrittenFor
      <4>2. ASSUME docs[i].coll = "project", docs[i].desc # "", docs[i].desc = job.snap[i].desc
            PROVE  e.desc = docs[i].desc
        <5>1. job.script \in {"grants", "texts"}
          BY <2>5, <3>3, <4>2, CollOfFacts DEF WritesIt, TargetIsThere, Importers
        <5>2. job.script # "texts"
          BY <1>1, <2>5, <3>3, <4>2 DEF IInv, TargetOK
        <5> QED BY <3>1, <3>3, <5>1, <5>2 DEF WrittenFor
      <4> QED BY <4>1, <4>2
    <3> QED BY <3>2, <3>3
  <2> QED BY <1>1, <2>2, <2>3, <2>4, <2>5, StepKinds
<1>2. IInv /\ [Next]_vars => [\A i \in DOMAIN job.snap : Stands(i)]_vars
  <2> HIDE DEF Stands
  <2> QED BY <1>1
<1> QED BY <1>2, Invariance, PTL DEF Spec, EditorsWorkStands

(* A script removes only a theme that nothing has linked since it began,   *)
(* or the one dissertation of a fixture's title.                           *)
THEOREM RemovalsAreSafe == Spec => DeletionsAreSafe
<1> DEFINE Safe(i) ==
       upsets' = upsets /\ docs[i] # Gone /\ docs'[i] = Gone =>
          /\ \A d \in DOMAIN docs : <<d, i>> \notin held
          /\ docs[i].coll = "thesis" =>
                /\ job.snap[i].title \in FixtureTitles \/ EditorNamesFixtures
                /\ Titled(docs, "thesis", docs[i].title) = {i}
<1>1. ASSUME IInv, [Next]_vars, NEW i \in DOMAIN docs PROVE Safe(i)
  <2> SUFFICES ASSUME upsets' = upsets, docs[i] # Gone, docs'[i] = Gone
               PROVE  /\ \A d \in DOMAIN docs : <<d, i>> \notin held
                      /\ docs[i].coll = "thesis" =>
                            /\ job.snap[i].title \in FixtureTitles \/ EditorNamesFixtures
                            /\ Titled(docs, "thesis", docs[i].title) = {i}
    OBVIOUS
  <2>1. DocsOK(docs) /\ docs[i].coll \in Collections
    BY <1>1 DEF IInv, DocsOK, DocOK
  <2>2. Writing /\ job.target # Unread
        /\ (RemovesIt(docs') \/ MakesIt(docs') \/ WritesIt(docs'))
    BY <1>1, StepKinds
  <2>3. ~MakesIt(docs')
    <3> SUFFICES ASSUME MakesIt(docs') PROVE FALSE
      OBVIOUS
    <3>1. PICK e : /\ MadeFor(Row, e) /\ \A k \in Of(docs, e.coll) : docs[k].slug # e.slug
                   /\ docs' = Append(docs, e)
      BY DEF MakesIt
    <3> QED BY <2>1, <3>1, Added DEF MadeFor
  <2>4. ~WritesIt(docs')
    <3> SUFFICES ASSUME WritesIt(docs') PROVE FALSE
      OBVIOUS
    <3>1. PICK e : WrittenFor(Row, docs[job.target], e) /\ docs' = [docs EXCEPT ![job.target] = e]
      BY DEF WritesIt
    <3>2. i = job.target /\ docs'[i] = e
      BY <3>1
    <3>3. e.coll = docs[i].coll
      BY <3>1, <3>2 DEF WrittenFor
    <3> QED BY <2>1, <3>2, <3>3, GoneFacts
  <2>5. RemovesIt(docs') /\ i = job.target
    <3>1. RemovesIt(docs')
      BY <2>2, <2>3, <2>4
    <3>2. i # job.target => docs'[i].coll = docs[i].coll
      BY <2>1, <3>1, Removed DEF RemovesIt, TargetIsThere, GoneFields
    <3> QED BY <2>1, <3>1, <3>2, GoneFacts
  <2>6. docs[i].coll = CollOf[job.script] /\ TargetOK(job, docs, held) /\ held \subseteq Linked(docs)
    BY <1>1, <2>5 DEF RemovesIt, TargetIsThere, IInv
  <2>7. CASE job.script = "themes" /\ Row.id # None
    <3>1. \A link \in held : link[2] # i
      BY <2>2, <2>5, <2>6, <2>7 DEF TargetOK, Row
    <3>2. docs[i].coll = "theme"
      BY <2>6, <2>7, CollOfFacts
    <3>3. \A d : <<d, i>>[2] = i
      OBVIOUS
    <3> QED BY <3>1, <3>2, <3>3
  <2>8. CASE job.script = "fixtures"
    <3>1. docs[i].coll = "thesis"
      BY <2>6, <2>8, CollOfFacts
    <3>2. ASSUME NEW d, <<d, i>> \in held PROVE FALSE
      <4>1. <<d, i>> \in (DOMAIN docs) \X Of(docs, "theme")
        BY <2>6, <3>2 DEF Linked
      <4> QED BY <3>1, <4>1 DEF Of
    <3>3. /\ Titled(docs, "thesis", docs[i].title) = {i}
          /\ job.snap[i].title \in FixtureTitles \/ NamesFixtures(job)
      BY <2>2, <2>5, <2>6, <2>8 DEF TargetOK
    <3> QED BY <3>2, <3>3 DEF NamesFixtures, EditorNamesFixtures
  <2> QED BY <2>5, <2>7, <2>8 DEF RemovesIt, Removes
<1>2. IInv /\ [Next]_vars => [\A i \in DOMAIN docs : Safe(i)]_vars
  <2> HIDE DEF Safe
  <2> QED BY <1>1
<1> QED BY <1>2, Invariance, PTL DEF Spec, DeletionsAreSafe

(* As long as nothing fails by itself and no editor touches a document,    *)
(* every row an importer has taken has a record that shows it, or one      *)
(* whose slug another document has; no record is taken from one row for    *)
(* another; and only a slug that is taken ends a script before its page.   *)
THEOREM ImportsAreComplete == Spec => ImportIsComplete
<1> DEFINE Quiet == job.script \in {"theses", "grants", "meetings", "themes"}
                    /\ ~job.failed /\ ~job.disturbed /\ upsets' = upsets
           Taken == \A k \in DOMAIN job.rows : k < job.at =>
                       LET r == job.rows[k] IN IsRemoval(r) \/ IsShown(docs, r) \/ IsTaken(r)
           Keeps == \A r \in ToSet(job.rows) :
                       ~IsRemoval(r) /\ IsShown(docs, r) => IsShown(docs', r)
           Ends == job'.script = "none" /\ job.at <= Len(job.rows) => IsTaken(Row)
<1>1. /\ \A d, r : Shows(d, r) <=> ShownBy(job, d, r)
      /\ \A r : IsTaken(r) <=> \E i \in Of(docs, CollOf[job.script]) : TakenBy(job, docs, i, r)
  BY DEF Shows, ShownBy, IsTaken, TakenBy
<1>2. ASSUME IInv, Quiet PROVE Taken
  <2> SUFFICES ASSUME NEW k \in DOMAIN job.rows, k < job.at
               PROVE  LET r == job.rows[k] IN IsRemoval(r) \/ IsShown(docs, r) \/ IsTaken(r)
    OBVIOUS
  <2>1. Done(job, docs, k)
    BY <1>2 DEF IInv, SteadyOK, Importers
  <2> QED BY <1>1, <2>1 DEF Done, IsRemoval, IsShown
<1>3. ASSUME IInv, [Next]_vars, Quiet PROVE Keeps
  <2> SUFFICES ASSUME NEW k \in DOMAIN job.rows, ~IsRemoval(job.rows[k]),
                      IsShown(docs, job.rows[k])
               PROVE  IsShown(docs', job.rows[k])
    BY DEF ToSet
  <2>1. CASE docs' = docs
    BY <2>1
  <2>2. CASE Writing /\ job.target # Unread /\ (RemovesIt(docs') \/ MakesIt(docs') \/ WritesIt(docs'))
    <3>1. PICK i \in DOMAIN docs : ShownBy(job, docs[i], job.rows[k])
      BY <1>1 DEF IsShown
    <3>2. i \in DOMAIN docs' /\ ShownBy(job, docs'[i], job.rows[k])
      BY <1>3, <2>2, <3>1, ShownStays DEF IsRemoval, Importers
    <3> QED BY <1>1, <3>2 DEF IsShown
  <2> QED BY <1>3, <2>1, <2>2, StepKinds
<1>4. ASSUME IInv, [Next]_vars, Quiet PROVE Ends
  <2> SUFFICES ASSUME job'.script = "none", job.at <= Len(job.rows) PROVE IsTaken(Row)
    OBVIOUS
  <2>1. Write /\ Refused /\ job' = Failing(FALSE)
    <3>1. ~Unless(1) /\ ~Editor
      BY <1>3, <1>4, UnlessFacts, EditorKeeps
    <3>2. job'.script # job.script /\ job.script # "none"
      BY <1>4
    <3>3. ~Look /\ ~(job' = Onward(FALSE))
      <4>1. Onward(FALSE).script = job.script
        BY <1>4, OnwardFacts
      <4>2. [job EXCEPT !.target = Target(Row)].script = job.script
        BY <1>4 DEF IInv, JobOK, JobFields
      <4> QED BY <3>2, <4>1, <4>2 DEF Look
    <3>4. ~Finish
      BY <1>4, ListFacts DEF Finish, IInv, JobOK
    <3> QED BY <1>4, <3>1, <3>2, <3>3, <3>4
            DEF Next, Script, Start, PageReadsShort, ScriptDies, Write, vars
  <2>2. job.script = "grants"
    BY <1>4, <2>1, OnwardFacts DEF Failing
  <2> QED BY <1>1, <1>4, <2>1, <2>2, RefusedRow DEF Write, Importers
<1>5. IInv /\ [Next]_vars => [Quiet => Taken /\ Keeps /\ Ends]_vars
  <2> HIDE DEF Quiet, Taken, Keeps, Ends
  <2> QED BY <1>2, <1>3, <1>4
<1> QED BY <1>5, Invariance, PTL DEF Spec, ImportIsComplete

----------------------------------------------------------------------------
(* Who is credited.  The two matchers give the person a telling name means.*)
LEMMA OneMember ==
    ASSUME NEW S, S \subseteq DOMAIN Members, S # {}, Cardinality(S) <= 1
    PROVE  \E m \in DOMAIN Members : S = {m} /\ Newest(S) = m /\ Oldest(S) = m
<1>1. DOMAIN Members = 1..Len(Members) /\ Len(Members) \in Nat
  BY ContentAssumption, ListFacts
<1>2. IsFiniteSet(S)
  <2>1. IsFiniteSet(1..Len(Members)) /\ S \subseteq 1..Len(Members)
    BY <1>1, FS_Interval
  <2> QED BY <2>1, FS_Subset
<1>3. Cardinality(S) = 1
  BY <1>2, FS_EmptySet, FS_CardinalityType
<1>4. PICK m \in S : S = {m}
  BY <1>2, <1>3, OneElement
<1>5. Max(S) \in S
  <2>1. S \subseteq 0..Len(Members)
    BY <1>1
  <2> QED BY <1>1, <2>1, MaxIsGreatest
<1>6. Min(S) \in S
  <2>1. S \subseteq Nat
    BY <1>1
  <2> QED BY <2>1, MinIsLeast
<1> QED BY <1>4, <1>5, <1>6 DEF Newest, Oldest

LEMMA ResolvedRight ==
    ASSUME NEW p, ThesisTells(p), ResolveMember(p.name) # None, InFull(p.name) \/ Unshared(p.name)
    PROVE  Members[ResolveMember(p.name)].person = p.person
<1> DEFINE exact == {m \in DOMAIN Members : Members[m].name = p.name}
           m == ResolveMember(p.name)
<1>1. CASE exact # {}
  <2>1. DOMAIN Members \subseteq Nat
    <3>1. DOMAIN Members = 1..Len(Members) /\ Len(Members) \in Nat
      BY ContentAssumption, ListFacts
    <3> QED BY <3>1
  <2>2. m = Min(exact)
    BY <1>1 DEF ResolveMember, Oldest
  <2>3. Min(exact) \in exact
    <3>1. exact \subseteq Nat
      BY <2>1
    <3> HIDE DEF exact
    <3> QED BY <1>1, <3>1, MinIsLeast
  <2>4. m \in DOMAIN Members /\ Members[m].name = p.name
    BY <2>2, <2>3
  <2> QED BY <2>4 DEF ThesisTells
<1>2. CASE exact = {}
  <2>1. m = Newest(Resembling(p.name)) /\ Unshared(p.name)
    BY <1>2 DEF ResolveMember, InFull
  <2>2. Resembling(p.name) # {}
    BY <2>1 DEF Newest
  <2>3. PICK x \in DOMAIN Members : Resembling(p.name) = {x} /\ Newest(Resembling(p.name)) = x
    BY <2>1, <2>2, OneMember DEF Resembling, Unshared
  <2> QED BY <2>1, <2>3 DEF ThesisTells
<1> QED BY <1>1, <1>2

LEMMA MatchedRight ==
    ASSUME NEW p, GrantTells(p), MatchInvestigator(p.name) # None
    PROVE  Members[MatchInvestigator(p.name)].person = p.person
<1>1. ASSUME NEW n, Cardinality(Claimants(n)) = 1
      PROVE  \E m \in DOMAIN Members : Claimants(n) = {m} /\ Oldest(Claimants(n)) = m
  <2>1. Claimants(n) \subseteq DOMAIN Members /\ Claimants(n) # {}
    BY <1>1, FS_EmptySet DEF Claimants
  <2> QED BY <1>1, <2>1, OneMember
<1>2. PICK n \in {p.name, FirstLast(p.name)} :
        Cardinality(Claimants(n)) = 1 /\ MatchInvestigator(p.name) = Oldest(Claimants(n))
  BY DEF MatchInvestigator
<1> QED BY <1>1, <1>2 DEF GrantTells

(* A document has the people it had, or a credit for each name of a row.   *)
SamePeople(d, e) == e.people = d.people /\ (e.coll = "project" => d.coll = "project")

LEMMA PeopleStay ==
    ASSUME NEW d, NEW e, RightPeople(d), SamePeople(d, e)
    PROVE  RightPeople(e)
BY DEF RightPeople, SamePeople

LEMMA NobodyIsRight ==
    ASSUME NEW d, d.people = <<>>
    PROVE  RightPeople(d)
BY DEF RightPeople

LEMMA ThesisPeople ==
    ASSUME NEW r, NEW d, DOMAIN d = GoneFields, d.coll = "thesis",
           \A n \in DOMAIN r.people : ThesisTells(r.people[n])
    PROVE  RightPeople(ThesisData(r, d))
<1> DEFINE e == ThesisData(r, d)
           people == [k \in DOMAIN r.people |->
                         Credit(r.people[k], ResolveMember(r.people[k].name))]
<1>1. e.coll = "thesis" /\ e.people = people
  <2>1. DOMAIN [d EXCEPT !.title = r.title, !.stage = r.stage] = GoneFields
        /\ [d EXCEPT !.title = r.title, !.stage = r.stage].coll = "thesis"
    BY DEF GoneFields
  <2> QED BY <2>1 DEF ThesisData, GoneFields
<1> HIDE DEF e
<1>2. ASSUME NEW k \in DOMAIN r.people, people[k].member # None,
             InFull(people[k].name) \/ Unshared(people[k].name)
      PROVE  Members[people[k].member].person = people[k].of
  <2>1. /\ people[k].name = r.people[k].name /\ people[k].of = r.people[k].person
        /\ people[k].member = ResolveMember(r.people[k].name)
    BY DEF Credit
  <2> HIDE DEF people
  <2> QED BY <1>2, <2>1, ResolvedRight
<1>3. DOMAIN people = DOMAIN r.people
  OBVIOUS
<1> HIDE DEF people
<1>4. RightPeople(e)
  BY <1>1, <1>2, <1>3 DEF RightPeople
<1> QED BY <1>4 DEF e

LEMMA GrantPeople ==
    ASSUME NEW r, GrantTells(r.lead)
    PROVE  RightPeople(NewGrant(r))
<1> DEFINE lead == MatchInvestigator(r.lead.name)
           made == [Doc("project", r.title) EXCEPT !.stage = "national"]
           mid == GrantData(r, made)
           e == NewGrant(r)
<1>1. DOMAIN made = GoneFields
  BY DEF Doc, GoneFields
<1>2. DOMAIN mid = GoneFields
  <2> HIDE DEF made
  <2> QED BY <1>1 DEF GrantData, GoneFields
<1>3. e = [mid EXCEPT !.people = <<Credit(r.lead, lead)>>, !.members = {lead} \ {None}]
  BY DEF NewGrant
<1> HIDE DEF mid
<1>4. e.people = <<Credit(r.lead, lead)>>
  <2> HIDE DEF e, lead
  <2> QED BY <1>2, <1>3 DEF GoneFields
<1>5. LET c == Credit(r.lead, lead) IN
      c.member = lead /\ c.of = r.lead.person
  BY DEF Credit
<1>6. lead # None => Members[lead].person = r.lead.person
  BY MatchedRight
<1> HIDE DEF e, lead
<1>7. RightPeople(e)
  BY <1>4, <1>5, <1>6 DEF RightPeople
<1> QED BY <1>7 DEF e

(* The rows a script works on come from its page.                          *)
PageRows(j) ==
    /\ j.script = "theses" =>
          \A k \in DOMAIN j.rows : \A n \in DOMAIN j.rows[k].people : ThesisTells(j.rows[k].people[n])
    /\ j.script = "grants" => \A k \in DOMAIN j.rows : GrantTells(j.rows[k].lead)
PeopleInv == IInv /\ PeopleAreRight /\ PageRows(job)

LEMMA DataPeople ==
    ASSUME PeopleInv, Writing, job.script \in Importers \cup {"texts"},
           NEW d, DOMAIN d = GoneFields, d.coll = CollOf[job.script], RightPeople(d)
    PROVE  DOMAIN Data(Row, d) = GoneFields /\ RightPeople(Data(Row, d))
<1>1. IInv /\ job.at \in DOMAIN job.rows /\ Row = job.rows[job.at]
  BY RowFacts DEF PeopleInv
<1>2. CASE job.script = "theses"
  <2>1. Data(Row, d) = ThesisData(Row, d) /\ d.coll = "thesis"
    BY <1>2, CollOfFacts DEF Data
  <2>2. \A n \in DOMAIN Row.people : ThesisTells(Row.people[n])
    BY <1>1, <1>2 DEF PeopleInv, PageRows
  <2>3. DOMAIN ThesisData(Row, d) = GoneFields
    BY DEF ThesisData, GoneFields
  <2> QED BY <2>1, <2>2, <2>3, ThesisPeople
<1>3. CASE job.script = "grants" /\ d.title = ""
  <2>1. Data(Row, d) = NewGrant(Row)
    BY <1>3 DEF Data
  <2>2. GrantTells(Row.lead)
    BY <1>1, <1>3 DEF PeopleInv, PageRows
  <2> QED BY <2>1, <2>2, GrantPeople, NewGrantFacts
<1>4. ASSUME NEW e, DOMAIN e = GoneFields, e.people = d.people, e.coll = d.coll, Data(Row, d) = e
      PROVE  DOMAIN Data(Row, d) = GoneFields /\ RightPeople(Data(Row, d))
  BY <1>4, PeopleStay DEF SamePeople
<1>5. CASE job.script = "grants" /\ d.title # ""
  <2>1. Data(Row, d) = GrantData(Row, d)
    BY <1>5 DEF Data
  <2>2. /\ DOMAIN GrantData(Row, d) = GoneFields /\ GrantData(Row, d).people = d.people
        /\ GrantData(Row, d).coll = d.coll
    BY DEF GrantData, GoneFields
  <2> QED BY <1>4, <2>1, <2>2
<1>6. CASE job.script = "meetings"
  <2>1. Data(Row, d) = MeetingData(Row, d)
    BY <1>6 DEF Data
  <2>2. /\ DOMAIN MeetingData(Row, d) = GoneFields /\ MeetingData(Row, d).people = d.people
        /\ MeetingData(Row, d).coll = d.coll
    BY DEF MeetingData, GoneFields
  <2> QED BY <1>4, <2>1, <2>2
<1>7. CASE job.script = "texts"
  <2>1. Data(Row, d) = Described(d)
    BY <1>7 DEF Data
  <2>2. DOMAIN Described(d) = GoneFields /\ Described(d).people = d.people /\ Described(d).coll = d.coll
    BY DEF Described, GoneFields
  <2> QED BY <1>4, <2>1, <2>2
<1>8. CASE job.script = "themes"
  <2>1. Data(Row, d) = ThemeData(Row, d)
    BY <1>8 DEF Data
  <2>2. /\ DOMAIN ThemeData(Row, d) = GoneFields /\ ThemeData(Row, d).people = d.people
        /\ ThemeData(Row, d).coll = d.coll
    BY DEF ThemeData, GoneFields
  <2> QED BY <1>4, <2>1, <2>2
<1> QED BY <1>2, <1>3, <1>5, <1>6, <1>7, <1>8 DEF Importers

LEMMA FieldsThere ==
    ASSUME DocsOK(docs), NEW i \in DOMAIN docs
    PROVE  DOMAIN docs[i] = GoneFields
BY GoneFacts DEF DocsOK, DocOK

LEMMA ResultPeople ==
    ASSUME PeopleInv, Writing, job.target # Unread, ~Refused, NEW E, E = Result
    PROVE  \A i \in DOMAIN E : RightPeople(E[i])
<1> DEFINE t == job.target
           made == [Doc(CollOf[job.script], "") EXCEPT !.slug = Row.title]
           e == [Data(Row, made) EXCEPT !.slug = Row.title]
<1>1. /\ DocsOK(docs) /\ JobOK(job, docs) /\ job.script \in Scripts
      /\ t \in {None} \cup DOMAIN docs /\ None \notin DOMAIN docs
      /\ \A i \in DOMAIN docs : RightPeople(docs[i]) /\ DOMAIN docs[i] = GoneFields
  <2>1. DocsOK(docs) /\ JobOK(job, docs)
    BY DEF PeopleInv, IInv
  <2>2. job.script \in Scripts /\ t \in {None} \cup DOMAIN docs
    BY <2>1 DEF JobOK, Writing
  <2>3. \A i \in DOMAIN docs : RightPeople(docs[i])
    BY DEF PeopleInv, PeopleAreRight
  <2> QED BY <2>1, <2>2, <2>3, FieldsThere, NoneIsNoDocument DEF DocsOK
<1>2. Gone.people = <<>>
  BY DEF Gone, Doc
<1>3. CASE Removes
  <2>1. E = [i \in DOMAIN docs |-> IF i = t THEN Gone ELSE [docs[i] EXCEPT !.themes = @ \ {t}]]
    BY <1>3 DEF Result
  <2>2. ASSUME NEW i \in DOMAIN docs
        PROVE  RightPeople([docs[i] EXCEPT !.themes = @ \ {t}])
    <3>1. SamePeople(docs[i], [docs[i] EXCEPT !.themes = @ \ {t}])
      BY <1>1 DEF SamePeople, GoneFields
    <3> QED BY <1>1, <3>1, PeopleStay
  <2> QED BY <1>2, <2>1, <2>2, NobodyIsRight
<1>4. CASE ~Removes /\ t = None
  <2>1. E = Append(docs, e)
    BY <1>4 DEF Result
  <2>2. job.script \in Importers
    <3>1. RemovesIt(E) \/ MakesIt(E) \/ WritesIt(E)
      BY Writes DEF PeopleInv
    <3> QED BY <1>1, <1>4, <3>1 DEF RemovesIt, MakesIt, WritesIt, TargetIsThere
  <2>3. DOMAIN made = GoneFields /\ made.coll = CollOf[job.script] /\ made.people = <<>>
    BY DEF Doc, GoneFields
  <2>4. RightPeople(made)
    BY <2>3, NobodyIsRight
  <2> HIDE DEF made
  <2>5. DOMAIN Data(Row, made) = GoneFields /\ RightPeople(Data(Row, made))
    BY <2>2, <2>3, <2>4, DataPeople
  <2>6. SamePeople(Data(Row, made), e)
    BY <2>5 DEF SamePeople, GoneFields
  <2>7. RightPeople(e)
    BY <2>5, <2>6, PeopleStay
  <2> HIDE DEF e
  <2>8. DOMAIN E = 1..(Len(docs) + 1) /\ E[Len(docs) + 1] = e /\ (\A i \in DOMAIN docs : E[i] = docs[i])
        /\ DOMAIN docs = 1..Len(docs) /\ Len(docs) \in Nat
    BY <1>1, <2>1, AppendedList, ListFacts DEF DocsOK
  <2> QED BY <1>1, <2>7, <2>8
<1>5. CASE ~Removes /\ t # None
  <2>1. E = [docs EXCEPT ![t] = Data(Row, docs[t])] /\ t \in DOMAIN docs
    BY <1>1, <1>5 DEF Result
  <2>2. docs[t].coll = CollOf[job.script]
    <3>1. docs[t] # Gone
      BY <1>5 DEF Refused
    <3> QED BY <1>1, <2>1, <3>1 DEF JobOK
  <2>3. job.script \in Importers \cup {"texts"}
    BY <1>1, <1>5 DEF Removes, Importers, Scripts
  <2>4. RightPeople(Data(Row, docs[t]))
    BY <1>1, <2>1, <2>2, <2>3, DataPeople
  <2> QED BY <1>1, <2>1, <2>4
<1> QED BY <1>3, <1>4, <1>5

(* An editor changes nobody's credit.                                      *)
LEMMA EditedPeople ==
    ASSUME DocsOK(docs), PeopleAreRight, Editor
    PROVE  PeopleAreRight'
<1>1. PICK i \in DOMAIN docs :
        Describe(i) \/ Retitle(i) \/ Join(i) \/ LinkTheme(i) \/ UnlinkTheme(i) \/ Delete(i)
  BY DEF Editor
<1>2. DOMAIN docs[i] = GoneFields
  BY FieldsThere
<1>3. ASSUME NEW d, Edit(i, d), RightPeople(d)
      PROVE  PeopleAreRight'
  BY <1>3 DEF Edit, PeopleAreRight
<1>4. ASSUME NEW d, Edit(i, d), d.people = docs[i].people, d.coll = docs[i].coll
      PROVE  PeopleAreRight'
  <2>1. RightPeople(d)
    BY <1>4, PeopleStay DEF SamePeople, PeopleAreRight
  <2> QED BY <1>3, <1>4, <2>1
<1>5. \A x : LET d == [docs[i] EXCEPT !.desc = x] IN d.people = docs[i].people /\ d.coll = docs[i].coll
  BY <1>2 DEF GoneFields
<1>6. \A x : LET d == [docs[i] EXCEPT !.title = x] IN d.people = docs[i].people /\ d.coll = docs[i].coll
  BY <1>2 DEF GoneFields
<1>7. \A x : LET d == [docs[i] EXCEPT !.members = x] IN d.people = docs[i].people /\ d.coll = docs[i].coll
  BY <1>2 DEF GoneFields
<1>8. \A x : LET d == [docs[i] EXCEPT !.themes = x] IN d.people = docs[i].people /\ d.coll = docs[i].coll
  BY <1>2 DEF GoneFields
<1>9. CASE Describe(i)
  BY <1>4, <1>5, <1>9 DEF Describe
<1>10. CASE Retitle(i)
  BY <1>4, <1>6, <1>10 DEF Retitle
<1>11. CASE Join(i)
  <2>1. PICK m : Edit(i, [docs[i] EXCEPT !.members = docs[i].members \cup {m}])
    BY <1>11 DEF Join
  <2> QED BY <1>4, <1>7, <2>1
<1>12. CASE LinkTheme(i)
  <2>1. PICK m : Edit(i, [docs[i] EXCEPT !.themes = docs[i].themes \cup {m}])
    BY <1>12 DEF LinkTheme
  <2> QED BY <1>4, <1>8, <2>1
<1>13. CASE UnlinkTheme(i)
  <2>1. PICK m : Edit(i, [docs[i] EXCEPT !.themes = docs[i].themes \ {m}])
    BY <1>13 DEF UnlinkTheme
  <2> QED BY <1>4, <1>8, <2>1
<1>14. CASE Delete(i)
  <2>1. Gone.people = <<>>
    BY DEF Gone, Doc
  <2> QED BY <1>3, <1>14, <2>1, NobodyIsRight DEF Delete
<1> QED BY <1>1, <1>9, <1>10, <1>11, <1>12, <1>13, <1>14

(* The page of dissertations gives its entries, the page of projects all.  *)
LEMMA PageRowsStart ==
    ASSUME PagesTell, NEW s \in Scripts, NEW j, j.script = s, j.rows = Rows(s)
    PROVE  PageRows(j)
<1>1. CASE s = "theses"
  <2> DEFINE T == {k \in DOMAIN Theses : ~Theses[k].hidden}
  <2>1. Rows(s) = Entries(Theses, T)
    BY <1>1 DEF Rows, Published
  <2>2. DOMAIN Theses = 1..Len(Theses) /\ Len(Theses) \in Nat
    BY ContentAssumption, ListFacts
  <2>3. T \subseteq 1..Len(Theses) /\ T \subseteq DOMAIN Theses
    BY <2>2
  <2> HIDE DEF T
  <2>4. Cardinality(T) \in Nat /\ Ascending(T) \in [1..Cardinality(T) -> T]
    BY <2>2, <2>3, AscendingIsThem
  <2>5. ASSUME NEW k \in DOMAIN j.rows
        PROVE  \E q \in DOMAIN Theses : j.rows[k] = Theses[q]
    BY <2>1, <2>3, <2>4 DEF Entries
  <2> QED BY <1>1, <2>5 DEF PageRows, PagesTell
<1>2. CASE s = "grants"
  BY <1>2 DEF PageRows, PagesTell, Rows
<1>3. CASE s \notin {"theses", "grants"}
  BY <1>3 DEF PageRows
<1> QED BY <1>1, <1>2, <1>3

LEMMA PeopleStep ==
    ASSUME PagesTell, PeopleInv, [Next]_vars
    PROVE  PeopleInv'
<1>1. IInv' /\ IInv /\ PageRows(job) /\ DocsOK(docs)
  <2>1. IInv'
    BY StepIInv DEF PeopleInv
  <2> QED BY <2>1 DEF PeopleInv, IInv
<1>2. SUFFICES PeopleAreRight' /\ PageRows(job')
  BY <1>1 DEF PeopleInv, PageRows
<1>3. docs' = docs => PeopleAreRight'
  BY DEF PeopleInv, PeopleAreRight
<1>4. job'.script = job.script /\ job'.rows = job.rows => PageRows(job')
  BY <1>1 DEF PageRows
<1>5. job' = NoJob => PageRows(job')
  BY DEF PageRows, NoJob
<1>6. \A f : PageRows(Onward(f))
  BY <1>1, OnwardFacts DEF PageRows
<1>7. ASSUME NEW f, job' = Failing(f) PROVE PageRows(job')
  BY <1>5, <1>6, <1>7 DEF Failing
<1>8. ASSUME NEW s \in Scripts, Start(s)
      PROVE  PeopleAreRight' /\ PageRows(job')
  <2>1. docs' = docs /\ job'.script = s /\ job'.rows = Rows(s)
    BY <1>8 DEF Start, NoJob
  <2> QED BY <1>3, <2>1, PageRowsStart
<1>9. ASSUME NEW s \in Scripts, PageReadsShort(s)
      PROVE  PeopleAreRight' /\ PageRows(job')
  BY <1>3, <1>4, <1>9 DEF PageReadsShort
<1>10. CASE Look
  <2>1. docs' = docs /\ (job' = Onward(FALSE) \/ job' = [job EXCEPT !.target = Target(Row)])
    BY <1>10 DEF Look
  <2>2. [job EXCEPT !.target = Target(Row)].script = job.script
        /\ [job EXCEPT !.target = Target(Row)].rows = job.rows
    BY <1>1 DEF IInv, JobOK, JobFields
  <2> QED BY <1>3, <1>4, <1>6, <2>1, <2>2
<1>11. CASE Write
  <2>1. Writing /\ job.target # Unread
    BY <1>11 DEF Write
  <2>2. CASE ~Refused /\ docs' = Result /\ job' = Onward(FALSE)
    <3>1. \A i \in DOMAIN docs' : RightPeople(docs'[i])
      BY <2>1, <2>2, ResultPeople
    <3> QED BY <1>6, <2>2, <3>1 DEF PeopleAreRight
  <2>3. ASSUME NEW f, docs' = docs, job' = Failing(f)
        PROVE  PeopleAreRight' /\ PageRows(job')
    BY <1>3, <1>7, <2>3
  <2> QED BY <1>11, <2>2, <2>3 DEF Write
<1>12. CASE Finish \/ ScriptDies
  BY <1>3, <1>5, <1>12 DEF Finish, ScriptDies
<1>13. CASE Editor
  <2>1. PeopleAreRight'
    BY <1>1, <1>13, EditedPeople DEF PeopleInv
  <2>2. PICK i, d : Edit(i, d)
    BY <1>1, <1>13, Edits
  <2>3. job'.script = job.script /\ job'.rows = job.rows
    BY <1>1, <2>2 DEF Edit, IInv, JobOK, JobFields
  <2> QED BY <1>4, <2>1, <2>3
<1>14. CASE UNCHANGED vars
  BY <1>3, <1>4, <1>14 DEF vars
<1> QED
  BY <1>8, <1>9, <1>10, <1>11, <1>12, <1>13, <1>14 DEF Next, Script

(* A profile an import put on a thesis or a project is the profile of the  *)
(* person the page names, if the pages tell: whatever fails, dies or is    *)
(* edited, and however often the scripts are run again.                    *)
THEOREM PeopleRight ==
    ASSUME PagesTell
    PROVE  Spec => []PeopleAreRight
<1>1. Init => PeopleInv
  <2> SUFFICES ASSUME Init PROVE PeopleInv
    OBVIOUS
  <2>1. docs = Seed /\ job = NoJob
    BY DEF Init
  <2>2. PageRows(job)
    BY <2>1 DEF PageRows, NoJob
  <2> QED BY <2>1, <2>2, InitIInv DEF PeopleInv, PeopleAreRight, PagesTell
<1>2. PeopleInv /\ [Next]_vars => PeopleInv'
  BY PeopleStep
<1>3. PeopleInv => PeopleAreRight
  BY DEF PeopleInv
<1> QED BY <1>1, <1>2, <1>3, PTL DEF Spec

=============================================================================
