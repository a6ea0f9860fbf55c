----------------------------- MODULE TriageProofs -----------------------------
(***************************************************************************)
(* What TLAPS proves of TriageLabels, for every set of findings, keys,     *)
(* analysts and dispositions and any number of assessments and deaths, and *)
(* of TriageRuns, for every set of terminals, repositories, files, alerts, *)
(* runs and corpora.                                                       *)
(***************************************************************************)
EXTENDS TriageLabels, TriageRuns, FiniteSetTheorems, SequenceTheorems, TLAPS

ItemType ==
    [finding : Findings, analyst : Analysts, disposition : Dispositions,
     material : BOOLEAN, eligible : BOOLEAN]

LabelType ==
    [actionable : BOOLEAN,
     source : {"none", "manual", "derived_review", "derived_falsify"}]

SeatType(n) == [pc : {"away", "weigh", "withhold", "label"}, row : 0 .. n]

-----------------------------------------------------------------------------
(* The last of finitely many rows *)

LEMMA LastOf ==
    ASSUME NEW n \in Nat, NEW S, S \subseteq 1 .. n, S # {}
    PROVE  Max(S) \in S /\ \A i \in S : i <= Max(S)
<1> DEFINE R == OpToRel(<, Nat)
           Bounds == {b \in Nat : \A i \in S : i <= b}
<1>1. /\ \A x, y \in Nat : x < y => <<x, y>> \in R
      /\ IsWellFoundedOn(R, Nat)
  BY NatLessThanWellFounded DEF OpToRel
<1> HIDE DEF R
<1>2. n \in Bounds /\ Bounds \subseteq Nat
  OBVIOUS
<1>3. PICK m \in Bounds : \A b \in Bounds : <<b, m>> \notin R
  <2> HIDE DEF Bounds
  <2>1. IsWellFoundedOn(R, Nat) /\ Bounds # {}
    BY <1>1, <1>2
  <2>2. QED BY <1>2, <2>1, WFMin
<1>4. m \in Nat /\ \A i \in S : i <= m
  OBVIOUS
<1>5. m \in S
  <2> SUFFICES ASSUME m \notin S PROVE FALSE
    OBVIOUS
  <2>1. PICK i \in S : TRUE
    OBVIOUS
  <2>2. i \in 1 .. n /\ i <= m
    BY <1>4
  <2>3. m - 1 \in Nat
    BY <1>4, <2>2
  <2>4. ASSUME NEW j \in S PROVE j <= m - 1
    <3>1. j \in 1 .. n /\ j <= m /\ j # m
      BY <1>4
    <3>2. QED BY <1>4, <3>1
  <2>5. m - 1 \in Bounds
    BY <2>3, <2>4
  <2>6. <<m - 1, m>> \in R
    BY <1>1, <1>4, <2>3
  <2>7. QED BY <1>3, <2>5, <2>6
<1>6. \E x \in S : \A y \in S : x >= y
  <2>1. \A y \in S : m >= y
    BY <1>4
  <2>2. QED BY <1>5, <2>1
<1>7. Max(S) \in S /\ \A y \in S : Max(S) >= y
  BY <1>6 DEF Max
<1>8. QED BY <1>7

LEMMA LastIs ==
    ASSUME NEW n \in Nat, NEW S, S \subseteq 1 .. n, NEW m \in S, \A i \in S : i <= m
    PROVE  Max(S) = m
<1> DEFINE x == Max(S)
<1>1. x \in S /\ m <= x /\ x <= m
  BY LastOf
<1> HIDE DEF x
<1>2. x \in Int /\ m \in Int
  BY <1>1
<1>3. x = m
  BY <1>1, <1>2
<1>4. QED BY <1>3 DEF x

-----------------------------------------------------------------------------
(* Rows that are appended *)

Backed(rs, i) ==
    \E j \in DOMAIN rs :
        /\ Key[rs[j].finding] = Key[rs[i].finding]
        /\ rs[j].material
        /\ rs[j].analyst # rs[i].analyst
        /\ rs[j].disposition = rs[i].disposition

(* Ruled, of any rows, decided ones, and label. *)
Due(rs, S, label) ==
    IF S = {} THEN label.source # "manual"
    ELSE LET last == Max(S) IN
         /\ ~rs[last].material => label.source = "manual"
         /\ label.source = "manual" =>
                /\ label.actionable <=> Outcome(rs[last].disposition) = "true_positive"
                /\ rs[last].material => Backed(rs, last)

LEMMA RuledIs ==
    ASSUME NEW k
    PROVE  /\ Ruled(k) <=> Due(assessments, DecidedOn(k), labels[k])
           /\ Ruled(k)' <=> Due(assessments', DecidedOn(k)', labels'[k])
<1>1. ASSUME NEW i PROVE Seconded(i) <=> Backed(assessments, i)
  BY DEF Seconded, Backed, On
<1>2. ASSUME NEW i PROVE Seconded(i)' <=> Backed(assessments', i)
  BY DEF Seconded, Backed, On
<1>3. PICK m : m = Max(DecidedOn(k)')
  OBVIOUS
<1>4. Seconded(Max(DecidedOn(k)))' <=> Backed(assessments', m)
  BY <1>3 DEF Seconded, Backed, On
<1>5. QED BY <1>1, <1>3, <1>4 DEF Ruled, Due

Grown ==
    /\ assessments \in Seq(ItemType) /\ assessments' \in Seq(ItemType)
    /\ Len(assessments) <= Len(assessments')
    /\ \A i \in 1 .. Len(assessments) : assessments'[i] = assessments[i]

LEMMA Rows ==
    ASSUME assessments \in Seq(ItemType), NEW k
    PROVE  /\ Len(assessments) \in Nat /\ DOMAIN assessments = 1 .. Len(assessments)
           /\ On(k) \subseteq DOMAIN assessments
           /\ DecidedOn(k) \subseteq On(k)
           /\ DecidedOn(k) # {} => Max(DecidedOn(k)) \in DecidedOn(k)
<1>1. Len(assessments) \in Nat /\ DOMAIN assessments = 1 .. Len(assessments)
  OBVIOUS
<1>2. On(k) \subseteq DOMAIN assessments /\ DecidedOn(k) \subseteq On(k)
  BY DEF On, DecidedOn
<1>3. DecidedOn(k) # {} => Max(DecidedOn(k)) \in DecidedOn(k)
  BY <1>1, <1>2, LastOf
<1>4. QED BY <1>1, <1>2, <1>3

LEMMA OnGrows ==
    ASSUME Grown, NEW k
    PROVE  /\ Len(assessments) \in Nat /\ Len(assessments') \in Nat
           /\ DOMAIN assessments = 1 .. Len(assessments)
           /\ DOMAIN assessments' = 1 .. Len(assessments')
           /\ \A i \in 1 .. Len(assessments) :
                /\ i \in On(k)' <=> i \in On(k)
                /\ i \in DecidedOn(k)' <=> i \in DecidedOn(k)
           /\ \A i \in 1 .. Len(assessments) :
                Backed(assessments, i) => Backed(assessments', i)
<1> DEFINE n == Len(assessments)
           m == Len(assessments')
<1>1. /\ n \in Nat /\ m \in Nat /\ n <= m
      /\ DOMAIN assessments = 1 .. n /\ DOMAIN assessments' = 1 .. m
  BY DEF Grown
<1> HIDE DEF n, m
<1>2. 1 .. n \subseteq 1 .. m /\ \A i \in 1 .. n : assessments'[i] = assessments[i]
  BY <1>1 DEF Grown, n
<1>3. ASSUME NEW i \in 1 .. n
      PROVE  /\ i \in On(k)' <=> i \in On(k)
             /\ i \in DecidedOn(k)' <=> i \in DecidedOn(k)
  <2>1. i \in On(k)' <=> i \in On(k)
    BY <1>1, <1>2 DEF On
  <2>2. QED BY <1>2, <2>1 DEF DecidedOn, Decided, Outcome
<1>4. \A i \in 1 .. n : Backed(assessments, i) => Backed(assessments', i)
  BY <1>1, <1>2 DEF Backed
<1>5. QED BY <1>1, <1>3, <1>4 DEF n, m

(* What was settled of a finding is settled still when rows were appended that
   decide nothing on it. *)
LEMMA RuledGrows ==
    ASSUME Grown, NEW k, DecidedOn(k)' = DecidedOn(k), labels'[k] = labels[k], Ruled(k)
    PROVE  Ruled(k)'
<1>1. Due(assessments, DecidedOn(k), labels[k])
  BY RuledIs
<1>2. CASE DecidedOn(k) = {}
  BY <1>1, <1>2, RuledIs DEF Due
<1>3. CASE DecidedOn(k) # {}
  <2>1. PICK last : last = Max(DecidedOn(k))
    OBVIOUS
  <2>2. last \in 1 .. Len(assessments)
    BY <1>3, <2>1, Rows DEF Grown
  <2>3. /\ assessments'[last] = assessments[last]
        /\ Backed(assessments, last) => Backed(assessments', last)
    BY <2>2, OnGrows DEF Grown
  <2>4. Due(assessments', DecidedOn(k)', labels'[k])
    BY <1>1, <1>3, <2>1, <2>3 DEF Due
  <2>5. QED BY <2>4, RuledIs
<1>4. QED BY <1>2, <1>3

(* Nor is it unsettled by another label that is not an analyst's, in the place
   of one that was not. *)
LEMMA RuledStays ==
    ASSUME assessments' = assessments, NEW k, Ruled(k),
           \/ labels'[k] = labels[k]
           \/ labels[k].source # "manual" /\ labels'[k].source # "manual"
    PROVE  Ruled(k)'
<1>1. DecidedOn(k)' = DecidedOn(k)
  BY DEF DecidedOn, On, Decided, Outcome
<1>2. Due(assessments, DecidedOn(k), labels[k])
  BY RuledIs
<1>3. Due(assessments', DecidedOn(k)', labels'[k])
  BY <1>1, <1>2 DEF Due
<1>4. QED BY <1>3, RuledIs

(* The label that the last decided row makes. *)
LEMMA RuledByLast ==
    ASSUME assessments' \in Seq(ItemType), NEW k, NEW i \in DecidedOn(k)',
           \A j \in DecidedOn(k)' : j <= i,
           ~assessments'[i].material => labels'[k].source = "manual",
           labels'[k].source = "manual" =>
                /\ labels'[k].actionable
                        <=> Outcome(assessments'[i].disposition) = "true_positive"
                /\ assessments'[i].material => Backed(assessments', i)
    PROVE  Ruled(k)'
<1>1. DecidedOn(k)' \subseteq 1 .. Len(assessments') /\ Len(assessments') \in Nat
  BY DEF DecidedOn, On
<1>2. Max(DecidedOn(k)') = i
  BY <1>1, LastIs
<1>3. DecidedOn(k)' # {}
  OBVIOUS
<1>4. Due(assessments', DecidedOn(k)', labels'[k])
  BY <1>2, <1>3 DEF Due
<1>5. QED BY <1>4, RuledIs


-----------------------------------------------------------------------------
(* The invariant in parts *)

SeatOK(x, rs) ==
    x.pc # "away" =>
        /\ x.row \in DOMAIN rs
        /\ Decided(rs[x.row])
        /\ x.pc \in {"weigh", "withhold"} => rs[x.row].material
        /\ x.pc \in {"withhold", "label"} => rs[x.row].eligible
        /\ x.pc = "label" /\ rs[x.row].material => Backed(rs, x.row)

StagesOK(v, r, fs) ==
    /\ v \in [Findings -> Verdicts \cup {"unresolved"}]
    /\ r \in [Findings -> Decisions \cup {"none"}]
    /\ fs \subseteq Findings
LabelsOK(ls) == ls \in [Keys -> LabelType]
DeskOK(d, rs) ==
    d \in [Analysts -> SeatType(Len(rs))] /\ \A a \in Analysts : SeatOK(d[a], rs)
PassOK(ps, fs, r) ==
    /\ ps.pc \in {"none", "derive"}
    /\ DOMAIN ps.verdicts \subseteq fs
    /\ \A c \in DOMAIN ps.reviews : \A f \in Findings :
            Repo[f] = c /\ ps.reviews[c][f] # "none" => r[f] # "none"
HistoryOK(t, n) == t \subseteq Keys /\ n \in 0 .. MaxAbandoned

(* An analyst's command is at a key. *)
Sits(d, rs, a, k) == d[a].pc # "away" /\ Key[rs[d[a].row].finding] = k

Calm(d, rs, k) ==
    /\ \A a, b \in Analysts : Sits(d, rs, a, k) /\ Sits(d, rs, b, k) => a = b
    /\ \A a \in Analysts : Sits(d, rs, a, k) =>
            \A i \in DOMAIN rs : Key[rs[i].finding] = k => i <= d[a].row

Waiting(d, rs, k) == \E a \in Analysts : Sits(d, rs, a, k) /\ rs[d[a].row].eligible

Human(l, S, r, k) ==
    l.source \in {"manual", "derived_review"} =>
        S # {} \/ \E f \in Findings : Key[f] = k /\ r[f] # "none"

LEMMA SeatIs ==
    ASSUME NEW a
    PROVE  Seated(a) <=> SeatOK(desk[a], assessments)
BY DEF Seated, SeatOK, Seconded, Backed, Row, On

LEMMA SeatAgain ==
    ASSUME NEW a, SeatOK(desk'[a], assessments')
    PROVE  Seated(a)'
BY DEF Seated, SeatOK, Seconded, Backed, Row, On

LEMMA UndisturbedIs ==
    ASSUME NEW k
    PROVE  Undisturbed(k) <=>
            (k \notin torn => /\ Calm(desk, assessments, k)
                              /\ Waiting(desk, assessments, k) \/ Ruled(k))
<1>1. \A a : a \in AtDesk(k) <=> a \in Analysts /\ Sits(desk, assessments, a, k)
  BY DEF AtDesk, Row, Sits
<1>2. On(k) = {i \in DOMAIN assessments : Key[assessments[i].finding] = k}
  BY DEF On
<1>3. \A a : Row(a) = assessments[desk[a].row]
  BY DEF Row
<1>4. Calm(desk, assessments, k) <=>
        /\ \A a, b \in AtDesk(k) : a = b
        /\ \A a \in AtDesk(k) : \A i \in On(k) : i <= desk[a].row
  BY <1>1, <1>2 DEF Calm
<1>5. Waiting(desk, assessments, k) <=> \E a \in AtDesk(k) : Row(a).eligible
  BY <1>1, <1>3 DEF Waiting
<1>6. QED BY <1>4, <1>5 DEF Undisturbed

LEMMA UndisturbedAgain ==
    ASSUME NEW k,
           k \notin torn' => /\ Calm(desk', assessments', k)
                             /\ Waiting(desk', assessments', k) \/ Ruled(k)'
    PROVE  Undisturbed(k)'
<1>1. AtDesk(k)' = {a \in Analysts : Sits(desk', assessments', a, k)}
  BY DEF AtDesk, Row, Sits
<1>2. On(k)' = {i \in DOMAIN assessments' : Key[assessments'[i].finding] = k}
  BY DEF On
<1>3. Calm(desk', assessments', k) =>
        /\ \A a, b \in AtDesk(k)' : a = b
        /\ \A a \in AtDesk(k)' : \A i \in On(k)' : i <= desk'[a].row
  BY <1>1, <1>2 DEF Calm
<1>4. Waiting(desk', assessments', k) =>
        \E a \in AtDesk(k)' : assessments'[desk'[a].row].eligible
  BY <1>1 DEF Waiting
<1>5. QED BY <1>3, <1>4 DEF Undisturbed, Row

LEMMA CountedIs ==
    CountedIsHuman <=> \A k \in Keys : Human(labels[k], DecidedOn(k), review, k)
BY DEF CountedIsHuman, HumanLabels, Human

LEMMA CountedAgain ==
    ASSUME \A k \in Keys : Human(labels'[k], DecidedOn(k)', review', k)
    PROVE  CountedIsHuman'
BY DEF CountedIsHuman, HumanLabels, Human

LEMMA LabelsIs ==
    LabelsInv <=> /\ StagesOK(verdict, review, featured)
                  /\ LabelsOK(labels)
                  /\ assessments \in Seq(ItemType)
                  /\ DeskOK(desk, assessments)
                  /\ PassOK(pass, featured, review)
                  /\ HistoryOK(torn, abandoned)
                  /\ \A k \in Keys : Undisturbed(k)
                  /\ \A k \in Keys : Human(labels[k], DecidedOn(k), review, k)
BY SeatIs, CountedIs DEF LabelsInv, TypeOK, PassHonest, StagesOK, LabelsOK, DeskOK,
   PassOK, HistoryOK, LabelType, ItemType, SeatType

LEMMA LabelsAgain ==
    ASSUME StagesOK(verdict', review', featured'),
           LabelsOK(labels'),
           assessments' \in Seq(ItemType),
           DeskOK(desk', assessments'),
           PassOK(pass', featured', review'),
           HistoryOK(torn', abandoned'),
           \A k \in Keys : Undisturbed(k)',
           \A k \in Keys : Human(labels'[k], DecidedOn(k)', review', k)
    PROVE  LabelsInv'
<1>1. TypeOK' /\ PassHonest'
  BY DEF TypeOK, PassHonest, StagesOK, LabelsOK, DeskOK, PassOK, HistoryOK,
         LabelType, ItemType, SeatType
<1>2. \A a \in Analysts : Seated(a)'
  BY SeatAgain DEF DeskOK
<1>3. CountedIsHuman'
  BY CountedAgain
<1>4. QED BY <1>1, <1>2, <1>3 DEF LabelsInv

-----------------------------------------------------------------------------
(* Steps that append no row *)

(* The commands stay, and so do the labels that are analysts'. *)
LEMMA UndisturbedStays ==
    ASSUME NEW k, Undisturbed(k), assessments' = assessments, desk' = desk, torn' = torn,
           \/ labels'[k] = labels[k]
           \/ labels[k].source # "manual" /\ labels'[k].source # "manual"
    PROVE  Undisturbed(k)'
<1>1. k \notin torn => /\ Calm(desk, assessments, k)
                       /\ Waiting(desk, assessments, k) \/ Ruled(k)
  BY UndisturbedIs
<1>2. QED BY <1>1, RuledStays, UndisturbedAgain

LEMMA StagesKeep ==
    ASSUME LabelsInv, NEW f \in Findings, Falsify(f) \/ Review(f) \/ Score(f)
    PROVE  LabelsInv'
<1>0. /\ StagesOK(verdict, review, featured) /\ LabelsOK(labels)
      /\ assessments \in Seq(ItemType) /\ DeskOK(desk, assessments)
      /\ PassOK(pass, featured, review) /\ HistoryOK(torn, abandoned)
  BY LabelsIs
<1>1. UNCHANGED <<labels, assessments, desk, pass, torn, abandoned>>
  BY DEF Falsify, Review, Score
<1>2. /\ StagesOK(verdict', review', featured')
      /\ featured \subseteq featured'
      /\ \A g \in Findings : review[g] # "none" => review'[g] = review[g]
  <2>1. CASE Falsify(f)
    BY <1>0, <2>1 DEF Falsify, StagesOK
  <2>2. CASE Review(f)
    BY <1>0, <2>2 DEF Review, StagesOK
  <2>3. CASE Score(f)
    BY <1>0, <2>3 DEF Score, StagesOK
  <2>4. QED BY <2>1, <2>2, <2>3
<1>3. PassOK(pass', featured', review')
  BY <1>0, <1>1, <1>2 DEF PassOK
<1>4. \A k \in Keys : Undisturbed(k)'
  BY <1>1, LabelsIs, UndisturbedStays
<1>5. \A k \in Keys : Human(labels'[k], DecidedOn(k)', review', k)
  <2>1. \A k : DecidedOn(k)' = DecidedOn(k)
    BY <1>1 DEF DecidedOn, On, Decided, Outcome
  <2>2. \A k \in Keys : Human(labels[k], DecidedOn(k), review, k)
    BY LabelsIs
  <2>3. QED BY <1>1, <1>2, <2>1, <2>2 DEF Human
<1>6. QED BY <1>0, <1>1, <1>2, <1>3, <1>4, <1>5, LabelsAgain

LEMMA BeginPassKeeps ==
    ASSUME LabelsInv, BeginPass
    PROVE  LabelsInv'
<1>0. /\ StagesOK(verdict, review, featured) /\ LabelsOK(labels)
      /\ assessments \in Seq(ItemType) /\ DeskOK(desk, assessments)
      /\ HistoryOK(torn, abandoned)
      /\ \A k \in Keys : Human(labels[k], DecidedOn(k), review, k)
  BY LabelsIs
<1>1. /\ UNCHANGED <<verdict, review, featured, labels, assessments, desk, torn, abandoned>>
      /\ pass' = [pc |-> "derive", verdicts |-> [f \in featured |-> verdict[f]],
                  reviews |-> <<>>]
  BY DEF BeginPass
<1>2. PassOK(pass', featured', review')
  BY <1>1 DEF PassOK
<1>3. \A k \in Keys : Undisturbed(k)'
  BY <1>1, LabelsIs, UndisturbedStays
<1>4. \A k : DecidedOn(k)' = DecidedOn(k)
  BY <1>1 DEF DecidedOn, On, Decided, Outcome
<1>5. QED BY <1>0, <1>1, <1>2, <1>3, <1>4, LabelsAgain

(* What a pass makes of a verdict and a decision is never an analyst's. *)
LEMMA DerivedIs ==
    ASSUME NEW v, NEW r
    PROVE  /\ Derived(v, r) \in LabelType
           /\ Derived(v, r).source # "manual"
           /\ Derived(v, r).source = "derived_review" => r # "none"
BY DEF Derived, LabelType, None

LEMMA ReviewsHonest ==
    ASSUME LabelsInv, NEW f \in Findings
    PROVE  /\ \A c \in DOMAIN ReviewsRead(f) : \A g \in Findings :
                Repo[g] = c /\ ReviewsRead(f)[c][g] # "none" => review[g] # "none"
           /\ Repo[f] \in DOMAIN ReviewsRead(f)
<1>1. \A c \in DOMAIN pass.reviews : \A g \in Findings :
            Repo[g] = c /\ pass.reviews[c][g] # "none" => review[g] # "none"
  BY LabelsIs DEF PassOK
<1>2. CASE Repo[f] \in DOMAIN pass.reviews
  BY <1>1, <1>2 DEF ReviewsRead
<1>3. CASE Repo[f] \notin DOMAIN pass.reviews
  <2> DEFINE D == DOMAIN pass.reviews \cup {Repo[f]}
             fresh(c) == [g \in {h \in Findings : Repo[h] = c} |-> review[g]]
  <2>1. ReviewsRead(f) = [c \in D |-> IF c = Repo[f] THEN fresh(c) ELSE pass.reviews[c]]
    BY <1>3 DEF ReviewsRead
  <2>2. DOMAIN ReviewsRead(f) = D
    BY <2>1
  <2>3. ASSUME NEW c \in D, NEW g \in Findings, Repo[g] = c, ReviewsRead(f)[c][g] # "none"
        PROVE  review[g] # "none"
    <3>1. CASE c = Repo[f]
      BY <2>1, <2>3, <3>1
    <3>2. CASE c # Repo[f]
      BY <1>1, <2>1, <2>3, <3>2
    <3>3. QED BY <3>1, <3>2
  <2>4. QED BY <2>2, <2>3
<1>4. QED BY <1>2, <1>3

LEMMA DeriveKeeps ==
    ASSUME LabelsInv, DeriveNext
    PROVE  LabelsInv'
<1>0. /\ StagesOK(verdict, review, featured) /\ LabelsOK(labels)
      /\ assessments \in Seq(ItemType) /\ DeskOK(desk, assessments)
      /\ PassOK(pass, featured, review) /\ HistoryOK(torn, abandoned)
      /\ \A k \in Keys : Undisturbed(k) /\ Human(labels[k], DecidedOn(k), review, k)
  BY LabelsIs
<1>1. /\ UNCHANGED <<verdict, review, featured, assessments, desk, torn, abandoned>>
      /\ pass.pc = "derive"
  BY DEF DeriveNext
<1>2. PICK f \in DOMAIN pass.verdicts :
        LET reviews == ReviewsRead(f)
            label == Derived(pass.verdicts[f], reviews[Repo[f]][f])
            rest == DOMAIN pass.verdicts \ {f} IN
        /\ labels' = IF label = None THEN labels
                     ELSE [labels EXCEPT ![Key[f]] = GuardedLabel(Key[f], label)]
        /\ pass' = IF rest = {} THEN NoPass
                   ELSE [pc |-> "derive", verdicts |-> [g \in rest |-> pass.verdicts[g]],
                         reviews |-> reviews]
  BY DEF DeriveNext
<1> DEFINE reviews == ReviewsRead(f)
           label == Derived(pass.verdicts[f], reviews[Repo[f]][f])
           rest == DOMAIN pass.verdicts \ {f}
<1>3. f \in Findings /\ Key[f] \in Keys
  BY <1>0 DEF PassOK, StagesOK, Keys
<1>4. /\ label \in LabelType /\ label.source # "manual"
      /\ label.source = "derived_review" => review[f] # "none"
  <2>1. reviews[Repo[f]][f] # "none" => review[f] # "none"
    BY <1>3, ReviewsHonest
  <2>2. QED BY <2>1, DerivedIs
<1>5. PassOK(pass', featured', review')
  <2>1. \A c \in DOMAIN reviews : \A g \in Findings :
            Repo[g] = c /\ reviews[c][g] # "none" => review[g] # "none"
    BY <1>3, ReviewsHonest
  <2> HIDE DEF reviews
  <2>2. CASE rest = {}
    <3>1. pass' = NoPass
      BY <1>2, <2>2
    <3>2. QED BY <3>1 DEF PassOK, NoPass
  <2>3. CASE rest # {}
    <3>1. pass' = [pc |-> "derive", verdicts |-> [g \in rest |-> pass.verdicts[g]],
                   reviews |-> reviews]
      BY <1>2, <2>3 DEF reviews
    <3>2. rest \subseteq featured
      BY <1>0 DEF PassOK
    <3> HIDE DEF rest
    <3>3. QED BY <1>1, <2>1, <3>1, <3>2 DEF PassOK
  <2>4. QED BY <2>2, <2>3
<1>6. labels' = labels \/ labels' = [labels EXCEPT ![Key[f]] = GuardedLabel(Key[f], label)]
  BY <1>2
<1> HIDE DEF label
<1>7. ASSUME NEW k \in Keys
      PROVE  \/ labels'[k] = labels[k]
             \/ /\ k = Key[f] /\ labels'[k] = label
                /\ labels[k].source # "manual"
  BY <1>0, <1>6 DEF GuardedLabel, LabelsOK
<1>8. LabelsOK(labels')
  <2>1. GuardedLabel(Key[f], label) \in LabelType
    BY <1>0, <1>3, <1>4 DEF GuardedLabel, LabelsOK
  <2>2. QED BY <1>0, <1>6, <2>1 DEF LabelsOK
<1>9. \A k \in Keys : Undisturbed(k)'
  BY <1>0, <1>1, <1>4, <1>7, UndisturbedStays
<1>10. \A k : DecidedOn(k)' = DecidedOn(k)
  BY <1>1 DEF DecidedOn, On, Decided, Outcome
<1>11. ASSUME NEW k \in Keys PROVE Human(labels'[k], DecidedOn(k)', review', k)
  <2>1. CASE labels'[k] = labels[k]
    BY <1>0, <1>1, <1>10, <2>1
  <2>2. CASE k = Key[f] /\ labels'[k] = label
    BY <1>1, <1>3, <1>4, <2>2 DEF Human
  <2>3. QED BY <1>7, <2>1, <2>2
<1>12. QED BY <1>0, <1>1, <1>5, <1>8, <1>9, <1>11, LabelsAgain


-----------------------------------------------------------------------------
(* An analyst's command goes on *)

(* A step of one command at another key. *)
LEMMA UndisturbedElsewhere ==
    ASSUME NEW k, Undisturbed(k), assessments' = assessments, torn \subseteq torn',
           labels'[k] = labels[k],
           \A b \in Analysts : Sits(desk', assessments, b, k) =>
                Sits(desk, assessments, b, k) /\ desk'[b].row = desk[b].row,
           \A b \in Analysts : Sits(desk, assessments, b, k) =>
                Sits(desk', assessments, b, k) \/ k \in torn'
    PROVE  Undisturbed(k)'
<1>1. k \notin torn => /\ Calm(desk, assessments, k)
                       /\ Waiting(desk, assessments, k) \/ Ruled(k)
  BY UndisturbedIs
<1>2. ASSUME k \notin torn' PROVE Calm(desk', assessments', k)
  BY <1>1, <1>2 DEF Calm
<1>3. ASSUME k \notin torn' PROVE Waiting(desk, assessments, k) => Waiting(desk', assessments', k)
  BY <1>3 DEF Waiting
<1>4. QED BY <1>1, <1>2, <1>3, RuledStays, UndisturbedAgain

LEMMA DeskMoves ==
    ASSUME DeskOK(desk, assessments), assessments' = assessments,
           NEW a \in Analysts, NEW x \in SeatType(Len(assessments)), SeatOK(x, assessments),
           desk' = [desk EXCEPT ![a] = x]
    PROVE  DeskOK(desk', assessments')
BY DEF DeskOK

LEMMA AwaySits ==
    ASSUME assessments \in Seq(ItemType)
    PROVE  /\ Away \in SeatType(Len(assessments))
           /\ SeatOK(Away, assessments)
<1>1. Len(assessments) \in Nat
  OBVIOUS
<1>2. QED BY <1>1 DEF Away, SeatType, SeatOK

LEMMA DeskFacts ==
    ASSUME LabelsInv, NEW a \in Analysts, desk[a].pc # "away"
    PROVE  /\ desk[a] \in SeatType(Len(assessments))
           /\ SeatOK(desk[a], assessments)
           /\ desk[a].row \in DOMAIN assessments
           /\ Row(a) = assessments[desk[a].row]
           /\ Row(a) \in ItemType
           /\ Key[Row(a).finding] \in Keys
           /\ desk[a].row \in On(Key[Row(a).finding])
<1>1. assessments \in Seq(ItemType) /\ DeskOK(desk, assessments)
  BY LabelsIs
<1>2. /\ desk[a] \in SeatType(Len(assessments))
      /\ SeatOK(desk[a], assessments)
      /\ desk[a].row \in DOMAIN assessments
  BY <1>1 DEF DeskOK, SeatOK
<1>3. Row(a) = assessments[desk[a].row] /\ Row(a) \in ItemType
  BY <1>1, <1>2 DEF Row
<1>4. QED BY <1>2, <1>3 DEF ItemType, Keys, On

LEMMA WeighKeeps ==
    ASSUME LabelsInv, NEW a \in Analysts, Weigh(a)
    PROVE  LabelsInv'
<1> DEFINE k0 == Key[Row(a).finding]
<1>0. /\ StagesOK(verdict, review, featured) /\ LabelsOK(labels)
      /\ assessments \in Seq(ItemType) /\ DeskOK(desk, assessments)
      /\ PassOK(pass, featured, review) /\ HistoryOK(torn, abandoned)
      /\ \A k \in Keys : Undisturbed(k) /\ Human(labels[k], DecidedOn(k), review, k)
  BY LabelsIs
<1>1. /\ UNCHANGED <<verdict, review, featured, labels, assessments, pass, torn, abandoned>>
      /\ desk[a].pc = "weigh"
      /\ desk' = [desk EXCEPT ![a] =
                    IF ~Row(a).eligible THEN Away
                    ELSE [pc |-> IF IndependentlyConfirmed(Row(a)) THEN "label" ELSE "withhold",
                          row |-> desk[a].row]]
  BY DEF Weigh
<1>2. /\ desk[a] \in SeatType(Len(assessments)) /\ SeatOK(desk[a], assessments)
      /\ Row(a) = assessments[desk[a].row] /\ Row(a) \in ItemType
  BY <1>1, DeskFacts
<1>3. IndependentlyConfirmed(Row(a)) => Backed(assessments, desk[a].row)
  BY <1>2 DEF IndependentlyConfirmed, LatestMaterial, Backed
<1>4. \A k : DecidedOn(k)' = DecidedOn(k)
  BY <1>1 DEF DecidedOn, On, Decided, Outcome
<1>5. CASE ~Row(a).eligible
  <2>1. desk' = [desk EXCEPT ![a] = Away]
    BY <1>1, <1>5
  <2>2. DeskOK(desk', assessments')
    BY <1>0, <1>1, <2>1, AwaySits, DeskMoves
  <2>3. /\ desk'[a] = Away /\ \A b \in Analysts \ {a} : desk'[b] = desk[b]
    BY <1>0, <2>1 DEF DeskOK
  <2>4. ASSUME NEW k \in Keys PROVE Undisturbed(k)'
    <3>1. k \notin torn => /\ Calm(desk, assessments, k)
                           /\ Waiting(desk, assessments, k) \/ Ruled(k)
      BY <1>0, UndisturbedIs
    <3>2. \A b \in Analysts : Sits(desk', assessments, b, k) =>
                b # a /\ Sits(desk, assessments, b, k) /\ desk'[b] = desk[b]
      BY <2>3 DEF Sits, Away
    <3>3. Calm(desk, assessments, k) => Calm(desk', assessments', k)
      BY <1>1, <3>2 DEF Calm
    <3>4. Waiting(desk, assessments, k) => Waiting(desk', assessments', k)
      <4> SUFFICES ASSUME NEW b \in Analysts, Sits(desk, assessments, b, k),
                          assessments[desk[b].row].eligible
                   PROVE  Waiting(desk', assessments', k)
        BY DEF Waiting
      <4>1. b # a
        BY <1>2, <1>5
      <4>2. desk'[b] = desk[b]
        BY <2>3, <4>1
      <4>3. QED BY <1>1, <4>2 DEF Waiting, Sits
    <3>5. Ruled(k) => Ruled(k)'
      BY <1>1, RuledStays
    <3>6. QED BY <1>1, <3>1, <3>3, <3>4, <3>5, UndisturbedAgain
  <2>5. QED BY <1>0, <1>1, <1>4, <2>2, <2>4, LabelsAgain
<1>6. CASE Row(a).eligible
  <2>1. PICK x : x = [pc |-> IF IndependentlyConfirmed(Row(a)) THEN "label" ELSE "withhold",
                      row |-> desk[a].row]
    OBVIOUS
  <2>2. desk' = [desk EXCEPT ![a] = x]
    BY <1>1, <1>6, <2>1
  <2>3. x \in SeatType(Len(assessments)) /\ SeatOK(x, assessments)
    BY <1>1, <1>2, <1>3, <1>6, <2>1 DEF SeatType, SeatOK
  <2>4. DeskOK(desk', assessments')
    BY <1>0, <1>1, <2>2, <2>3, DeskMoves
  <2>5. /\ desk'[a].row = desk[a].row /\ desk'[a].pc # "away"
        /\ \A b \in Analysts \ {a} : desk'[b] = desk[b]
    BY <1>0, <2>1, <2>2 DEF DeskOK
  <2>6. \A k : \A b \in Analysts :
            /\ Sits(desk', assessments, b, k) <=> Sits(desk, assessments, b, k)
            /\ desk'[b].row = desk[b].row
    BY <1>1, <2>5 DEF Sits
  <2>7. \A k \in Keys : Undisturbed(k)'
    BY <1>0, <1>1, <2>6, UndisturbedElsewhere
  <2>8. QED BY <1>0, <1>1, <1>4, <2>4, <2>7, LabelsAgain
<1>7. QED BY <1>5, <1>6

(* A command that writes its label, or takes it away, and ends. *)
LEMMA LeavesSettled ==
    ASSUME LabelsInv, NEW a \in Analysts, desk[a].pc \in {"withhold", "label"},
           NEW label \in LabelType,
           labels' = [labels EXCEPT ![Key[Row(a).finding]] = label],
           desk' = [desk EXCEPT ![a] = Away],
           UNCHANGED <<verdict, review, featured, assessments, pass, torn, abandoned>>,
           ~Row(a).material => label.source = "manual",
           label.source = "manual" =>
                /\ label.actionable <=> Outcome(Row(a).disposition) = "true_positive"
                /\ Row(a).material => Backed(assessments, desk[a].row)
    PROVE  LabelsInv'
<1>k. PICK k0 : k0 = Key[Row(a).finding]
  OBVIOUS
<1>r. PICK row : row = desk[a].row
  OBVIOUS
<1>0. /\ StagesOK(verdict, review, featured) /\ LabelsOK(labels)
      /\ assessments \in Seq(ItemType) /\ DeskOK(desk, assessments)
      /\ PassOK(pass, featured, review) /\ HistoryOK(torn, abandoned)
      /\ \A k \in Keys : Undisturbed(k) /\ Human(labels[k], DecidedOn(k), review, k)
  BY LabelsIs
<1>1. /\ SeatOK(desk[a], assessments) /\ row \in DOMAIN assessments
      /\ Row(a) = assessments[row] /\ k0 \in Keys /\ row \in On(k0)
  BY <1>k, <1>r, DeskFacts
<1>2. row \in DecidedOn(k0)
  BY <1>1, <1>r DEF DecidedOn, SeatOK
<1>3. \A k : DecidedOn(k)' = DecidedOn(k) /\ On(k)' = On(k)
  BY DEF DecidedOn, On, Decided, Outcome
<1>4. LabelsOK(labels') /\ DeskOK(desk', assessments')
  BY <1>0, <1>1, <1>k, AwaySits, DeskMoves DEF LabelsOK
<1>5. /\ labels'[k0] = label /\ \A k \in Keys \ {k0} : labels'[k] = labels[k]
      /\ desk'[a] = Away /\ \A b \in Analysts \ {a} : desk'[b] = desk[b]
      /\ Sits(desk, assessments, a, k0)
  BY <1>0, <1>1, <1>k, <1>r DEF LabelsOK, DeskOK, Sits
<1>6. ASSUME NEW k \in Keys \ {k0} PROVE Undisturbed(k)'
  <2>1. \A b \in Analysts : Sits(desk', assessments, b, k) =>
            Sits(desk, assessments, b, k) /\ desk'[b].row = desk[b].row
    BY <1>5 DEF Sits, Away
  <2>2. \A b \in Analysts : Sits(desk, assessments, b, k) => Sits(desk', assessments, b, k)
    BY <1>1, <1>5, <1>r DEF Sits
  <2>3. QED BY <1>0, <1>5, <2>1, <2>2, UndisturbedElsewhere
<1>7. Undisturbed(k0)'
  <2>1. ASSUME k0 \notin torn PROVE Calm(desk, assessments, k0) /\ \A i \in On(k0) : i <= row
    <3>1. Calm(desk, assessments, k0)
      BY <1>0, <1>1, <2>1, UndisturbedIs
    <3>2. QED BY <1>5, <1>r, <3>1 DEF Calm, On
  <2>2. ASSUME k0 \notin torn PROVE Calm(desk', assessments', k0)
    <3>1. \A b \in Analysts : Sits(desk', assessments, b, k0) =>
            Sits(desk, assessments, b, k0) /\ desk'[b].row = desk[b].row
      BY <1>5 DEF Sits, Away
    <3>2. QED BY <2>1, <2>2, <3>1 DEF Calm
  <2>3. ASSUME k0 \notin torn PROVE Ruled(k0)'
    <3>1. row \in DecidedOn(k0)' /\ \A j \in DecidedOn(k0)' : j <= row
      BY <1>2, <1>3, <2>1, <2>3 DEF DecidedOn
    <3>2. /\ ~assessments'[row].material => labels'[k0].source = "manual"
          /\ labels'[k0].source = "manual" =>
                /\ labels'[k0].actionable
                        <=> Outcome(assessments'[row].disposition) = "true_positive"
                /\ assessments'[row].material => Backed(assessments', row)
      BY <1>1, <1>5, <1>r
    <3>3. QED BY <1>0, <3>1, <3>2, RuledByLast
  <2>4. QED BY <2>2, <2>3, UndisturbedAgain
<1>8. ASSUME NEW k \in Keys PROVE Human(labels'[k], DecidedOn(k)', review', k)
  <2>1. CASE k = k0
    BY <1>2, <1>3, <2>1 DEF Human
  <2>2. CASE k # k0
    BY <1>0, <1>3, <1>5, <2>2
  <2>3. QED BY <2>1, <2>2
<1>9. \A k \in Keys : Undisturbed(k)'
  BY <1>6, <1>7
<1>10. QED BY <1>0, <1>4, <1>8, <1>9, LabelsAgain

LEMMA WithholdKeeps ==
    ASSUME LabelsInv, NEW a \in Analysts, Withhold(a)
    PROVE  LabelsInv'
<1>1. /\ desk[a].pc = "withhold"
      /\ labels' = [labels EXCEPT ![Key[Row(a).finding]] = None]
      /\ desk' = [desk EXCEPT ![a] = Away]
      /\ UNCHANGED <<verdict, review, featured, assessments, pass, torn, abandoned>>
  BY DEF Withhold
<1>2. Row(a).material
  BY <1>1, DeskFacts DEF SeatOK
<1>3. None \in LabelType /\ None.source # "manual"
  BY DEF None, LabelType
<1>4. QED BY <1>1, <1>2, <1>3, LeavesSettled

LEMMA LabelKeeps ==
    ASSUME LabelsInv, NEW a \in Analysts, Label(a)
    PROVE  LabelsInv'
<1>1. PICK label : label = [actionable |-> Outcome(Row(a).disposition) = "true_positive",
                            source |-> "manual"]
  OBVIOUS
<1>2. /\ desk[a].pc = "label"
      /\ labels' = [labels EXCEPT ![Key[Row(a).finding]] = label]
      /\ desk' = [desk EXCEPT ![a] = Away]
      /\ UNCHANGED <<verdict, review, featured, assessments, pass, torn, abandoned>>
  BY <1>1 DEF Label
<1>3. /\ label \in LabelType /\ label.source = "manual"
      /\ label.actionable <=> Outcome(Row(a).disposition) = "true_positive"
  BY <1>1 DEF LabelType
<1>4. Row(a).material => Backed(assessments, desk[a].row)
  BY <1>2, DeskFacts DEF SeatOK
<1>5. QED BY <1>2, <1>3, <1>4, LeavesSettled


LEMMA AbandonKeeps ==
    ASSUME LabelsInv, Abandon
    PROVE  LabelsInv'
<1>0. /\ StagesOK(verdict, review, featured) /\ LabelsOK(labels)
      /\ assessments \in Seq(ItemType) /\ DeskOK(desk, assessments)
      /\ PassOK(pass, featured, review) /\ HistoryOK(torn, abandoned)
      /\ \A k \in Keys : Undisturbed(k) /\ Human(labels[k], DecidedOn(k), review, k)
  BY LabelsIs
<1>1. UNCHANGED <<verdict, review, featured, labels, assessments>>
  BY DEF Abandon
<1>2. abandoned' \in 0 .. MaxAbandoned
  BY <1>0, TriageAssumption DEF Abandon, HistoryOK
<1>3. \A k : DecidedOn(k)' = DecidedOn(k)
  BY <1>1 DEF DecidedOn, On, Decided, Outcome
<1>4. CASE pass' = NoPass /\ UNCHANGED <<desk, torn>>
  <2>1. PassOK(pass', featured', review')
    BY <1>4 DEF PassOK, NoPass
  <2>2. \A k \in Keys : Undisturbed(k)'
    BY <1>0, <1>1, <1>4, UndisturbedStays
  <2>3. HistoryOK(torn', abandoned')
    BY <1>0, <1>2, <1>4 DEF HistoryOK
  <2>4. QED BY <1>0, <1>1, <1>3, <1>4, <2>1, <2>2, <2>3, LabelsAgain
<1>5. ASSUME NEW a \in Analysts, desk[a].pc # "away",
             desk' = [desk EXCEPT ![a] = Away],
             torn' = torn \cup {Key[Row(a).finding]}, pass' = pass
      PROVE  LabelsInv'
  <2>k. PICK k0 : k0 = Key[Row(a).finding]
    OBVIOUS
  <2>1. k0 \in Keys /\ Row(a) = assessments[desk[a].row]
    BY <1>5, <2>k, DeskFacts
  <2>2. DeskOK(desk', assessments') /\ HistoryOK(torn', abandoned')
    BY <1>0, <1>1, <1>2, <1>5, <2>k, <2>1, AwaySits, DeskMoves DEF HistoryOK
  <2>3. desk'[a] = Away /\ \A b \in Analysts \ {a} : desk'[b] = desk[b]
    BY <1>0, <1>5 DEF DeskOK
  <2>4. ASSUME NEW k \in Keys PROVE Undisturbed(k)'
    <3>1. \A b \in Analysts : Sits(desk', assessments, b, k) =>
            Sits(desk, assessments, b, k) /\ desk'[b].row = desk[b].row
      BY <2>3 DEF Sits, Away
    <3>2. \A b \in Analysts : Sits(desk, assessments, b, k) =>
            Sits(desk', assessments, b, k) \/ k \in torn'
      BY <1>5, <2>1, <2>3 DEF Sits
    <3>3. QED BY <1>0, <1>1, <1>5, <3>1, <3>2, UndisturbedElsewhere
  <2>5. QED BY <1>0, <1>1, <1>3, <1>5, <2>2, <2>4, LabelsAgain
<1>6. QED BY <1>4, <1>5 DEF Abandon

-----------------------------------------------------------------------------
(* Rows are appended *)

LEMMA BackedDesk ==
    ASSUME Grown, NEW x, SeatOK(x, assessments)
    PROVE  SeatOK(x, assessments')
<1>1. /\ DOMAIN assessments = 1 .. Len(assessments)
      /\ DOMAIN assessments \subseteq DOMAIN assessments'
      /\ \A i \in 1 .. Len(assessments) :
            Backed(assessments, i) => Backed(assessments', i)
      /\ \A i \in 1 .. Len(assessments) : assessments'[i] = assessments[i]
  BY OnGrows DEF Grown
<1>2. CASE x.pc = "away"
  BY <1>2 DEF SeatOK
<1>3. CASE x.pc # "away"
  <2>1. x.row \in 1 .. Len(assessments) /\ assessments'[x.row] = assessments[x.row]
    BY <1>1, <1>3 DEF SeatOK
  <2>2. QED BY <1>1, <1>3, <2>1 DEF SeatOK
<1>4. QED BY <1>2, <1>3

LEMMA DeskGrows ==
    ASSUME DeskOK(desk, assessments), Grown
    PROVE  DeskOK(desk, assessments')
<1>1. SeatType(Len(assessments)) \subseteq SeatType(Len(assessments'))
  BY OnGrows DEF SeatType, Grown
<1>2. QED BY <1>1, BackedDesk DEF DeskOK

(* Of a key that no new row is about, everything stays. *)
LEMMA UndisturbedApart ==
    ASSUME LabelsInv, Grown, NEW k \in Keys, labels'[k] = labels[k], torn \subseteq torn',
           \A i \in DOMAIN assessments' :
                i \in 1 .. Len(assessments) \/ Key[assessments'[i].finding] # k,
           \A b \in Analysts :
                \/ desk'[b] = desk[b]
                \/ /\ desk[b].pc = "away"
                   /\ ~Sits(desk', assessments', b, k)
    PROVE  Undisturbed(k)' /\ DecidedOn(k)' = DecidedOn(k)
<1>0. Undisturbed(k) /\ DeskOK(desk, assessments)
  BY LabelsIs
<1>1. k \notin torn => /\ Calm(desk, assessments, k)
                       /\ Waiting(desk, assessments, k) \/ Ruled(k)
  BY <1>0, UndisturbedIs
<1>2. /\ DOMAIN assessments = 1 .. Len(assessments)
      /\ DOMAIN assessments' = 1 .. Len(assessments')
      /\ DOMAIN assessments \subseteq DOMAIN assessments'
      /\ \A i \in DOMAIN assessments : /\ assessments'[i] = assessments[i]
                                       /\ i \in DecidedOn(k)' <=> i \in DecidedOn(k)
  BY OnGrows DEF Grown
<1>3. DecidedOn(k)' = DecidedOn(k)
  <2>1. DecidedOn(k) \subseteq DOMAIN assessments
    BY DEF DecidedOn, On
  <2>2. \A i \in DecidedOn(k)' : i \in DOMAIN assessments' /\ Key[assessments'[i].finding] = k
    BY DEF DecidedOn, On
  <2>3. QED BY <1>2, <2>1, <2>2
<1>4. \A b \in Analysts : desk[b].pc # "away" =>
            /\ desk[b].row \in DOMAIN assessments
            /\ assessments'[desk[b].row] = assessments[desk[b].row]
            /\ desk'[b] = desk[b]
  BY <1>0, <1>2 DEF DeskOK, SeatOK
<1>5. \A b \in Analysts : Sits(desk', assessments', b, k) =>
            Sits(desk, assessments, b, k) /\ desk'[b] = desk[b]
  BY <1>4 DEF Sits
<1>6. \A b \in Analysts : Sits(desk, assessments, b, k) => Sits(desk', assessments', b, k)
  BY <1>4 DEF Sits
<1>7. Calm(desk, assessments, k) => Calm(desk', assessments', k)
  BY <1>2, <1>5 DEF Calm
<1>8. Waiting(desk, assessments, k) => Waiting(desk', assessments', k)
  BY <1>4, <1>6 DEF Waiting, Sits
<1>9. Ruled(k) => Ruled(k)'
  BY <1>3, RuledGrows
<1>10. QED BY <1>1, <1>3, <1>7, <1>8, <1>9, UndisturbedAgain

LEMMA AssessKeeps ==
    ASSUME LabelsInv, NEW a \in Analysts, NEW f \in Findings, Assess(a, f)
    PROVE  LabelsInv'
<1> DEFINE n == Len(assessments)
<1>0. /\ StagesOK(verdict, review, featured) /\ LabelsOK(labels)
      /\ assessments \in Seq(ItemType) /\ DeskOK(desk, assessments)
      /\ PassOK(pass, featured, review) /\ HistoryOK(torn, abandoned)
      /\ \A k \in Keys : Undisturbed(k) /\ Human(labels[k], DecidedOn(k), review, k)
  BY LabelsIs
<1>1. PICK d \in Dispositions, material \in BOOLEAN :
        LET item == [finding |-> f, analyst |-> a, disposition |-> d,
                     material |-> material, eligible |-> f \in featured] IN
        /\ assessments' = Append(assessments, item)
        /\ desk' = [desk EXCEPT ![a] =
                      CASE ~Decided(item) -> Away
                        [] Decided(item) /\ material -> [pc |-> "weigh", row |-> n + 1]
                        [] Decided(item) /\ ~material /\ f \in featured ->
                              [pc |-> "label", row |-> n + 1]
                        [] OTHER -> Away]
  BY DEF Assess
<1>2. PICK item : item = [finding |-> f, analyst |-> a, disposition |-> d,
                          material |-> material, eligible |-> f \in featured]
  OBVIOUS
<1>3. item \in ItemType /\ item.finding = f /\ (item.eligible <=> f \in featured)
  <2>1. CASE f \in featured
    <3>1. item = [finding |-> f, analyst |-> a, disposition |-> d,
                  material |-> material, eligible |-> TRUE]
      BY <1>2, <2>1
    <3>2. QED BY <2>1, <3>1 DEF ItemType
  <2>2. CASE f \notin featured
    <3>1. item = [finding |-> f, analyst |-> a, disposition |-> d,
                  material |-> material, eligible |-> FALSE]
      <4>1. (f \in featured) = FALSE
        BY <2>2
      <4>2. QED BY <1>2, <4>1, Zenon
    <3>2. QED BY <2>2, <3>1 DEF ItemType
  <2>3. QED BY <2>1, <2>2
<1>4. /\ desk[a].pc = "away"
      /\ UNCHANGED <<verdict, review, featured, labels, pass, abandoned>>
      /\ torn' = torn \cup {k \in {Key[f]} : AtDesk(k) # {}}
  BY DEF Assess
<1>5. /\ n \in Nat
      /\ assessments' = Append(assessments, item)
      /\ assessments' \in Seq(ItemType) /\ Len(assessments') = n + 1
      /\ assessments'[n + 1] = item /\ n + 1 \in DOMAIN assessments'
      /\ \A i \in 1 .. n : assessments'[i] = assessments[i]
  BY <1>0, <1>1, <1>2, <1>3
<1>6. Grown
  BY <1>0, <1>5 DEF Grown
<1>7. PICK x : /\ desk' = [desk EXCEPT ![a] = x]
               /\ \/ x = Away /\ ~(Decided(item) /\ item.eligible)
                  \/ /\ x = [pc |-> "weigh", row |-> n + 1]
                     /\ Decided(item) /\ item.material
                  \/ /\ x = [pc |-> "label", row |-> n + 1]
                     /\ Decided(item) /\ ~item.material /\ item.eligible
  <2>1. item.material = material
    BY <1>2
  <2>2. CASE ~Decided(item)
    BY <1>1, <1>2, <2>2
  <2>3. CASE Decided(item) /\ material
    BY <1>1, <1>2, <2>1, <2>3
  <2>4. CASE Decided(item) /\ ~material /\ f \in featured
    BY <1>1, <1>2, <1>3, <2>1, <2>4
  <2>5. CASE Decided(item) /\ ~material /\ f \notin featured
    BY <1>1, <1>2, <1>3, <2>5
  <2>6. QED BY <2>2, <2>3, <2>4, <2>5
<1> HIDE DEF n
<1>8. DeskOK(desk', assessments')
  <2>1. DeskOK(desk, assessments')
    BY <1>0, <1>6, DeskGrows
  <2>2. x \in SeatType(n + 1) /\ SeatOK(x, assessments')
    <3>1. CASE x = Away
      BY <1>5, <3>1 DEF Away, SeatType, SeatOK
    <3>2. CASE x # Away
      <4>1. x.row = n + 1 /\ x \in SeatType(n + 1)
        BY <1>5, <1>7, <3>2 DEF SeatType
      <4>2. QED BY <1>5, <1>7, <3>2, <4>1 DEF SeatOK
    <3>3. QED BY <3>1, <3>2
  <2>3. QED BY <1>5, <1>7, <2>1, <2>2 DEF DeskOK
<1>9. desk'[a] = x /\ \A b \in Analysts \ {a} : desk'[b] = desk[b]
  BY <1>0, <1>7 DEF DeskOK
<1>10. DOMAIN assessments' = 1 .. n + 1 /\ DOMAIN assessments = 1 .. n
  BY <1>0, <1>5 DEF n
<1>11. \A i \in DOMAIN assessments' : i \in 1 .. n \/ i = n + 1
  BY <1>5, <1>10
<1>12. ASSUME NEW k \in Keys, k # Key[f]
       PROVE  Undisturbed(k)' /\ DecidedOn(k)' = DecidedOn(k)
  <2>1. ~Sits(desk', assessments', a, k)
    <3>1. x = Away \/ x.row = n + 1
      BY <1>7
    <3>2. QED BY <1>3, <1>5, <1>9, <1>12, <3>1 DEF Sits, Away
  <2>2. \A i \in DOMAIN assessments' :
            i \in 1 .. Len(assessments) \/ Key[assessments'[i].finding] # k
    BY <1>3, <1>5, <1>11, <1>12 DEF n
  <2>3. labels'[k] = labels[k] /\ torn \subseteq torn'
    BY <1>4
  <2>4. QED BY <1>4, <1>6, <1>9, <2>1, <2>2, <2>3, UndisturbedApart
<1>k. PICK k0 : k0 = Key[f]
  OBVIOUS
<1>13. k0 \in Keys
  BY <1>k DEF Keys
<1>14. /\ DecidedOn(k0) \subseteq DecidedOn(k0)'
       /\ ~(Decided(item) /\ item.eligible) => DecidedOn(k0)' = DecidedOn(k0)
  <2>1. \A i \in 1 .. n : i \in DecidedOn(k0)' <=> i \in DecidedOn(k0)
    BY <1>6, OnGrows DEF n
  <2>2. DecidedOn(k0) \subseteq 1 .. n
    BY <1>10 DEF DecidedOn, On
  <2>3. DecidedOn(k0)' \subseteq DOMAIN assessments'
    BY DEF DecidedOn, On
  <2>4. n + 1 \in DecidedOn(k0)' => Decided(item) /\ item.eligible
    <3>1. n + 1 \in DecidedOn(k0)' => assessments'[n + 1].eligible /\ Decided(assessments'[n + 1])
      BY DEF DecidedOn, Decided, Outcome
    <3>2. QED BY <1>5, <3>1
  <2>5. QED BY <1>11, <2>1, <2>2, <2>3, <2>4
<1>15. Undisturbed(k0)'
  <2> SUFFICES ASSUME k0 \notin torn'
               PROVE  /\ Calm(desk', assessments', k0)
                      /\ Waiting(desk', assessments', k0) \/ Ruled(k0)'
    BY UndisturbedAgain
  <2>1. k0 \notin torn /\ AtDesk(k0) = {}
    BY <1>4, <1>k
  <2>2. \A b \in Analysts : ~Sits(desk, assessments, b, k0)
    BY <2>1 DEF AtDesk, Sits, Row
  <2>3. Ruled(k0)
    BY <1>0, <1>13, <2>1, <2>2, UndisturbedIs DEF Waiting
  <2>4. ASSUME NEW b \in Analysts, Sits(desk', assessments', b, k0)
        PROVE  b = a
    <3> SUFFICES ASSUME b # a PROVE FALSE
      OBVIOUS
    <3>1. desk'[b] = desk[b] /\ desk[b].pc # "away"
      BY <1>9, <2>4 DEF Sits
    <3>2. desk[b].row \in 1 .. n
      BY <1>0, <1>10, <3>1 DEF DeskOK, SeatOK
    <3>3. assessments'[desk[b].row] = assessments[desk[b].row]
      BY <1>5, <3>2
    <3>4. Sits(desk, assessments, b, k0)
      BY <2>4, <3>1, <3>3 DEF Sits
    <3>5. QED BY <2>2, <3>4
  <2>5. Calm(desk', assessments', k0)
    <3>1. ASSUME Sits(desk', assessments', a, k0)
          PROVE  \A i \in DOMAIN assessments' : i <= desk'[a].row
      <4>1. x # Away
        BY <1>9, <3>1 DEF Sits, Away
      <4>2. x.row = n + 1
        BY <1>7, <4>1
      <4>3. QED BY <1>5, <1>9, <1>11, <4>2
    <3>2. QED BY <2>4, <3>1 DEF Calm
  <2>6. CASE Decided(item) /\ item.eligible
    <3>1. x.pc # "away" /\ x.row = n + 1
      <4>1. \/ x = [pc |-> "weigh", row |-> n + 1]
            \/ x = [pc |-> "label", row |-> n + 1]
        BY <1>7, <2>6
      <4>2. QED BY <4>1
    <3>2. Waiting(desk', assessments', k0)
      BY <1>3, <1>5, <1>9, <1>k, <2>6, <3>1 DEF Waiting, Sits
    <3>3. QED BY <2>5, <3>2
  <2>7. CASE ~(Decided(item) /\ item.eligible)
    <3>1. Ruled(k0)'
      BY <1>4, <1>6, <1>14, <2>3, <2>7, RuledGrows
    <3>2. QED BY <2>5, <3>1
  <2>8. QED BY <2>6, <2>7
<1>16. ASSUME NEW k \in Keys PROVE Undisturbed(k)' /\ DecidedOn(k) \subseteq DecidedOn(k)'
  BY <1>12, <1>14, <1>15, <1>k
<1>17. \A k \in Keys : Human(labels'[k], DecidedOn(k)', review', k)
  BY <1>0, <1>4, <1>16 DEF Human
<1>18. HistoryOK(torn', abandoned')
  BY <1>0, <1>4 DEF HistoryOK, Keys
<1>19. /\ StagesOK(verdict', review', featured') /\ LabelsOK(labels')
       /\ PassOK(pass', featured', review')
  BY <1>0, <1>4
<1>20. \A k \in Keys : Undisturbed(k)'
  BY <1>16
<1>21. QED BY <1>5, <1>8, <1>17, <1>18, <1>19, <1>20, LabelsAgain


(* A whole batch: a row for each finding of it, and labels for those decided. *)
LEMMA ImportKeeps ==
    ASSUME LabelsInv, NEW a \in Analysts, NEW batch \in SUBSET Findings, Import(a, batch)
    PROVE  LabelsInv'
<1> DEFINE n == Len(assessments)
           size == Cardinality(batch)
<1>0. /\ StagesOK(verdict, review, featured) /\ LabelsOK(labels)
      /\ assessments \in Seq(ItemType) /\ DeskOK(desk, assessments)
      /\ PassOK(pass, featured, review) /\ HistoryOK(torn, abandoned)
      /\ \A k \in Keys : Undisturbed(k) /\ Human(labels[k], DecidedOn(k), review, k)
  BY LabelsIs
<1>1. PICK disposition \in [batch -> Dispositions], order \in Bijection(1 .. size, batch) :
        LET labelled == {f \in batch : Outcome(disposition[f]) # "uncertain"} IN
        /\ \A f \in labelled : labels[Key[f]] = None
        /\ \A f, g \in labelled : f # g => Key[f] # Key[g]
        /\ assessments' = assessments \o
              [i \in DOMAIN order |-> [finding |-> order[i], analyst |-> a,
                                       disposition |-> disposition[order[i]],
                                       material |-> FALSE, eligible |-> TRUE]]
        /\ labels' = [k \in Keys |->
              IF \E f \in labelled : Key[f] = k
              THEN [actionable |-> \E f \in labelled : /\ Key[f] = k
                                        /\ Outcome(disposition[f]) = "true_positive",
                    source |-> "manual"]
              ELSE labels[k]]
  BY DEF Import
<1> DEFINE labelled == {f \in batch : Outcome(disposition[f]) # "uncertain"}
           item(f) == [finding |-> f, analyst |-> a, disposition |-> disposition[f],
                       material |-> FALSE, eligible |-> TRUE]
<1>2. /\ UNCHANGED <<verdict, review, featured, desk, pass, abandoned>>
      /\ torn' = torn \cup {k \in {Key[f] : f \in batch} : AtDesk(k) # {}}
  BY DEF Import
<1>3. /\ size \in Nat /\ n \in Nat
      /\ order \in [1 .. size -> batch]
      /\ \A i, j \in 1 .. size : order[i] = order[j] => i = j
      /\ \A f \in batch : \E i \in 1 .. size : order[i] = f
  <2>1. IsFiniteSet(batch)
    BY TriageAssumption, FS_Subset
  <2>2. QED
    BY <1>0, <2>1, FS_CardinalityType DEF Bijection, Injection, Surjection, IsInjective
<1>4. \A f \in batch : /\ item(f) \in ItemType /\ item(f).finding = f
                       /\ ~item(f).material /\ item(f).eligible
                       /\ Decided(item(f)) <=> f \in labelled
  BY DEF ItemType, Decided, Outcome
<1>5. assessments' = assessments \o [i \in 1 .. size |-> item(order[i])]
  BY <1>1, <1>3
<1> HIDE DEF item, size
<1>6. /\ assessments' \in Seq(ItemType) /\ Len(assessments') = n + size
      /\ \A i \in 1 .. n : assessments'[i] = assessments[i]
      /\ \A i \in 1 .. size : assessments'[n + i] = item(order[i])
  <2>1. [i \in 1 .. size |-> item(order[i])] \in [1 .. size -> ItemType]
    BY <1>3, <1>4
  <2>2. PICK added : added = [i \in 1 .. size |-> item(order[i])]
    OBVIOUS
  <2>3. added \in Seq(ItemType) /\ Len(added) = size
    BY <1>3, <2>1, <2>2
  <2>4. \A i \in 1 .. size : added[i] = item(order[i])
    BY <2>2
  <2>5. assessments' = assessments \o added
    BY <1>5, <2>2
  <2>6. /\ assessments' \in Seq(ItemType) /\ Len(assessments') = n + size
        /\ \A i \in 1 .. n : assessments'[i] = assessments[i]
    <3>1. PICK old \in Seq(ItemType) : old = assessments
      BY <1>0
    <3>2. assessments' = old \o added /\ Len(old) = n
      BY <2>5, <3>1
    <3>3. assessments' \in Seq(ItemType)
      BY <2>3, <3>2
    <3>4. Len(assessments') = n + size
      <4>1. Len(old \o added) = Len(old) + Len(added)
        BY <2>3
      <4>2. QED BY <2>3, <3>2, <4>1
    <3>5. \A i \in 1 .. n : assessments'[i] = old[i]
      BY <2>3, <3>2
    <3>6. QED BY <3>1, <3>3, <3>4, <3>5
  <2>7. \A i \in 1 .. size : assessments'[n + i] = added[i]
    BY <1>0, <1>3, <2>3, <2>5
  <2>8. QED BY <2>4, <2>6, <2>7
<1>7. Grown
  BY <1>0, <1>3, <1>6 DEF Grown
<1> HIDE DEF n
<1>8. DOMAIN assessments' = 1 .. n + size /\ DOMAIN assessments = 1 .. n
  BY <1>0, <1>6 DEF n
<1>9. \A i \in DOMAIN assessments' : i \in 1 .. n \/ \E j \in 1 .. size : i = n + j
  <2> SUFFICES ASSUME NEW i \in 1 .. n + size, i \notin 1 .. n
               PROVE  \E j \in 1 .. size : i = n + j
    BY <1>8
  <2>1. i - n \in 1 .. size /\ i = n + (i - n)
    BY <1>3
  <2>2. QED BY <2>1
<1>10. DeskOK(desk', assessments')
  BY <1>0, <1>2, <1>7, DeskGrows
<1>11. LabelsOK(labels')
  <2>1. \A k \in Keys : labels[k] \in LabelType
    BY <1>0 DEF LabelsOK
  <2>2. \A b \in BOOLEAN : [actionable |-> b, source |-> "manual"] \in LabelType
    BY DEF LabelType
  <2>3. \A k : (\E f \in labelled : /\ Key[f] = k
                                   /\ Outcome(disposition[f]) = "true_positive") \in BOOLEAN
    OBVIOUS
  <2> HIDE DEF labelled
  <2>4. \A k : [actionable |-> \E f \in labelled : /\ Key[f] = k
                                        /\ Outcome(disposition[f]) = "true_positive",
                source |-> "manual"] \in LabelType
    BY <2>2, <2>3, Zenon
  <2>5. labels' = [k \in Keys |->
              IF \E f \in labelled : Key[f] = k
              THEN [actionable |-> \E f \in labelled : /\ Key[f] = k
                                        /\ Outcome(disposition[f]) = "true_positive",
                    source |-> "manual"]
              ELSE labels[k]]
    BY <1>1 DEF labelled
  <2>6. QED BY <2>1, <2>4, <2>5 DEF LabelsOK
<1>12. HistoryOK(torn', abandoned')
  BY <1>0, <1>2 DEF HistoryOK, Keys
<1>13. ASSUME NEW k \in Keys, ~\E f \in labelled : Key[f] = k
       PROVE  labels'[k] = labels[k] /\ DecidedOn(k)' = DecidedOn(k)
  <2>1. labels'[k] = labels[k]
    BY <1>1, <1>13
  <2>2. \A i \in 1 .. n : i \in DecidedOn(k)' <=> i \in DecidedOn(k)
    BY <1>7, OnGrows DEF n
  <2>3. DecidedOn(k) \subseteq 1 .. n /\ DecidedOn(k)' \subseteq DOMAIN assessments'
    BY <1>8 DEF DecidedOn, On
  <2>4. ASSUME NEW j \in 1 .. size, n + j \in DecidedOn(k)' PROVE FALSE
    <3>1. Decided(assessments'[n + j]) /\ Key[assessments'[n + j].finding] = k
      BY <2>4 DEF DecidedOn, On, Decided, Outcome
    <3>2. order[j] \in batch /\ assessments'[n + j] = item(order[j])
      BY <1>3, <1>6
    <3>3. QED BY <1>4, <1>13, <3>1, <3>2
  <2>5. QED BY <1>9, <2>1, <2>2, <2>3, <2>4
<1>14. ASSUME NEW f \in labelled, NEW k \in Keys, k = Key[f]
       PROVE  \E i \in DecidedOn(k)' :
                /\ \A j \in DecidedOn(k)' : j <= i
                /\ assessments'[i] = item(f)
  <2>1. PICK i \in 1 .. size : order[i] = f
    BY <1>3
  <2>2. assessments'[n + i] = item(f) /\ n + i \in DOMAIN assessments'
    BY <1>3, <1>6, <1>8, <2>1
  <2>3. n + i \in DecidedOn(k)'
    <3>1. /\ assessments'[n + i].finding = f /\ assessments'[n + i].eligible
          /\ Decided(assessments'[n + i])
      BY <1>4, <2>2
    <3>2. QED BY <1>14, <2>2, <3>1 DEF DecidedOn, On, Decided, Outcome
  <2>4. ASSUME NEW j \in DecidedOn(k)' PROVE j <= n + i
    <3>1. j \in DOMAIN assessments' /\ Decided(assessments'[j])
          /\ Key[assessments'[j].finding] = k
      BY DEF DecidedOn, On, Decided, Outcome
    <3>2. CASE j \in 1 .. n
      BY <1>3, <3>2
    <3>3. ASSUME NEW m \in 1 .. size, j = n + m PROVE m = i
      <4>1. order[m] \in batch /\ assessments'[j] = item(order[m])
        BY <1>3, <1>6, <3>3
      <4>2. order[m] \in labelled /\ Key[order[m]] = k
        BY <1>4, <3>1, <4>1
      <4>3. order[m] = f
        BY <1>1, <1>14, <4>2
      <4>4. QED BY <1>3, <2>1, <4>3
    <3>4. QED BY <1>3, <1>9, <3>1, <3>2, <3>3
  <2>5. QED BY <2>2, <2>3, <2>4
<1>15. ASSUME NEW k \in Keys, \A f \in batch : Key[f] # k
       PROVE  Undisturbed(k)'
  <2>1. labels'[k] = labels[k]
    BY <1>13, <1>15
  <2>2. \A i \in DOMAIN assessments' :
            i \in 1 .. Len(assessments) \/ Key[assessments'[i].finding] # k
    <3> SUFFICES ASSUME NEW j \in 1 .. size PROVE Key[assessments'[n + j].finding] # k
      BY <1>9 DEF n
    <3>1. order[j] \in batch /\ assessments'[n + j] = item(order[j])
      BY <1>3, <1>6
    <3>2. QED BY <1>4, <1>15, <3>1
  <2>3. torn \subseteq torn' /\ \A b \in Analysts : desk'[b] = desk[b]
    BY <1>2
  <2>4. QED BY <1>7, <2>1, <2>2, <2>3, UndisturbedApart
<1>16. ASSUME NEW k \in Keys, NEW f \in batch, Key[f] = k
       PROVE  Undisturbed(k)'
  <2> SUFFICES ASSUME k \notin torn'
               PROVE  Calm(desk', assessments', k) /\ Ruled(k)'
    BY UndisturbedAgain
  <2>1. k \notin torn /\ AtDesk(k) = {}
    BY <1>2, <1>16
  <2>2. \A b \in Analysts : ~Sits(desk, assessments, b, k)
    BY <2>1 DEF AtDesk, Sits, Row
  <2>3. Ruled(k)
    BY <1>0, <2>1, <2>2, UndisturbedIs DEF Waiting
  <2>4. \A b \in Analysts : ~Sits(desk', assessments', b, k)
    <3> SUFFICES ASSUME NEW b \in Analysts, Sits(desk, assessments', b, k) PROVE FALSE
      BY <1>2
    <3>1. desk[b].row \in 1 .. n
      BY <1>0, <1>8 DEF Sits, DeskOK, SeatOK
    <3>2. QED BY <1>6, <2>2, <3>1 DEF Sits
  <2>5. Calm(desk', assessments', k)
    BY <2>4 DEF Calm
  <2>6. CASE \E g \in labelled : Key[g] = k
    <3>1. PICK g \in labelled : Key[g] = k
      BY <2>6
    <3>2. PICK i \in DecidedOn(k)' :
            (\A j \in DecidedOn(k)' : j <= i) /\ assessments'[i] = item(g)
      BY <1>14, <3>1
    <3>3. /\ labels'[k].source = "manual"
          /\ labels'[k].actionable <=> Outcome(disposition[g]) = "true_positive"
      <4>1. \A h \in labelled : Key[h] = k => h = g
        BY <1>1, <3>1
      <4>2. PICK act \in BOOLEAN : act <=>
                \E h \in labelled : Key[h] = k /\ Outcome(disposition[h]) = "true_positive"
        OBVIOUS
      <4>3. act <=> Outcome(disposition[g]) = "true_positive"
        BY <3>1, <4>1, <4>2
      <4> HIDE DEF labelled
      <4>4. labels' = [c \in Keys |->
              IF \E h \in labelled : Key[h] = c
              THEN [actionable |-> \E h \in labelled : /\ Key[h] = c
                                        /\ Outcome(disposition[h]) = "true_positive",
                    source |-> "manual"]
              ELSE labels[c]]
        BY <1>1 DEF labelled
      <4>5. labels'[k] = [actionable |-> \E h \in labelled : /\ Key[h] = k
                                        /\ Outcome(disposition[h]) = "true_positive",
                          source |-> "manual"]
        BY <2>6, <4>4
      <4>6. \A e : labels'[k] = [actionable |-> e, source |-> "manual"] =>
                    labels'[k].source = "manual" /\ labels'[k].actionable = e
        OBVIOUS
      <4>7. /\ labels'[k].source = "manual"
            /\ labels'[k].actionable = \E h \in labelled :
                        /\ Key[h] = k
                        /\ Outcome(disposition[h]) = "true_positive"
        BY <4>5, <4>6, Zenon
      <4>8. QED BY <4>2, <4>3, <4>7, Zenon
    <3>4. assessments'[i].disposition = disposition[g] /\ ~assessments'[i].material
      BY <1>4, <3>1, <3>2 DEF item
    <3>5. Outcome(assessments'[i].disposition) = Outcome(disposition[g])
      BY <3>4
    <3>6. Ruled(k)'
      BY <1>6, <3>2, <3>3, <3>4, <3>5, RuledByLast
    <3>7. QED BY <2>5, <3>6
  <2>7. CASE ~\E g \in labelled : Key[g] = k
    BY <1>7, <1>13, <2>3, <2>5, <2>7, RuledGrows
  <2>8. QED BY <2>6, <2>7
<1>17. \A k \in Keys : Undisturbed(k)'
  BY <1>15, <1>16
<1>18. ASSUME NEW k \in Keys PROVE Human(labels'[k], DecidedOn(k)', review', k)
  <2>1. CASE \E f \in labelled : Key[f] = k
    <3>1. DecidedOn(k)' # {}
      BY <1>14, <2>1
    <3>2. QED BY <3>1 DEF Human
  <2>2. CASE ~\E f \in labelled : Key[f] = k
    BY <1>0, <1>2, <1>13, <2>2
  <2>3. QED BY <2>1, <2>2
<1>19. StagesOK(verdict', review', featured') /\ PassOK(pass', featured', review')
  BY <1>0, <1>2
<1>20. QED BY <1>6, <1>10, <1>11, <1>12, <1>17, <1>18, <1>19, LabelsAgain


-----------------------------------------------------------------------------
(* The theorems *)

LEMMA LabelsStart ==
    ASSUME Init
    PROVE  LabelsInv
<1>1. /\ StagesOK(verdict, review, featured) /\ HistoryOK(torn, abandoned)
      /\ PassOK(pass, featured, review)
  BY TriageAssumption DEF Init, StagesOK, HistoryOK, PassOK, NoPass
<1>2. LabelsOK(labels) /\ \A k \in Keys : labels[k].source = "none"
  BY DEF Init, LabelsOK, LabelType, None
<1>3. assessments = <<>> /\ assessments \in Seq(ItemType) /\ desk = [a \in Analysts |-> Away]
  BY DEF Init
<1>4. DeskOK(desk, assessments)
  BY <1>3, AwaySits DEF DeskOK
<1>5. \A k : DecidedOn(k) = {}
  BY <1>3 DEF DecidedOn, On
<1>6. ASSUME NEW k \in Keys
      PROVE  Undisturbed(k) /\ Human(labels[k], DecidedOn(k), review, k)
  <2>1. \A a \in Analysts : ~Sits(desk, assessments, a, k)
    BY <1>3 DEF Sits, Away
  <2>2. Calm(desk, assessments, k)
    BY <2>1 DEF Calm
  <2>3. Ruled(k)
    BY <1>2, <1>5 DEF Ruled
  <2>4. QED BY <1>2, <2>2, <2>3, UndisturbedIs DEF Human
<1>7. QED BY <1>1, <1>2, <1>3, <1>4, <1>6, LabelsIs

LEMMA LabelsNext ==
    ASSUME LabelsInv, [Next]_vars
    PROVE  LabelsInv'
<1>1. CASE Next
  <2>1. ASSUME NEW f \in Findings, Falsify(f) \/ Review(f) \/ Score(f) PROVE LabelsInv'
    BY <2>1, StagesKeep
  <2>2. ASSUME Derive PROVE LabelsInv'
    BY <2>2, BeginPassKeeps, DeriveKeeps DEF Derive
  <2>3. ASSUME NEW a \in Analysts, NEW f \in Findings, Assess(a, f) PROVE LabelsInv'
    BY <2>3, AssessKeeps
  <2>4. ASSUME NEW a \in Analysts, Continue(a) PROVE LabelsInv'
    BY <2>4, WeighKeeps, WithholdKeeps, LabelKeeps DEF Continue
  <2>5. ASSUME NEW a \in Analysts, NEW batch \in SUBSET Findings, Import(a, batch)
        PROVE  LabelsInv'
    BY <2>5, ImportKeeps
  <2>6. ASSUME Abandon PROVE LabelsInv'
    BY <2>6, AbandonKeeps
  <2>7. QED BY <1>1, <2>1, <2>2, <2>3, <2>4, <2>5, <2>6 DEF Next, Analyst
<1>2. CASE UNCHANGED vars
  <2>0. /\ StagesOK(verdict, review, featured) /\ LabelsOK(labels)
        /\ assessments \in Seq(ItemType) /\ DeskOK(desk, assessments)
        /\ PassOK(pass, featured, review) /\ HistoryOK(torn, abandoned)
        /\ \A k \in Keys : Undisturbed(k) /\ Human(labels[k], DecidedOn(k), review, k)
    BY LabelsIs
  <2>1. UNCHANGED <<verdict, review, featured, labels, assessments, desk, pass, torn, abandoned>>
    BY <1>2 DEF vars
  <2>2. \A k \in Keys : Undisturbed(k)'
    BY <2>0, <2>1, UndisturbedStays
  <2>3. \A k : DecidedOn(k)' = DecidedOn(k)
    BY <2>1 DEF DecidedOn, On, Decided, Outcome
  <2>4. QED BY <2>0, <2>1, <2>2, <2>3, LabelsAgain
<1>3. QED BY <1>1, <1>2

LEMMA LabelsAlways == Spec => []LabelsInv
BY LabelsStart, LabelsNext, PTL DEF Spec

(* Every variable stays in its domain. *)
THEOREM TriageTyped == Spec => []TypeOK
<1>1. LabelsInv => TypeOK
  BY DEF LabelsInv
<1>2. QED BY <1>1, LabelsAlways, PTL

(* Each label that advances the activation floor of collection_status is a
   human's: a verdict never counts, whatever pass wrote over what. *)
THEOREM CountedAreHuman == Spec => []CountedIsHuman
<1>1. LabelsInv => CountedIsHuman
  BY DEF LabelsInv
<1>2. QED BY <1>1, LabelsAlways, PTL

LEMMA SettledRuled ==
    ASSUME LabelsInv, NEW k \in Keys, Settled(k)
    PROVE  Due(assessments, DecidedOn(k), labels[k])
<1>1. Undisturbed(k)
  BY DEF LabelsInv
<1>2. Ruled(k)
  BY <1>1 DEF Undisturbed, Settled
<1>3. QED BY <1>2, RuledIs

(* The label of a finding is what its last decided assessment makes it, unless
   two commands were at it together or one died: assess_finding and
   import_triage_review_batch against the derivation pass. *)
THEOREM LastDecisionHolds == Spec => []ManualIsLastDecision
<1>1. LabelsInv => ManualIsLastDecision
  BY SettledRuled DEF ManualIsLastDecision, Due
<1>2. QED BY <1>1, LabelsAlways, PTL

(* A material position is trained on only when a second analyst took the same:
   independently_confirmed and delete_triage_label_projection. *)
THEOREM TwoForMaterial == Spec => []MaterialTakesTwo
<1>1. ASSUME LabelsInv PROVE MaterialTakesTwo
  <2> SUFFICES ASSUME NEW k \in Keys, labels[k].source = "manual", Settled(k),
                      assessments[Max(DecidedOn(k))].material
               PROVE  \E i \in On(k) :
                        /\ assessments[i].material
                        /\ assessments[i].analyst # assessments[Max(DecidedOn(k))].analyst
                        /\ assessments[i].disposition
                                = assessments[Max(DecidedOn(k))].disposition
    BY DEF MaterialTakesTwo
  <2>1. Due(assessments, DecidedOn(k), labels[k])
    BY <1>1, SettledRuled
  <2>2. PICK last : last = Max(DecidedOn(k))
    OBVIOUS
  <2>3. DecidedOn(k) # {} /\ Backed(assessments, last)
    BY <2>1, <2>2 DEF Due
  <2>4. Key[assessments[last].finding] = k
    <3>1. assessments \in Seq(ItemType)
      BY <1>1, LabelsIs
    <3>2. last \in DecidedOn(k)
      BY <2>2, <2>3, <3>1, Rows
    <3>3. QED BY <3>2 DEF DecidedOn, On
  <2>5. QED BY <2>2, <2>3, <2>4 DEF Backed, On
<1>2. QED BY <1>1, LabelsAlways, PTL

-----------------------------------------------------------------------------
(* TriageRuns *)

(* A row that is put into a table. *)
LEMMA PutField ==
    ASSUME NEW table, NEW k, NEW v
    PROVE  /\ DOMAIN Put(table, k, v) = DOMAIN table \cup {k}
           /\ Put(table, k, v)[k] = v
           /\ \A x \in DOMAIN table \ {k} : Put(table, k, v)[x] = table[x]
BY DEF Put

(* The rows that triage_repo writes for an alert. *)
LEMMA RowFields ==
    ASSUME NEW r, NEW a
    PROVE  /\ FindingOf(r, a).repo = r /\ FindingOf(r, a).place = Place(a)
           /\ RowOf(r, a).repo = r /\ RowOf(r, a).rule = a.rule
           /\ RowOf(r, a).print = Fingerprint(a)
BY DEF FindingOf, RowOf

LEMMA FiniteImage ==
    ASSUME NEW S, IsFiniteSet(S), NEW g, NEW T, T = {g[x] : x \in S}
    PROVE  IsFiniteSet(T)
<1>1. [x \in S |-> g[x]] \in Surjection(S, T)
  BY DEF Surjection
<1>2. QED BY <1>1, FS_Surjection

(* Rows are only added, so a seat that fits them fits more of them. *)
LEMMA SeatGrows ==
    ASSUME NEW d, NEW R, NEW R2, NEW F, NEW F2,
           SeatTyped(d, R, F), R \subseteq R2, F \subseteq F2
    PROVE  SeatTyped(d, R2, F2)
<1>1. CASE d \in IndexSeat(R)
  BY <1>1 DEF SeatTyped, IndexSeat
<1>2. CASE d \in WorkSeat(R, F)
  <2>1. PICK P \in SUBSET Places : d.index \in [P -> F]
    BY <1>2 DEF WorkSeat, Indexes
  <2>2. d.index \in [P -> F2]
    BY <2>1
  <2>3. d.index \in Indexes(F2)
    BY <2>2 DEF Indexes
  <2>4. d \in WorkSeat(R2, F2)
    BY <1>2, <2>3 DEF WorkSeat
  <2>5. QED BY <2>4 DEF SeatTyped
<1>3. QED BY <1>1, <1>2 DEF SeatTyped

(* Which seat a step finds. *)
LEMMA SeatAt ==
    ASSUME NEW d, NEW R, NEW F, SeatTyped(d, R, F)
    PROVE  /\ d.pc \in {"derive", "priors"} => d \in DeriveSeat
           /\ d.pc = "fitted" => FittedSeat(d)
           /\ d.pc = "index" => d \in IndexSeat(R)
           /\ d.pc \in Working => d \in WorkSeat(R, F)
           /\ d.pc # "idle" => d.repo \in Repos
<1>1. d = Idle => d.pc = "idle"
  BY DEF Idle
<1>2. d \in DeriveSeat => d.pc \in {"derive", "priors"} /\ d.repo \in Repos
  BY DEF DeriveSeat
<1>3. FittedSeat(d) => d.pc = "fitted" /\ d.repo \in Repos
  BY DEF FittedSeat
<1>4. d \in IndexSeat(R) => d.pc = "index" /\ d.repo \in Repos
  BY DEF IndexSeat
<1>5. d \in WorkSeat(R, F) => d.pc \in Working /\ d.repo \in Repos
  BY DEF WorkSeat
<1>6. QED BY <1>1, <1>2, <1>3, <1>4, <1>5 DEF SeatTyped, Working

LEMMA SeatsKept ==
    ASSUME RunsTypeOK, NEW t \in Terminals,
           DOMAIN runs \subseteq DOMAIN runs', DOMAIN findings \subseteq DOMAIN findings',
           DOMAIN shell' = DOMAIN shell,
           \A u \in Terminals \ {t} : shell'[u] = shell[u],
           SeatTyped(shell'[t], DOMAIN runs', DOMAIN findings')
    PROVE  /\ DOMAIN shell' = Terminals
           /\ \A u \in Terminals : SeatTyped(shell'[u], DOMAIN runs', DOMAIN findings')
<1>1. DOMAIN shell = Terminals
      /\ \A u \in Terminals : SeatTyped(shell[u], DOMAIN runs, DOMAIN findings)
  BY DEF RunsTypeOK
<1>2. ASSUME NEW u \in Terminals \ {t}
      PROVE  SeatTyped(shell'[u], DOMAIN runs', DOMAIN findings')
  <2>1. SeatTyped(shell[u], DOMAIN runs, DOMAIN findings)
    BY <1>1
  <2>2. SeatTyped(shell[u], DOMAIN runs', DOMAIN findings')
    BY <2>1, SeatGrows
  <2>3. QED BY <2>2
<1>3. QED BY <1>1, <1>2

(* What a finding's rows say. *)
LEMMA RowTypes ==
    ASSUME RunsTypeOK
    PROVE  /\ \A f \in DOMAIN findings :
                findings[f].repo \in Repos /\ findings[f].place \in Places
           /\ \A f \in DOMAIN features :
                /\ features[f].repo \in Repos
                /\ features[f].print \in {Fingerprint(a) : a \in Alerts}
                /\ features[f].rule \in Rules
           /\ DOMAIN findings = 1 .. Len(findings) /\ Len(findings) \in Nat
           /\ DOMAIN runs = 1 .. Len(runs) /\ Len(runs) \in Nat
<1>1. \A f \in DOMAIN findings : findings[f] \in FindingType
  BY DEF RunsTypeOK
<1>2. ASSUME NEW f \in DOMAIN findings
      PROVE  findings[f].repo \in Repos /\ findings[f].place \in Places
  <2>1. PICK r \in Repos, a \in Alerts : findings[f] = FindingOf(r, a)
    BY <1>1 DEF FindingType
  <2>2. QED BY <2>1, RowFields DEF Places
<1>3. ASSUME NEW f \in DOMAIN features
      PROVE  /\ features[f].repo \in Repos
             /\ features[f].print \in {Fingerprint(a) : a \in Alerts}
             /\ features[f].rule \in Rules
  <2>1. PICK r \in Repos, a \in Alerts : features[f] = RowOf(r, a)
    BY DEF RunsTypeOK, FeatureType
  <2>2. QED BY <2>1, RowFields DEF Rules
<1>4. QED BY <1>2, <1>3 DEF RunsTypeOK

(* list_triage_labels yields finitely many labels, of known sources. *)
LEMMA LabelsTyped ==
    ASSUME RunsTypeOK
    PROVE  /\ IsFiniteSet(Labels)
           /\ \A l \in Labels : l.source \in {"manual", "derived_falsify"}
<1> DEFINE LabelOf(k) ==
        [repo |-> k[1], rule |-> labelRows[k].rule, print |-> k[2],
         actionable |-> labelRows[k].actionable, source |-> labelRows[k].source]
      g == [k \in DOMAIN labelRows |-> LabelOf(k)]
<1>1. Labels = {g[k] : k \in DOMAIN labelRows}
  BY DEF Labels
<1>2. IsFiniteSet(DOMAIN labelRows)
  BY DEF RunsTypeOK
<1>3. IsFiniteSet(Labels)
  <2> HIDE DEF g
  <2> QED BY <1>1, <1>2, FiniteImage
<1>4. ASSUME NEW l \in Labels PROVE l.source \in {"manual", "derived_falsify"}
  <2>1. PICK k \in DOMAIN labelRows : l = LabelOf(k)
    BY DEF Labels
  <2>2. labelRows[k].source \in {"manual", "derived_falsify"}
    BY DEF RunsTypeOK, LabelRowType
  <2>3. QED BY <2>1, <2>2
<1>5. QED BY <1>3, <1>4

LEMMA ExamplesFinite ==
    ASSUME NEW L, IsFiniteSet(L)
    PROVE  IsFiniteSet(Examples(L))
<1> DEFINE idOf == [l \in L |-> Identity(l)]
           ids == {Identity(l) : l \in L}
           bestOf == [i \in ids |->
                CHOOSE l \in {k \in L : Identity(k) = i} :
                    \A m \in {k \in L : Identity(k) = i} : Priority(l.source) <= Priority(m.source)]
           rowOf == [l \in FamilyDistinct(L) |->
                [repo |-> l.repo, rule |-> l.rule, print |-> l.print,
                 actionable |-> l.actionable, human |-> l.source \in HumanSources]]
<1>1. ids = {idOf[l] : l \in L}
  OBVIOUS
<1>2. FamilyDistinct(L) = {bestOf[i] : i \in ids}
  BY DEF FamilyDistinct
<1>3. Examples(L) = {rowOf[l] : l \in FamilyDistinct(L)}
  BY DEF Examples
<1> HIDE DEF idOf, ids, bestOf, rowOf
<1>4. IsFiniteSet(ids)
  BY <1>1, FiniteImage
<1>5. IsFiniteSet(FamilyDistinct(L))
  BY <1>2, <1>4, FiniteImage
<1>6. QED BY <1>3, <1>5, FiniteImage

LEMMA CorpusFinite ==
    ASSUME RunsTypeOK
    PROVE  IsFiniteSet(Examples(Corpus))
<1>1. Corpus \in SUBSET Labels
  BY DEF Corpus
<1>2. QED BY <1>1, LabelsTyped, FS_Subset, ExamplesFinite

(* derive_labels leaves labels of the keys of findings. *)
LEMMA RelabelledTyped ==
    ASSUME RunsTypeOK
    PROVE  /\ DOMAIN Relabelled \subseteq Repos \X {Fingerprint(a) : a \in Alerts}
           /\ IsFiniteSet(DOMAIN Relabelled)
           /\ \A k \in DOMAIN Relabelled : Relabelled[k] \in LabelRowType
<1> DEFINE ruled == {f \in DOMAIN features : outcomes[f] # "unresolved"}
           KeyOf(f) == <<features[f].repo, features[f].print>>
           keys == {KeyOf(f) : f \in ruled}
<1>1. DOMAIN Relabelled = DOMAIN labelRows \cup keys
  BY DEF Relabelled
<1>2. ruled \subseteq 1 .. Len(findings) /\ Len(findings) \in Nat
  BY RowTypes DEF RunsTypeOK
<1>3. keys \subseteq Repos \X {Fingerprint(a) : a \in Alerts}
  BY RowTypes
<1>4. IsFiniteSet(keys)
  <2> DEFINE g == [f \in ruled |-> KeyOf(f)]
  <2>1. keys = {g[f] : f \in ruled}
    OBVIOUS
  <2> HIDE DEF g, keys, ruled
  <2>2. IsFiniteSet(1 .. Len(findings))
    BY <1>2, FS_Interval
  <2>3. IsFiniteSet(ruled)
    BY <1>2, <2>2, FS_Subset
  <2>4. QED BY <2>1, <2>3, FiniteImage
<1>5. ASSUME NEW k \in DOMAIN Relabelled PROVE Relabelled[k] \in LabelRowType
  <2>1. k \in DOMAIN labelRows => labelRows[k] \in LabelRowType
    BY DEF RunsTypeOK
  <2> DEFINE of == {f \in ruled : KeyOf(f) = k}
             last == Max(of)
  <2>2. CASE of # {}
    <3>1. of \subseteq 1 .. Len(findings)
      BY <1>2
    <3>2. last \in of
      <4> HIDE DEF of
      <4> QED BY <1>2, <2>2, <3>1, LastOf
    <3>3. features[last].rule \in Rules
      BY <3>2, RowTypes
    <3> DEFINE made == [rule |-> features[last].rule,
                        actionable |-> outcomes[last] = "confirmed",
                        source |-> "derived_falsify"]
    <3>4. made \in LabelRowType
      <4> HIDE DEF last
      <4> QED BY <3>3 DEF LabelRowType
    <3>5. Relabelled[k] = IF k \in DOMAIN labelRows /\ labelRows[k].source = "manual"
                          THEN labelRows[k] ELSE made
      BY <1>1, <2>2 DEF Relabelled
    <3>6. QED BY <2>1, <3>4, <3>5
  <2>3. CASE of = {}
    <3>1. k \in DOMAIN labelRows
      BY <1>1, <2>3
    <3>2. Relabelled[k] = labelRows[k]
      BY <1>1, <2>3 DEF Relabelled
    <3>3. QED BY <2>1, <3>1, <3>2
  <2>4. QED BY <2>2, <2>3
<1>6. QED
  <2> HIDE DEF keys
  <2>1. DOMAIN labelRows \subseteq Repos \X {Fingerprint(a) : a \in Alerts}
        /\ IsFiniteSet(DOMAIN labelRows)
    BY DEF RunsTypeOK
  <2>2. IsFiniteSet(DOMAIN labelRows \cup keys)
    BY <1>4, <2>1, FS_Union
  <2>3. QED BY <1>1, <1>3, <1>5, <2>1, <2>2

(* _existing_findings_index: one finding of each place of the repository. *)
LEMMA ExistingTyped ==
    ASSUME RunsTypeOK, NEW r
    PROVE  /\ Existing(r) \in Indexes(DOMAIN findings)
           /\ \A p \in DOMAIN Existing(r) :
                findings[Existing(r)[p]].repo = r /\ findings[Existing(r)[p]].place = p
           /\ \A f \in DOMAIN findings :
                findings[f].repo = r => findings[f].place \in DOMAIN Existing(r)
<1> DEFINE own == {f \in DOMAIN findings : findings[f].repo = r}
           P == {findings[f].place : f \in own}
           of(p) == {f \in own : findings[f].place = p}
<1>1. Existing(r) = [p \in P |-> Max(of(p))]
  BY DEF Existing
<1>2. ASSUME NEW p \in P PROVE Max(of(p)) \in of(p)
  <2>1. of(p) \subseteq 1 .. Len(findings) /\ Len(findings) \in Nat
    BY RowTypes
  <2>2. of(p) # {}
    OBVIOUS
  <2> HIDE DEF of
  <2>3. QED BY <2>1, <2>2, LastOf
<1>3. P \in SUBSET Places
  BY RowTypes
<1>4. \A p \in P : /\ Max(of(p)) \in DOMAIN findings
                   /\ findings[Max(of(p))].repo = r /\ findings[Max(of(p))].place = p
  BY <1>2
<1>5. \A f \in DOMAIN findings : findings[f].repo = r => findings[f].place \in P
  OBVIOUS
<1> HIDE DEF P, of
<1>6. Existing(r) \in [P -> DOMAIN findings]
  BY <1>1, <1>4
<1>7. QED BY <1>1, <1>3, <1>4, <1>5, <1>6 DEF Indexes

-----------------------------------------------------------------------------
(* The steps keep their types *)

LEMMA ShareTyped ==
    ASSUME NEW n
    PROVE  SyntheticShare(n) \in {"none", "shrinking", "all"}
<1>1. CASE n >= Cutoff
  BY <1>1 DEF SyntheticShare
<1>2. CASE ~(n >= Cutoff) /\ (n < Cutoff /\ n > 0)
  BY <1>2 DEF SyntheticShare
<1>3. CASE ~(n >= Cutoff) /\ ~(n < Cutoff /\ n > 0)
  BY <1>3 DEF SyntheticShare
<1>4. QED BY <1>1, <1>2, <1>3

LEMMA RunTyped ==
    ASSUME NEW r \in Repos, NEW corpus, IsFiniteSet(corpus), NEW split,
           split.strategy \in {"synthetic_row_random", "real_row_random", "engagement_grouped"}
    PROVE  RunOf(r, corpus, split) \in RunType /\ RunOf(r, corpus, split).repo = r
<1> DEFINE people == {x \in corpus : x.human}
<1>1. IsFiniteSet(people)
  BY FS_Subset
<1>2. Cardinality(corpus) \in Nat /\ Cardinality(people) \in Nat
  BY <1>1, FS_CardinalityType
<1>3. QED BY <1>2, ShareTyped DEF RunOf, RunType

LEMMA KnownTyped ==
    /\ DOMAIN Known = 1 .. Len(Known) /\ Len(Known) \in Nat
    /\ \A i \in DOMAIN Known :
        /\ Known[i].repo \in Repos /\ Known[i].alert \in Alerts
        /\ Known[i].alert.rule \in Rules /\ Place(Known[i].alert) \in Places
<1> DEFINE Pairs == [repo : Repos, alert : Alerts]
<1>1. Known \in Seq(Pairs)
  BY AlertsAssumption DEF Alerts
<1>2. Known \in [1 .. Len(Known) -> Pairs] /\ Len(Known) \in Nat
  <2> HIDE DEF Pairs
  <2> QED BY <1>1
<1>3. \A i \in DOMAIN Known : Known[i] \in Pairs
  <2> HIDE DEF Pairs
  <2> QED BY <1>2
<1>4. QED BY <1>2, <1>3 DEF Rules, Places

LEMMA RunsTypedAtFirst ==
    ASSUME RunsInit
    PROVE  RunsTypeOK
<1> USE KnownTyped DEF RunsInit
<1>1. findings \in Seq(FindingType) /\ DOMAIN findings = DOMAIN Known
  <2> HIDE DEF RunsInit
  <2>1. \A i \in DOMAIN Known : FindingOf(Known[i].repo, Known[i].alert) \in FindingType
    BY DEF FindingType
  <2>2. findings = [i \in DOMAIN Known |-> FindingOf(Known[i].repo, Known[i].alert)]
    BY DEF RunsInit
  <2>3. findings \in [1 .. Len(Known) -> FindingType]
    BY <2>1, <2>2
  <2>4. QED BY <2>2, <2>3
<1>2. /\ outcomes \in Seq({"unresolved", "confirmed", "killed"})
      /\ Len(outcomes) = Len(findings)
  OBVIOUS
<1>3. \A f \in DOMAIN features : features[f] \in FeatureType
  <2> HIDE DEF RunsInit
  <2>1. features = [i \in DOMAIN Known |-> RowOf(Known[i].repo, Known[i].alert)]
    BY DEF RunsInit
  <2>2. QED BY <2>1 DEF FeatureType
<1>4. runs \in Seq(RunType) /\ DOMAIN runs = DOMAIN Known
  <2>1. IsFiniteSet({})
    BY FS_EmptySet
  <2> DEFINE split == [strategy |-> "synthetic_row_random"]
  <2>2. split.strategy \in {"synthetic_row_random", "real_row_random", "engagement_grouped"}
    OBVIOUS
  <2>3. \A i \in DOMAIN Known : RunOf(Known[i].repo, {}, split) \in RunType
    <3> HIDE DEF split
    <3> QED BY <2>1, <2>2, RunTyped
  <2> DEFINE row == [i \in DOMAIN Known |-> RunOf(Known[i].repo, {}, split)]
  <2>4. runs = row
    OBVIOUS
  <2> HIDE DEF split
  <2>5. row \in [1 .. Len(Known) -> RunType]
    BY <2>3
  <2>6. QED BY <2>4, <2>5
<1>5. \A f \in DOMAIN results : results[f] \in ResultType
  BY <1>4 DEF ResultType
<1> DEFINE keyOf == [i \in DOMAIN Known |-> <<Known[i].repo, Fingerprint(Known[i].alert)>>]
<1>6. DOMAIN labelRows = {keyOf[i] : i \in DOMAIN Known}
  OBVIOUS
<1>7. IsFiniteSet(DOMAIN labelRows)
  <2> HIDE DEF keyOf, RunsInit
  <2>1. IsFiniteSet(DOMAIN Known)
    BY FS_Interval
  <2>2. QED BY <1>6, <2>1, FiniteImage
<1>8. DOMAIN labelRows \subseteq Repos \X {Fingerprint(a) : a \in Alerts}
  OBVIOUS
<1>9. \A k \in DOMAIN labelRows : labelRows[k] \in LabelRowType
  BY DEF LabelRowType, Fingerprint
<1>10. scores \subseteq [finding : DOMAIN features, run : DOMAIN runs, alert : Alerts]
  BY <1>4
<1>11. \A t \in Terminals : SeatTyped(shell[t], DOMAIN runs, DOMAIN findings)
  BY DEF SeatTyped
<1>12. /\ DOMAIN results = DOMAIN Known /\ DOMAIN features = DOMAIN Known
       /\ assessed = DOMAIN Known /\ DOMAIN shell = Terminals
       /\ DOMAIN complete = Repos /\ DOMAIN packet = {}
  OBVIOUS
<1> HIDE DEF RunsInit
<1>13. QED BY <1>1, <1>2, <1>3, <1>4, <1>5, <1>7, <1>8, <1>9, <1>10, <1>11, <1>12
           DEF RunsTypeOK

(* A step that moves one terminal and leaves the tables alone. *)
LEMMA TerminalMoves ==
    ASSUME RunsTypeOK, NEW t \in Terminals, NEW d, shell' = [shell EXCEPT ![t] = d],
           SeatTyped(d, DOMAIN runs, DOMAIN findings),
           UNCHANGED <<findings, outcomes, features, labelRows, assessed, runs, scores, results>>,
           packet' = packet, DOMAIN complete' = DOMAIN complete
    PROVE  RunsTypeOK'
<1>1. /\ DOMAIN shell' = Terminals
      /\ \A u \in Terminals : SeatTyped(shell'[u], DOMAIN runs', DOMAIN findings')
  <2>1. /\ DOMAIN shell' = DOMAIN shell /\ shell'[t] = d
        /\ \A u \in Terminals \ {t} : shell'[u] = shell[u]
    BY DEF RunsTypeOK
  <2>2. QED BY <2>1, SeatsKept
<1>2. QED BY <1>1 DEF RunsTypeOK, ResultType

LEMMA BeginTyped ==
    ASSUME RunsTypeOK, NEW t \in Terminals, NEW r \in Repos, NEW sarif \in SarifFiles,
           Begin(t, r, sarif)
    PROVE  RunsTypeOK'
<1> DEFINE d == [pc |-> "derive", repo |-> r, alerts |-> sarif, rules |-> {a.rule : a \in sarif}]
<1>1. d \in DeriveSeat
  BY DEF DeriveSeat, Rules, Alerts
<1>2. SeatTyped(d, DOMAIN runs, DOMAIN findings)
  BY <1>1 DEF SeatTyped
<1>3. shell' = [shell EXCEPT ![t] = d]
  BY DEF Begin
<1> HIDE DEF d
<1>4. QED BY <1>2, <1>3, TerminalMoves DEF Begin, store, papers

LEMMA DeriveTyped ==
    ASSUME RunsTypeOK, NEW t \in Terminals, DeriveLabels(t)
    PROVE  RunsTypeOK'
<1>1. shell[t] \in DeriveSeat
  BY SeatAt DEF RunsTypeOK, DeriveLabels
<1> DEFINE d == [shell[t] EXCEPT !.pc = "priors"]
<1>2. d \in DeriveSeat
  BY <1>1 DEF DeriveSeat
<1>3. SeatTyped(d, DOMAIN runs, DOMAIN findings)
  BY <1>2 DEF SeatTyped
<1>4. /\ DOMAIN shell' = DOMAIN shell /\ shell'[t] = d
      /\ \A u \in Terminals \ {t} : shell'[u] = shell[u]
  BY DEF DeriveLabels, RunsTypeOK
<1>5. /\ DOMAIN shell' = Terminals
      /\ \A u \in Terminals : SeatTyped(shell'[u], DOMAIN runs', DOMAIN findings')
  <2> HIDE DEF d
  <2>1. UNCHANGED <<findings, runs>>
    BY DEF DeriveLabels
  <2>2. QED BY <1>3, <1>4, <2>1, SeatsKept
<1>6. labelRows' = Relabelled
  BY DEF DeriveLabels
<1>7. QED BY <1>5, <1>6, RelabelledTyped DEF RunsTypeOK, ResultType, DeriveLabels, papers

LEMMA PriorsTyped ==
    ASSUME RunsTypeOK, NEW t \in Terminals, NEW rule, RefreshPrior(t, rule)
    PROVE  RunsTypeOK'
<1> DEFINE d == [shell[t] EXCEPT !.rules = @ \ {rule}]
<1>1. shell[t] \in DeriveSeat
  BY SeatAt DEF RunsTypeOK, RefreshPrior
<1>2. d \in DeriveSeat
  BY <1>1 DEF DeriveSeat
<1>3. SeatTyped(d, DOMAIN runs, DOMAIN findings)
  BY <1>2 DEF SeatTyped
<1>4. shell' = [shell EXCEPT ![t] = d]
  BY DEF RefreshPrior
<1> HIDE DEF d
<1>5. QED BY <1>3, <1>4, TerminalMoves DEF RefreshPrior, papers

(* A split is of one of three strategies. *)
LEMMA SplitIs ==
    ASSUME NEW rows, NEW split \in Splits(rows), NEW people, people = {r \in rows : r.human}
    PROVE  \/ split.basis = "synthetic" /\ split.strategy = "synthetic_row_random"
           \/ /\ split.basis = "real" /\ split.strategy = "engagement_grouped"
              /\ split.test \in Grouped(people)
           \/ /\ split.basis = "real" /\ split.strategy = "real_row_random"
              /\ split.test \in Stratified(people)
<1> DEFINE none == [basis |-> "synthetic", strategy |-> "synthetic_row_random", test |-> {}]
           grouped(t) == [basis |-> "real", strategy |-> "engagement_grouped", test |-> t]
           byRow(t) == [basis |-> "real", strategy |-> "real_row_random", test |-> t]
<1>1. \/ split = none
      \/ \E t \in Grouped(people) : split = grouped(t)
      \/ \E t \in Stratified(people) : split = byRow(t)
  <2> HIDE DEF none, grouped, byRow
  <2>1. \/ Splits(rows) = {none}
        \/ Splits(rows) = {grouped(t) : t \in Grouped(people)}
                                \cup {byRow(t) : t \in Stratified(people)}
        \/ Splits(rows) = {grouped(t) : t \in {}} \cup {byRow(t) : t \in Stratified(people)}
    BY DEF Splits, none, grouped, byRow
  <2>2. QED BY <2>1
<1>2. QED BY <1>1

LEMMA FitTyped ==
    ASSUME RunsTypeOK, NEW t \in Terminals, Fit(t)
    PROVE  RunsTypeOK'
<1>1. PICK split \in Splits(Examples(Corpus)) :
        shell' = [shell EXCEPT ![t] =
                   [pc |-> "fitted", repo |-> shell[t].repo, alerts |-> shell[t].alerts,
                    corpus |-> Examples(Corpus), split |-> split]]
  BY DEF Fit
<1>2. shell[t] \in DeriveSeat
  BY SeatAt DEF RunsTypeOK, Fit
<1> DEFINE d == [pc |-> "fitted", repo |-> shell[t].repo, alerts |-> shell[t].alerts,
                 corpus |-> Examples(Corpus), split |-> split]
<1>3. split.strategy \in {"synthetic_row_random", "real_row_random", "engagement_grouped"}
  BY SplitIs
<1>4. FittedSeat(d)
  <2>1. shell[t].repo \in Repos /\ shell[t].alerts \in SarifFiles
    BY <1>2 DEF DeriveSeat
  <2>2. QED BY <1>3, <2>1, CorpusFinite DEF FittedSeat
<1>5. SeatTyped(d, DOMAIN runs, DOMAIN findings)
  BY <1>4 DEF SeatTyped
<1>6. shell' = [shell EXCEPT ![t] = d]
  BY <1>1
<1> HIDE DEF d
<1>7. QED BY <1>5, <1>6, TerminalMoves DEF Fit, store, papers

(* A command that ends leaves no state behind. *)
LEMMA LeavingTyped ==
    ASSUME RunsTypeOK, NEW t \in Terminals, Refuse(t) \/ End(t) \/ Die(t)
    PROVE  RunsTypeOK'
<1>1. SeatTyped(Idle, DOMAIN runs, DOMAIN findings)
  BY DEF SeatTyped
<1>2. /\ shell' = [shell EXCEPT ![t] = Idle] /\ UNCHANGED store /\ packet' = packet
      /\ DOMAIN complete' = DOMAIN complete
  BY DEF Refuse, End, Die, papers
<1>3. QED BY <1>1, <1>2, TerminalMoves DEF store

LEMMA AppendIs ==
    ASSUME NEW S, NEW s \in Seq(S), NEW e \in S
    PROVE  /\ Append(s, e) \in Seq(S) /\ Len(Append(s, e)) = Len(s) + 1
           /\ DOMAIN s = 1 .. Len(s) /\ Len(s) \in Nat
           /\ DOMAIN Append(s, e) = 1 .. Len(s) + 1
           /\ DOMAIN s \subseteq DOMAIN Append(s, e)
           /\ Len(s) + 1 \in DOMAIN Append(s, e) /\ Len(s) + 1 \notin DOMAIN s
           /\ DOMAIN Append(s, e) = DOMAIN s \cup {Len(s) + 1}
           /\ \A i \in DOMAIN s : Append(s, e)[i] = s[i]
           /\ Append(s, e)[Len(s) + 1] = e
OBVIOUS

(* insert_triage_model_run gives the run the next id. *)
LEMMA RecordIs ==
    ASSUME RunsTypeOK, NEW t \in Terminals, RecordRun(t)
    PROVE  /\ shell[t].pc = "fitted" /\ FittedSeat(shell[t]) /\ DOMAIN shell' = Terminals
           /\ shell'[t] = [pc |-> "index", repo |-> shell[t].repo, alerts |-> shell[t].alerts,
                           all |-> shell[t].alerts, run |-> Len(runs) + 1]
           /\ \A u \in Terminals \ {t} : shell'[u] = shell[u]
           /\ runs' \in Seq(RunType) /\ DOMAIN runs \subseteq DOMAIN runs'
           /\ \A i \in DOMAIN runs : runs'[i] = runs[i]
           /\ Len(runs) + 1 \in DOMAIN runs' /\ Len(runs) + 1 \notin DOMAIN runs
           /\ DOMAIN runs' = DOMAIN runs \cup {Len(runs) + 1}
           /\ runs'[Len(runs) + 1].repo = shell[t].repo
<1>1. FittedSeat(shell[t]) /\ shell[t].pc = "fitted" /\ DOMAIN shell = Terminals
  BY SeatAt DEF RunsTypeOK, RecordRun
<1> DEFINE row == RunOf(shell[t].repo, shell[t].corpus, shell[t].split)
<1>2. row \in RunType /\ row.repo = shell[t].repo
  BY <1>1, RunTyped DEF FittedSeat
<1>3. runs' = Append(runs, row) /\ runs \in Seq(RunType)
  BY DEF RecordRun, RunsTypeOK
<1>4. /\ shell'[t] = [pc |-> "index", repo |-> shell[t].repo, alerts |-> shell[t].alerts,
                      all |-> shell[t].alerts, run |-> Len(runs) + 1]
      /\ DOMAIN shell' = Terminals
      /\ \A u \in Terminals \ {t} : shell'[u] = shell[u]
  BY <1>1 DEF RecordRun
<1> HIDE DEF row
<1>5. /\ Append(runs, row) \in Seq(RunType) /\ DOMAIN runs \subseteq DOMAIN Append(runs, row)
      /\ \A i \in DOMAIN runs : Append(runs, row)[i] = runs[i]
      /\ Len(runs) + 1 \in DOMAIN Append(runs, row) /\ Len(runs) + 1 \notin DOMAIN runs
      /\ DOMAIN Append(runs, row) = DOMAIN runs \cup {Len(runs) + 1}
      /\ Append(runs, row)[Len(runs) + 1] = row
  BY <1>2, <1>3, AppendIs
<1>6. QED BY <1>1, <1>2, <1>3, <1>4, <1>5

LEMMA RecordTyped ==
    ASSUME RunsTypeOK, NEW t \in Terminals, RecordRun(t)
    PROVE  RunsTypeOK'
<1>1. shell'[t] \in IndexSeat(DOMAIN runs')
  <2>1. shell[t].repo \in Repos /\ shell[t].alerts \in SarifFiles
    BY RecordIs DEF FittedSeat
  <2>2. /\ Len(runs) + 1 \in DOMAIN runs'
        /\ shell'[t] = [pc |-> "index", repo |-> shell[t].repo, alerts |-> shell[t].alerts,
                        all |-> shell[t].alerts, run |-> Len(runs) + 1]
    BY RecordIs
  <2>3. QED BY <2>1, <2>2 DEF IndexSeat
<1>2. SeatTyped(shell'[t], DOMAIN runs', DOMAIN findings')
  BY <1>1 DEF SeatTyped
<1>3. UNCHANGED <<findings, outcomes, features, labelRows, assessed, scores, results,
                  packet, complete>>
  BY DEF RecordRun, papers
<1>4. /\ DOMAIN shell' = Terminals
      /\ \A u \in Terminals : SeatTyped(shell'[u], DOMAIN runs', DOMAIN findings')
  <2>1. /\ DOMAIN runs \subseteq DOMAIN runs' /\ DOMAIN shell' = DOMAIN shell
        /\ \A u \in Terminals \ {t} : shell'[u] = shell[u]
    BY RecordIs DEF RunsTypeOK
  <2>2. QED BY <1>2, <1>3, <2>1, SeatsKept
<1>5. \A f \in DOMAIN results : results[f] \in ResultType'
  <2>1. \A f \in DOMAIN results : results[f] \in ResultType
    BY DEF RunsTypeOK
  <2>2. ResultType \subseteq ResultType'
    BY RecordIs DEF ResultType
  <2>3. QED BY <2>1, <2>2
<1>6. scores \subseteq [finding : DOMAIN features, run : DOMAIN runs', alert : Alerts]
  BY RecordIs DEF RunsTypeOK
<1>7. QED BY <1>3, <1>4, <1>5, <1>6, RecordIs DEF RunsTypeOK

(* Each file has results, so that there is one to begin with. *)
LEMMA ReadIs ==
    ASSUME RunsTypeOK, NEW t \in Terminals, ReadIndex(t)
    PROVE  /\ shell[t].pc = "index" /\ shell[t] \in IndexSeat(DOMAIN runs)
           /\ DOMAIN shell' = Terminals /\ \A u \in Terminals \ {t} : shell'[u] = shell[u]
           /\ \E a \in shell[t].all : shell'[t] =
                [pc |-> "next", repo |-> shell[t].repo, run |-> shell[t].run,
                 alerts |-> shell[t].alerts, all |-> shell[t].all,
                 alert |-> a, index |-> Existing(shell[t].repo)]
<1>1. shell[t].pc = "index" /\ shell[t] \in IndexSeat(DOMAIN runs) /\ DOMAIN shell = Terminals
  BY SeatAt DEF RunsTypeOK, ReadIndex
<1>2. shell[t].all # {}
  BY <1>1, AlertsAssumption DEF IndexSeat
<1>3. (CHOOSE a \in shell[t].all : TRUE) \in shell[t].all
  BY <1>2
<1>4. shell' = [shell EXCEPT ![t] =
                  [pc |-> "next", repo |-> shell[t].repo, run |-> shell[t].run,
                   alerts |-> shell[t].alerts, all |-> shell[t].all,
                   alert |-> CHOOSE a \in shell[t].all : TRUE, index |-> Existing(shell[t].repo)]]
  BY DEF ReadIndex
<1>5. QED BY <1>1, <1>3, <1>4

LEMMA ReadTyped ==
    ASSUME RunsTypeOK, NEW t \in Terminals, ReadIndex(t)
    PROVE  RunsTypeOK'
<1>1. PICK a \in shell[t].all : shell'[t] =
                [pc |-> "next", repo |-> shell[t].repo, run |-> shell[t].run,
                 alerts |-> shell[t].alerts, all |-> shell[t].all,
                 alert |-> a, index |-> Existing(shell[t].repo)]
  BY ReadIs
<1>2. /\ shell[t].repo \in Repos /\ shell[t].run \in DOMAIN runs
      /\ shell[t].alerts \in SUBSET Alerts /\ shell[t].all \in SarifFiles /\ a \in Alerts
  BY ReadIs DEF IndexSeat, Alerts
<1>3. Existing(shell[t].repo) \in Indexes(DOMAIN findings)
  BY ExistingTyped
<1>4. shell'[t] \in WorkSeat(DOMAIN runs, DOMAIN findings)
  BY <1>1, <1>2, <1>3 DEF WorkSeat, Working
<1>5. SeatTyped(shell'[t], DOMAIN runs, DOMAIN findings)
  BY <1>4 DEF SeatTyped
<1>6. shell' = [shell EXCEPT ![t] = shell'[t]]
  BY DEF ReadIndex, RunsTypeOK
<1>7. QED BY <1>5, <1>6, TerminalMoves DEF ReadIndex, store, papers

(* A run at an alert of its file. *)
LEMMA WorkFields ==
    ASSUME NEW R, NEW F, NEW d \in WorkSeat(R, F)
    PROVE  /\ d.pc \in Working /\ d.repo \in Repos /\ d.run \in R
           /\ d.alerts \in SUBSET Alerts /\ d.all \in SarifFiles /\ d.alert \in Alerts
           /\ \A p \in DOMAIN d.index : d.index[p] \in F
<1>1. PICK P \in SUBSET Places : d.index \in [P -> F]
  BY DEF WorkSeat, Indexes
<1>2. \A p \in DOMAIN d.index : d.index[p] \in F
  BY <1>1
<1>3. QED BY <1>2 DEF WorkSeat

LEMMA IndexPut ==
    ASSUME NEW F, NEW F2, NEW index \in Indexes(F), F \subseteq F2, NEW a \in Alerts, NEW f \in F2
    PROVE  Put(index, Place(a), f) \in Indexes(F2)
<1>1. PICK P \in SUBSET Places : index \in [P -> F]
  BY DEF Indexes
<1>2. P \cup {Place(a)} \in SUBSET Places
  BY DEF Places
<1>3. Put(index, Place(a), f) \in [P \cup {Place(a)} -> F2]
  BY <1>1 DEF Put
<1>4. QED BY <1>2, <1>3 DEF Indexes

(* _persist_finding finds the finding of an alert, or inserts it. *)
LEMMA PersistIs ==
    ASSUME RunsTypeOK, NEW t \in Terminals, NEW a \in Alerts, PersistFinding(t, a)
    PROVE  /\ shell[t].pc = "next" /\ shell[t] \in WorkSeat(DOMAIN runs, DOMAIN findings)
           /\ a \in shell[t].alerts
           /\ DOMAIN shell' = Terminals /\ \A u \in Terminals \ {t} : shell'[u] = shell[u]
           /\ findings' \in Seq(FindingType)
           /\ outcomes' \in Seq({"unresolved", "confirmed", "killed"})
           /\ Len(outcomes') = Len(findings')
           /\ DOMAIN findings \subseteq DOMAIN findings'
           /\ \A g \in DOMAIN findings : findings'[g] = findings[g]
           /\ \E f \in DOMAIN findings' :
                /\ shell'[t] = [shell[t] EXCEPT !.pc = "features", !.alert = a,
                                !.alerts = @ \ {a}, !.index = Put(@, Place(a), f)]
                /\ \/ /\ Place(a) \in DOMAIN shell[t].index /\ f = shell[t].index[Place(a)]
                      /\ findings' = findings
                   \/ /\ Place(a) \notin DOMAIN shell[t].index
                      /\ DOMAIN findings' = DOMAIN findings \cup {f} /\ f \notin DOMAIN findings
                      /\ findings'[f] = FindingOf(shell[t].repo, a)
<1> DEFINE d == shell[t]
           known == Place(a) \in DOMAIN d.index
           f == IF known THEN d.index[Place(a)] ELSE Len(findings) + 1
<1>1. /\ d.pc = "next" /\ d \in WorkSeat(DOMAIN runs, DOMAIN findings) /\ a \in d.alerts
      /\ DOMAIN shell = Terminals
  BY SeatAt DEF RunsTypeOK, PersistFinding, Working
<1>2. /\ shell' = [shell EXCEPT ![t].pc = "features", ![t].alert = a,
                                ![t].alerts = @ \ {a}, ![t].index = Put(@, Place(a), f)]
      /\ IF known THEN UNCHANGED <<findings, outcomes>>
         ELSE /\ findings' = Append(findings, FindingOf(d.repo, a))
              /\ outcomes' = Append(outcomes, "unresolved")
  BY DEF PersistFinding
<1>3. /\ DOMAIN shell' = Terminals /\ \A u \in Terminals \ {t} : shell'[u] = shell[u]
      /\ shell'[t] = [d EXCEPT !.pc = "features", !.alert = a,
                               !.alerts = @ \ {a}, !.index = Put(@, Place(a), f)]
  BY <1>1, <1>2
<1>4. /\ findings \in Seq(FindingType) /\ Len(outcomes) = Len(findings)
      /\ outcomes \in Seq({"unresolved", "confirmed", "killed"})
  BY DEF RunsTypeOK
<1>5. CASE known
  <2>1. f = d.index[Place(a)] /\ f \in DOMAIN findings
    BY <1>1, <1>5, WorkFields
  <2>2. findings' = findings /\ outcomes' = outcomes
    BY <1>2, <1>5
  <2> HIDE DEF f
  <2>3. QED BY <1>1, <1>3, <1>4, <1>5, <2>1, <2>2
<1>6. CASE ~known
  <2>1. FindingOf(d.repo, a) \in FindingType
    BY <1>1 DEF WorkSeat, FindingType
  <2>2. f = Len(findings) + 1
    BY <1>6
  <2>3. findings' = Append(findings, FindingOf(d.repo, a))
    BY <1>2, <1>6
  <2>4. outcomes' = Append(outcomes, "unresolved")
    BY <1>2, <1>6
  <2> HIDE DEF f
  <2>5. /\ findings' \in Seq(FindingType) /\ Len(findings') = Len(findings) + 1
        /\ f \in DOMAIN findings' /\ f \notin DOMAIN findings
        /\ DOMAIN findings' = DOMAIN findings \cup {f}
        /\ \A g \in DOMAIN findings : findings'[g] = findings[g]
        /\ findings'[f] = FindingOf(d.repo, a)
    BY <1>4, <2>1, <2>2, <2>3, AppendIs
  <2>6. /\ outcomes' \in Seq({"unresolved", "confirmed", "killed"})
        /\ Len(outcomes') = Len(outcomes) + 1
    BY <1>4, <2>4, AppendIs
  <2>7. QED BY <1>1, <1>3, <1>4, <1>6, <2>5, <2>6
<1>7. QED BY <1>5, <1>6

LEMMA PersistTyped ==
    ASSUME RunsTypeOK, NEW t \in Terminals, NEW a \in Alerts, PersistFinding(t, a)
    PROVE  RunsTypeOK'
<1>1. PICK f \in DOMAIN findings' :
        shell'[t] = [shell[t] EXCEPT !.pc = "features", !.alert = a,
                        !.alerts = @ \ {a}, !.index = Put(@, Place(a), f)]
  BY PersistIs
<1>2. shell'[t] \in WorkSeat(DOMAIN runs, DOMAIN findings')
  <2> DEFINE d == shell[t]
             index == Put(d.index, Place(a), f)
  <2>1. d \in WorkSeat(DOMAIN runs, DOMAIN findings) /\ DOMAIN findings \subseteq DOMAIN findings'
    BY PersistIs
  <2>2. d.index \in Indexes(DOMAIN findings)
    BY <2>1 DEF WorkSeat
  <2>3. index \in Indexes(DOMAIN findings')
    BY <2>1, <2>2, IndexPut
  <2>4. shell'[t] = [d EXCEPT !.pc = "features", !.alert = a, !.alerts = @ \ {a},
                              !.index = index]
    BY <1>1
  <2> HIDE DEF d, index
  <2>5. /\ d.repo \in Repos /\ d.run \in DOMAIN runs /\ d.all \in SarifFiles
        /\ d.alerts \ {a} \in SUBSET Alerts
    BY <2>1 DEF WorkSeat
  <2>6. shell'[t] = [pc |-> "features", repo |-> d.repo, run |-> d.run,
                     alerts |-> d.alerts \ {a}, all |-> d.all, alert |-> a, index |-> index]
    BY <2>1, <2>4 DEF WorkSeat
  <2>7. QED BY <2>3, <2>5, <2>6 DEF WorkSeat, Working
<1>3. SeatTyped(shell'[t], DOMAIN runs, DOMAIN findings')
  BY <1>2 DEF SeatTyped
<1>4. UNCHANGED <<features, labelRows, assessed, runs, scores, results, packet, complete>>
  BY DEF PersistFinding, papers
<1>5. /\ DOMAIN shell' = Terminals
      /\ \A u \in Terminals : SeatTyped(shell'[u], DOMAIN runs', DOMAIN findings')
  <2>1. /\ DOMAIN findings \subseteq DOMAIN findings' /\ DOMAIN shell' = DOMAIN shell
        /\ \A u \in Terminals \ {t} : shell'[u] = shell[u]
    BY PersistIs DEF RunsTypeOK
  <2>2. QED BY <1>3, <1>4, <2>1, SeatsKept
<1>6. DOMAIN features \subseteq DOMAIN findings'
  BY PersistIs DEF RunsTypeOK
<1>7. QED BY <1>4, <1>5, <1>6, PersistIs DEF RunsTypeOK, ResultType

(* What a run that writes is at. *)
LEMMA WriterIs ==
    ASSUME RunsTypeOK, NEW t \in Terminals, shell[t].pc \in {"features", "result"},
           Place(shell[t].alert) \in DOMAIN shell[t].index
    PROVE  /\ shell[t] \in WorkSeat(DOMAIN runs, DOMAIN findings)
           /\ Current(t) \in DOMAIN findings /\ shell[t].repo \in Repos
           /\ shell[t].alert \in Alerts /\ shell[t].run \in DOMAIN runs
<1>1. shell[t] \in WorkSeat(DOMAIN runs, DOMAIN findings)
  BY SeatAt DEF RunsTypeOK, Working
<1>2. Current(t) \in DOMAIN findings
  BY <1>1, WorkFields DEF Current
<1>3. QED BY <1>1, <1>2, WorkFields

(* A terminal goes to the next step of an alert. *)
LEMMA StepTyped ==
    ASSUME RunsTypeOK, NEW t \in Terminals, shell[t] \in WorkSeat(DOMAIN runs, DOMAIN findings),
           NEW pc \in Working, shell' = [shell EXCEPT ![t].pc = pc],
           UNCHANGED <<findings, runs>>
    PROVE  /\ DOMAIN shell' = Terminals /\ \A u \in Terminals \ {t} : shell'[u] = shell[u]
           /\ \A u \in Terminals : SeatTyped(shell'[u], DOMAIN runs', DOMAIN findings')
           /\ shell'[t] = [shell[t] EXCEPT !.pc = pc]
<1>1. /\ DOMAIN shell' = DOMAIN shell /\ shell'[t] = [shell[t] EXCEPT !.pc = pc]
      /\ \A u \in Terminals \ {t} : shell'[u] = shell[u]
  BY DEF RunsTypeOK
<1>2. shell'[t] \in WorkSeat(DOMAIN runs, DOMAIN findings)
  BY <1>1 DEF WorkSeat
<1>3. SeatTyped(shell'[t], DOMAIN runs, DOMAIN findings)
  BY <1>2 DEF SeatTyped
<1>4. DOMAIN shell' = Terminals
  BY <1>1 DEF RunsTypeOK
<1>5. QED BY <1>1, <1>3, <1>4, SeatsKept

(* upsert_triage_features *)
LEMMA FeaturesTyped ==
    ASSUME RunsTypeOK, NEW t \in Terminals, WriteFeatures(t),
           Place(shell[t].alert) \in DOMAIN shell[t].index
    PROVE  /\ RunsTypeOK'
           /\ features' = Put(features, Current(t), RowOf(shell[t].repo, shell[t].alert))
           /\ Current(t) \in DOMAIN findings /\ shell[t].alert \in Alerts
           /\ shell'[t] = [shell[t] EXCEPT !.pc = "result"]
           /\ \A u \in Terminals \ {t} : shell'[u] = shell[u]
<1>1. shell[t].pc = "features"
  BY DEF WriteFeatures
<1>2. /\ shell[t] \in WorkSeat(DOMAIN runs, DOMAIN findings)
      /\ Current(t) \in DOMAIN findings /\ shell[t].repo \in Repos /\ shell[t].alert \in Alerts
  BY <1>1, WriterIs
<1> DEFINE row == RowOf(shell[t].repo, shell[t].alert)
           f == Current(t)
<1>3. row \in FeatureType
  BY <1>2 DEF FeatureType
<1>4. features' = Put(features, f, row)
  BY DEF WriteFeatures, FeaturesWritten, FeatureRow
<1>5. UNCHANGED <<findings, outcomes, labelRows, assessed, runs, scores, results, packet, complete>>
  BY DEF WriteFeatures, papers
<1>6. /\ shell'[t] = [shell[t] EXCEPT !.pc = "result"]
      /\ DOMAIN shell' = Terminals /\ \A u \in Terminals \ {t} : shell'[u] = shell[u]
      /\ \A u \in Terminals : SeatTyped(shell'[u], DOMAIN runs', DOMAIN findings')
  <2>1. shell' = [shell EXCEPT ![t].pc = "result"] /\ "result" \in Working
    BY DEF WriteFeatures, Working
  <2>2. QED BY <1>2, <1>5, <2>1, StepTyped
<1> HIDE DEF row, f
<1>7. /\ DOMAIN features' = DOMAIN features \cup {f}
      /\ \A g \in DOMAIN features' : features'[g] \in FeatureType
  <2>1. \A g \in DOMAIN features : features[g] \in FeatureType
    BY DEF RunsTypeOK
  <2>2. QED BY <1>3, <1>4, <2>1 DEF Put
<1>8. f \in DOMAIN findings
  BY <1>2 DEF f
<1>9. RunsTypeOK'
  BY <1>5, <1>6, <1>7, <1>8 DEF RunsTypeOK, ResultType
<1>10. QED BY <1>2, <1>4, <1>6, <1>9 DEF row, f

(* upsert_triage_result *)
LEMMA ResultTyped ==
    ASSUME RunsTypeOK, NEW t \in Terminals, WriteResult(t),
           Place(shell[t].alert) \in DOMAIN shell[t].index, Current(t) \in DOMAIN features
    PROVE  /\ RunsTypeOK'
           /\ results' = Put(results, Current(t), [run |-> shell[t].run, alert |-> shell[t].alert])
           /\ shell'[t] = [shell[t] EXCEPT !.pc = "next"]
           /\ \A u \in Terminals \ {t} : shell'[u] = shell[u]
<1>1. shell[t].pc = "result"
  BY DEF WriteResult
<1>2. /\ shell[t] \in WorkSeat(DOMAIN runs, DOMAIN findings)
      /\ shell[t].run \in DOMAIN runs /\ shell[t].alert \in Alerts
  BY <1>1, WriterIs
<1> DEFINE row == [run |-> shell[t].run, alert |-> shell[t].alert]
           f == Current(t)
           score == [finding |-> f, run |-> shell[t].run, alert |-> shell[t].alert]
<1>3. row \in ResultType
  BY <1>2 DEF ResultType
<1>4. results' = Put(results, f, row) /\ scores' = scores \cup {score}
  BY DEF WriteResult
<1>5. UNCHANGED <<findings, outcomes, features, labelRows, assessed, runs, packet, complete>>
  BY DEF WriteResult, papers
<1>6. /\ shell'[t] = [shell[t] EXCEPT !.pc = "next"]
      /\ DOMAIN shell' = Terminals /\ \A u \in Terminals \ {t} : shell'[u] = shell[u]
      /\ \A u \in Terminals : SeatTyped(shell'[u], DOMAIN runs', DOMAIN findings')
  <2>1. shell' = [shell EXCEPT ![t].pc = "next"] /\ "next" \in Working
    BY DEF WriteResult, Working
  <2>2. QED BY <1>2, <1>5, <2>1, StepTyped
<1>7. score \in [finding : DOMAIN features, run : DOMAIN runs, alert : Alerts]
  BY <1>2
<1>8. f \in DOMAIN features
  OBVIOUS
<1> HIDE DEF row, f, score
<1>9. /\ DOMAIN results' = DOMAIN results \cup {f}
      /\ \A g \in DOMAIN results' : results'[g] \in ResultType
  <2>1. \A g \in DOMAIN results : results[g] \in ResultType
    BY DEF RunsTypeOK
  <2>2. QED BY <1>3, <1>4, <2>1 DEF Put
<1>10. ResultType' = ResultType
  BY <1>5 DEF ResultType
<1>11. RunsTypeOK'
  BY <1>4, <1>5, <1>6, <1>7, <1>8, <1>9, <1>10 DEF RunsTypeOK
<1>12. QED BY <1>4, <1>6, <1>11 DEF row, f

(* Verdicts, judgements, plans and packets. *)
LEMMA RuleTyped ==
    ASSUME RunsTypeOK, NEW f \in DOMAIN findings, Rule(f)
    PROVE  RunsTypeOK'
<1>1. PICK ruling \in {"confirmed", "killed"} : outcomes' = [outcomes EXCEPT ![f] = ruling]
  BY DEF Rule
<1> DEFINE Kinds == {"unresolved", "confirmed", "killed"}
<1>2. outcomes \in Seq(Kinds) /\ ruling \in Kinds
  BY DEF RunsTypeOK
<1>3. outcomes' \in Seq(Kinds) /\ Len(outcomes') = Len(outcomes)
  <2> HIDE DEF Kinds
  <2>1. outcomes \in [1 .. Len(outcomes) -> Kinds] /\ Len(outcomes) \in Nat
    BY <1>2
  <2>2. outcomes' \in [1 .. Len(outcomes) -> Kinds]
    BY <1>1, <1>2, <2>1
  <2>3. QED BY <2>1, <2>2
<1>4. UNCHANGED <<findings, features, labelRows, assessed, runs, scores, results, shell,
                  packet, complete>>
  BY DEF Rule, papers
<1>5. ResultType' = ResultType
  BY <1>4 DEF ResultType
<1>6. QED BY <1>3, <1>4, <1>5 DEF RunsTypeOK

LEMMA JudgeTyped ==
    ASSUME RunsTypeOK, NEW f, Judge(f)
    PROVE  RunsTypeOK'
<1> DEFINE k == <<features[f].repo, features[f].print>>
<1>1. PICK actionable \in BOOLEAN :
        labelRows' = Put(labelRows, k, [rule |-> features[f].rule, actionable |-> actionable,
                                        source |-> "manual"])
  BY DEF Judge
<1> DEFINE row == [rule |-> features[f].rule, actionable |-> actionable, source |-> "manual"]
<1>2. f \in DOMAIN features /\ assessed' = assessed \cup {f}
  BY DEF Judge
<1>3. row \in LabelRowType /\ k \in Repos \X {Fingerprint(a) : a \in Alerts}
  BY <1>2, RowTypes DEF LabelRowType
<1>4. UNCHANGED <<findings, outcomes, features, runs, scores, results, shell, packet, complete>>
  BY DEF Judge, papers
<1>5. ResultType' = ResultType
  BY <1>4 DEF ResultType
<1>6. labelRows' = Put(labelRows, k, row)
  BY <1>1
<1> HIDE DEF k, row
<1>7. /\ DOMAIN labelRows' = DOMAIN labelRows \cup {k}
      /\ \A l \in DOMAIN labelRows' : labelRows'[l] \in LabelRowType
  <2>1. \A l \in DOMAIN labelRows : labelRows[l] \in LabelRowType
    BY DEF RunsTypeOK
  <2>2. QED BY <1>3, <1>6, <2>1 DEF Put
<1>8. IsFiniteSet(DOMAIN labelRows')
  <2>1. IsFiniteSet(DOMAIN labelRows)
    BY DEF RunsTypeOK
  <2>2. QED BY <1>7, <2>1, FS_AddElement
<1>9. QED BY <1>2, <1>3, <1>4, <1>5, <1>7, <1>8 DEF RunsTypeOK

LEMMA PapersTyped ==
    ASSUME RunsTypeOK, Draw \/ Render
    PROVE  RunsTypeOK'
<1>1. UNCHANGED <<findings, outcomes, features, labelRows, assessed, runs, scores, results,
                  shell, complete>>
  BY DEF Draw, Render, store
<1>2. ResultType' = ResultType
  BY <1>1 DEF ResultType
<1>3. DOMAIN packet' \subseteq DOMAIN features
  BY DEF Draw, Render, Unmoved, RunsTypeOK
<1>4. QED BY <1>1, <1>2, <1>3 DEF RunsTypeOK

-----------------------------------------------------------------------------
(* The invariant, of any tables *)

Leads(d, rs, fs, ids) ==
    /\ rs[d.run].repo = d.repo
    /\ d.alerts \subseteq d.all
    /\ d.pc # "next" => d.alert \in d.all \ d.alerts /\ Place(d.alert) \in DOMAIN d.index
    /\ \A p \in DOMAIN d.index : fs[d.index[p]].repo = d.repo /\ fs[d.index[p]].place = p
    /\ d.pc = "result" => d.index[Place(d.alert)] \in ids

SeatLeads(d, rs, fs, ids) ==
    /\ d.pc = "index" => rs[d.run].repo = d.repo /\ d.alerts = d.all
    /\ d.pc \in Working => Leads(d, rs, fs, ids)

ScoredIn(r, run, a, fs, ft, rt) ==
    \E f \in DOMAIN rt :
        /\ fs[f].repo = r /\ fs[f].place = Place(a)
        /\ ft[f] = RowOf(r, a) /\ rt[f] = [run |-> run, alert |-> a]

Knows(d, fs, ft, rt) ==
    /\ \A f \in DOMAIN fs : fs[f].repo = d.repo => fs[f].place \in DOMAIN d.index
    /\ d.pc = "result" => ft[d.index[Place(d.alert)]] = RowOf(d.repo, d.alert)
    /\ \A a \in Done(d) : Merged(d.all, a) \/ ScoredIn(d.repo, d.run, a, fs, ft, rt)

Differ(r, fs) ==
    \A f, g \in DOMAIN fs :
        fs[f].repo = r /\ fs[g].repo = r /\ fs[f].place = fs[g].place => f = g

IsAt(d, r) == d.pc # "idle" /\ d.repo = r

Alone(r, sh, fs, ft, rt, last) ==
    /\ \A t, u \in Terminals : IsAt(sh[t], r) /\ IsAt(sh[u], r) => t = u
    /\ (\E t \in Terminals : IsAt(sh[t], r)) => last = NoRun
    /\ Differ(r, fs)
    /\ \A t \in Terminals : IsAt(sh[t], r) /\ sh[t].pc \in Working => Knows(sh[t], fs, ft, rt)
    /\ \A a \in last.alerts : Merged(last.alerts, a) \/ ScoredIn(r, last.run, a, fs, ft, rt)

About(fs, ft, sc, rs) ==
    /\ \A f \in DOMAIN ft : \E a \in Alerts :
        ft[f] = RowOf(fs[f].repo, a) /\ fs[f].place = Place(a)
    /\ \A s \in sc : rs[s.run].repo = fs[s.finding].repo /\ fs[s.finding].place = Place(s.alert)

LEMMA SeatLeadsIs ==
    /\ IndexesLead <=> \A t \in Terminals : SeatLeads(shell[t], runs, findings, DOMAIN features)
    /\ IndexesLead' <=>
        \A t \in Terminals : SeatLeads(shell'[t], runs', findings', DOMAIN features')
<1>1. ASSUME NEW d PROVE IndexLeads(d) <=> Leads(d, runs, findings, DOMAIN features)
  BY DEF IndexLeads, Leads
<1>2. IndexesLead <=> \A t \in Terminals : SeatLeads(shell[t], runs, findings, DOMAIN features)
  BY <1>1 DEF IndexesLead, SeatLeads
<1>3. \A t : IndexLeads(shell[t])' <=> Leads(shell'[t], runs', findings', DOMAIN features')
  BY DEF IndexLeads, Leads
<1>4. QED BY <1>2, <1>3 DEF IndexesLead, SeatLeads

AloneNext(r) == Alone(r, shell', findings', features', results', complete'[r])

LEMMA AloneIs ==
    ASSUME NEW r
    PROVE  /\ AloneAt(r) <=> Alone(r, shell, findings, features, results, complete[r])
           /\ AloneAt(r)' <=> AloneNext(r)
<1>1. AloneAt(r) <=> Alone(r, shell, findings, features, results, complete[r])
  <2>1. ASSUME NEW q, NEW run, NEW a
        PROVE  Scored(q, run, a) <=> ScoredIn(q, run, a, findings, features, results)
    BY DEF Scored, ScoredIn
  <2>2. ASSUME NEW d PROVE KnowsAll(d) <=> Knows(d, findings, features, results)
    BY <2>1 DEF KnowsAll, Knows
  <2>3. DifferentPlaces(r) <=> Differ(r, findings)
    BY DEF DifferentPlaces, Differ
  <2>4. \A t : t \in At(r) <=> t \in Terminals /\ IsAt(shell[t], r)
    BY DEF At, IsAt
  <2>5. QED BY <2>1, <2>2, <2>3, <2>4 DEF AloneAt, Alone
<1>2. AloneAt(r)' <=> Alone(r, shell', findings', features', results', complete'[r])
  <2>1. ASSUME NEW q, NEW run, NEW a
        PROVE  Scored(q, run, a)' <=> ScoredIn(q, run, a, findings', features', results')
    BY DEF Scored, ScoredIn
  <2>2. \A t : KnowsAll(shell[t])' <=> Knows(shell'[t], findings', features', results')
    BY DEF KnowsAll, Knows, Scored, ScoredIn, Done
  <2>3. DifferentPlaces(r)' <=> Differ(r, findings')
    BY DEF DifferentPlaces, Differ
  <2>4. \A t : t \in At(r)' <=> t \in Terminals /\ IsAt(shell'[t], r)
    BY DEF At, IsAt
  <2>5. \A a : Scored(r, complete[r].run, a)'
                    <=> ScoredIn(r, complete'[r].run, a, findings', features', results')
    BY DEF Scored, ScoredIn
  <2>6. QED BY <2>2, <2>3, <2>4, <2>5 DEF AloneAt, Alone
<1>3. QED BY <1>1, <1>2 DEF AloneNext

LEMMA InvAgain ==
    ASSUME AboutPlace', IndexesLead', \A r \in Repos \ together' : AloneNext(r)
    PROVE  RunsInv'
BY AloneIs DEF RunsInv

LEMMA AboutIs ==
    /\ AboutPlace <=> About(findings, features, scores, runs)
    /\ AboutPlace' <=> About(findings', features', scores', runs')
BY DEF AboutPlace, About

(* Rows are added, and those of a repository are not written. *)
Grows ==
    /\ DOMAIN runs \subseteq DOMAIN runs' /\ \A i \in DOMAIN runs : runs'[i] = runs[i]
    /\ DOMAIN findings \subseteq DOMAIN findings'
    /\ \A f \in DOMAIN findings : findings'[f] = findings[f]
    /\ DOMAIN features \subseteq DOMAIN features'

StaysOf(r) ==
    /\ \A f \in DOMAIN findings' : findings'[f].repo = r => f \in DOMAIN findings
    /\ \A f \in DOMAIN features : findings[f].repo = r => features'[f] = features[f]
    /\ \A f \in DOMAIN results : findings[f].repo = r =>
            f \in DOMAIN results' /\ results'[f] = results[f]

LEMMA SeatLeadsAgain ==
    ASSUME Grows, NEW d, SeatTyped(d, DOMAIN runs, DOMAIN findings),
           SeatLeads(d, runs, findings, DOMAIN features)
    PROVE  SeatLeads(d, runs', findings', DOMAIN features')
<1>1. CASE d.pc = "index"
  <2>1. d.run \in DOMAIN runs /\ d.pc \notin Working
    BY <1>1, SeatAt DEF IndexSeat, Working
  <2>2. QED BY <1>1, <2>1 DEF SeatLeads, Grows
<1>2. CASE d.pc \in Working
  <2>1. /\ d.run \in DOMAIN runs /\ d.pc # "index"
        /\ \A p \in DOMAIN d.index : d.index[p] \in DOMAIN findings
    BY <1>2, SeatAt, WorkFields DEF Working
  <2>2. Leads(d, runs, findings, DOMAIN features)
    BY <1>2 DEF SeatLeads
  <2>3. Leads(d, runs', findings', DOMAIN features')
    BY <2>1, <2>2 DEF Leads, Grows
  <2>4. QED BY <2>1, <2>3 DEF SeatLeads
<1>3. QED BY <1>1, <1>2 DEF SeatLeads

LEMMA ScoredAgain ==
    ASSUME RunsTypeOK, Grows, NEW r, StaysOf(r), NEW run, NEW a,
           ScoredIn(r, run, a, findings, features, results)
    PROVE  ScoredIn(r, run, a, findings', features', results')
<1>1. PICK f \in DOMAIN results :
        /\ findings[f].repo = r /\ findings[f].place = Place(a)
        /\ features[f] = RowOf(r, a) /\ results[f] = [run |-> run, alert |-> a]
  BY DEF ScoredIn
<1>2. f \in DOMAIN features /\ f \in DOMAIN findings
  BY DEF RunsTypeOK
<1>3. /\ f \in DOMAIN results' /\ results'[f] = results[f]
      /\ features'[f] = features[f] /\ findings'[f] = findings[f]
  BY <1>1, <1>2 DEF Grows, StaysOf
<1>4. QED BY <1>1, <1>3 DEF ScoredIn

LEMMA DifferAgain ==
    ASSUME Grows, NEW r, StaysOf(r), Differ(r, findings)
    PROVE  Differ(r, findings')
<1> SUFFICES ASSUME NEW f \in DOMAIN findings', NEW g \in DOMAIN findings',
                    findings'[f].repo = r, findings'[g].repo = r,
                    findings'[f].place = findings'[g].place
             PROVE  f = g
  BY DEF Differ
<1>1. f \in DOMAIN findings /\ g \in DOMAIN findings
  BY DEF StaysOf
<1>2. findings'[f] = findings[f] /\ findings'[g] = findings[g]
  BY <1>1 DEF Grows
<1>3. QED BY <1>1, <1>2 DEF Differ

LEMMA KnowsAgain ==
    ASSUME RunsTypeOK, Grows, NEW d, d.pc \in Working,
           SeatTyped(d, DOMAIN runs, DOMAIN findings),
           SeatLeads(d, runs, findings, DOMAIN features),
           StaysOf(d.repo), Knows(d, findings, features, results)
    PROVE  Knows(d, findings', features', results')
<1>1. ASSUME NEW f \in DOMAIN findings', findings'[f].repo = d.repo
      PROVE  findings'[f].place \in DOMAIN d.index
  BY <1>1 DEF StaysOf, Grows, Knows
<1>2. ASSUME d.pc = "result"
      PROVE  features'[d.index[Place(d.alert)]] = RowOf(d.repo, d.alert)
  <2> DEFINE f == d.index[Place(d.alert)]
  <2>1. f \in DOMAIN features /\ findings[f].repo = d.repo
    BY <1>2 DEF SeatLeads, Leads
  <2>2. features'[f] = features[f]
    BY <2>1 DEF StaysOf
  <2>3. QED BY <1>2, <2>2 DEF Knows
<1>3. \A a \in Done(d) :
        Merged(d.all, a) \/ ScoredIn(d.repo, d.run, a, findings', features', results')
  BY ScoredAgain DEF Knows
<1>4. QED BY <1>1, <1>2, <1>3 DEF Knows

(* A repository stays as it was when its rows are not written and no run at it
   is at work that was not, or was elsewhere. *)
LEMMA AloneAgain ==
    ASSUME RunsTypeOK, IndexesLead, Grows, NEW r, AloneAt(r), StaysOf(r),
           \A t, u \in Terminals : IsAt(shell'[t], r) /\ IsAt(shell'[u], r) => t = u,
           (\E t \in Terminals : IsAt(shell'[t], r)) => complete'[r] = NoRun,
           complete'[r] \in {complete[r], NoRun},
           \A t \in Terminals : IsAt(shell'[t], r) /\ shell'[t].pc \in Working =>
                shell'[t] = shell[t]
    PROVE  AloneNext(r)
<1>1. Alone(r, shell, findings, features, results, complete[r])
  BY AloneIs
<1>2. Differ(r, findings')
  BY <1>1, DifferAgain DEF Alone
<1>3. ASSUME NEW t \in Terminals, IsAt(shell'[t], r), shell'[t].pc \in Working
      PROVE  Knows(shell'[t], findings', features', results')
  <2> DEFINE d == shell[t]
  <2>1. shell'[t] = d /\ d.repo = r /\ d.pc \in Working /\ IsAt(d, r)
    BY <1>3 DEF IsAt
  <2>2. Knows(d, findings, features, results)
    BY <1>1, <2>1 DEF Alone
  <2>3. SeatTyped(d, DOMAIN runs, DOMAIN findings)
    BY DEF RunsTypeOK
  <2>4. SeatLeads(d, runs, findings, DOMAIN features)
    BY SeatLeadsIs
  <2> HIDE DEF d
  <2>5. QED BY <2>1, <2>2, <2>3, <2>4, KnowsAgain
<1>4. ASSUME NEW a \in complete'[r].alerts
      PROVE  \/ Merged(complete'[r].alerts, a)
             \/ ScoredIn(r, complete'[r].run, a, findings', features', results')
  <2>1. complete'[r] = complete[r]
    BY <1>4 DEF NoRun
  <2>2. QED BY <1>1, <1>4, <2>1, ScoredAgain DEF Alone
<1>5. Alone(r, shell', findings', features', results', complete'[r])
  BY <1>2, <1>3, <1>4 DEF Alone
<1>6. QED BY <1>5 DEF AloneNext

LEMMA AboutAgain ==
    ASSUME RunsTypeOK, AboutPlace, Grows, UNCHANGED <<features, scores>>
    PROVE  AboutPlace'
<1>1. About(findings, features, scores, runs)
  BY AboutIs
<1>2. /\ \A f \in DOMAIN features : findings'[f] = findings[f]
      /\ \A s \in scores : findings'[s.finding] = findings[s.finding] /\ runs'[s.run] = runs[s.run]
  BY DEF RunsTypeOK, Grows
<1>3. About(findings', features', scores', runs')
  BY <1>1, <1>2 DEF About
<1>4. QED BY <1>3, AboutIs

(* Whatever a run does, only its own repository is concerned. *)
LEMMA StepKeeps ==
    ASSUME RunsTypeOK, RunsInv, Grows, NEW t \in Terminals, together' = together,
           \A u \in Terminals \ {t} : shell'[u] = shell[u],
           shell[t].pc # "idle",
           shell'[t].pc # "idle" => shell'[t].repo = shell[t].repo,
           AboutPlace', SeatLeads(shell'[t], runs', findings', DOMAIN features'),
           \A r \in Repos \ {shell[t].repo} : StaysOf(r) /\ complete'[r] = complete[r],
           shell[t].repo \notin together => AloneNext(shell[t].repo)
    PROVE  RunsInv'
<1>1. IndexesLead'
  <2>1. ASSUME NEW u \in Terminals \ {t}
        PROVE  SeatLeads(shell'[u], runs', findings', DOMAIN features')
    <3> DEFINE d == shell[u]
    <3>1. SeatTyped(d, DOMAIN runs, DOMAIN findings) /\ shell'[u] = d
      BY DEF RunsTypeOK
    <3>2. SeatLeads(d, runs, findings, DOMAIN features)
      BY SeatLeadsIs DEF RunsInv
    <3> HIDE DEF d
    <3>3. QED BY <3>1, <3>2, SeatLeadsAgain
  <2>2. QED BY <2>1, SeatLeadsIs
<1>2. ASSUME NEW r \in Repos \ together, r # shell[t].repo
      PROVE  AloneNext(r)
  <2>1. AloneAt(r) /\ IndexesLead
    BY DEF RunsInv
  <2>2. Alone(r, shell, findings, features, results, complete[r])
    BY <2>1, AloneIs
  <2>3. ~IsAt(shell'[t], r)
    BY <1>2 DEF IsAt
  <2>4. \A u \in Terminals : IsAt(shell'[u], r) => shell'[u] = shell[u]
    BY <2>3
  <2>5. StaysOf(r) /\ complete'[r] = complete[r]
    BY <1>2
  <2>6. \A u, v \in Terminals : IsAt(shell'[u], r) /\ IsAt(shell'[v], r) => u = v
    BY <2>2, <2>4 DEF Alone
  <2>7. (\E u \in Terminals : IsAt(shell'[u], r)) => complete'[r] = NoRun
    BY <2>2, <2>4, <2>5 DEF Alone
  <2>8. complete'[r] \in {complete[r], NoRun}
    BY <2>5
  <2>9. QED BY <2>1, <2>4, <2>5, <2>6, <2>7, <2>8, AloneAgain
<1>3. QED BY <1>1, <1>2, InvAgain

(* A repository that a run is at, and that run alone. *)
LEMMA OwnIs ==
    ASSUME RunsTypeOK, RunsInv, NEW t \in Terminals, shell[t].pc # "idle",
           shell[t].repo \notin together
    PROVE  /\ shell[t].repo \in Repos /\ AloneAt(shell[t].repo)
           /\ complete[shell[t].repo] = NoRun
           /\ \A u \in Terminals : IsAt(shell[u], shell[t].repo) => u = t
           /\ Differ(shell[t].repo, findings)
           /\ shell[t].pc \in Working => Knows(shell[t], findings, features, results)
<1> DEFINE r == shell[t].repo
<1>1. r \in Repos
  BY SeatAt DEF RunsTypeOK
<1>2. AloneAt(r)
  BY <1>1 DEF RunsInv
<1>3. Alone(r, shell, findings, features, results, complete[r])
  BY <1>2, AloneIs
<1>4. IsAt(shell[t], r)
  BY DEF IsAt
<1>5. QED BY <1>1, <1>2, <1>3, <1>4 DEF Alone

(* What holds of it again when the run has moved. *)
LEMMA OwnAgain ==
    ASSUME RunsTypeOK, RunsInv, NEW t \in Terminals, shell[t].pc # "idle",
           shell[t].repo \notin together,
           \A u \in Terminals \ {t} : shell'[u] = shell[u],
           shell'[t].pc # "idle", shell'[t].repo = shell[t].repo, complete' = complete,
           Differ(shell[t].repo, findings'),
           shell'[t].pc \in Working => Knows(shell'[t], findings', features', results')
    PROVE  AloneNext(shell[t].repo)
<1> DEFINE r == shell[t].repo
<1>1. /\ complete'[r] = NoRun
      /\ \A u \in Terminals : IsAt(shell[u], r) => u = t
  BY OwnIs
<1>2. \A u \in Terminals : IsAt(shell'[u], r) => u = t
  BY <1>1
<1>3. NoRun.alerts = {}
  BY DEF NoRun
<1> DEFINE last == complete'[r]
<1>4. Alone(r, shell', findings', features', results', last)
  <2> HIDE DEF r
  <2>1. \A a \in last.alerts : FALSE
    BY <1>1, <1>3
  <2>2. Differ(r, findings')
    BY DEF r
  <2>3. QED BY <1>1, <1>2, <2>1, <2>2 DEF Alone
<1>5. QED BY <1>4 DEF AloneNext

LEMMA QuietStays ==
    ASSUME UNCHANGED <<findings, features, results>>, NEW r
    PROVE  StaysOf(r)
BY DEF StaysOf

(* A run that has ended leaves its repository to no one. *)
LEMMA OwnLeft ==
    ASSUME RunsTypeOK, RunsInv, NEW t \in Terminals, shell[t].pc # "idle",
           shell[t].repo \notin together,
           \A u \in Terminals \ {t} : shell'[u] = shell[u], shell'[t].pc = "idle",
           findings' = findings,
           \A a \in complete'[shell[t].repo].alerts :
                \/ Merged(complete'[shell[t].repo].alerts, a)
                \/ ScoredIn(shell[t].repo, complete'[shell[t].repo].run, a,
                            findings', features', results')
    PROVE  AloneNext(shell[t].repo)
<1> DEFINE r == shell[t].repo
<1>1. Differ(r, findings') /\ \A u \in Terminals : IsAt(shell[u], r) => u = t
  BY OwnIs
<1>2. \A u \in Terminals : ~IsAt(shell'[u], r)
  BY <1>1 DEF IsAt
<1> HIDE DEF r
<1>3. Alone(r, shell', findings', features', results', complete'[r])
  BY <1>1, <1>2 DEF Alone, r
<1>4. QED BY <1>3 DEF AloneNext, r

LEMMA QuietKeeps ==
    ASSUME RunsTypeOK, RunsInv, NEW t \in Terminals, shell[t].pc # "idle",
           UNCHANGED <<findings, features, results, scores, runs, together, complete>>,
           \A u \in Terminals \ {t} : shell'[u] = shell[u],
           shell'[t].pc \notin {"index"} \cup Working,
           shell'[t].pc # "idle" => shell'[t].repo = shell[t].repo
    PROVE  RunsInv'
<1>1. Grows
  BY DEF Grows
<1>2. \A r : StaysOf(r)
  BY QuietStays
<1>3. AboutPlace'
  BY <1>1, AboutAgain DEF RunsInv
<1>4. SeatLeads(shell'[t], runs', findings', DOMAIN features')
  BY DEF SeatLeads
<1>5. ASSUME shell[t].repo \notin together
      PROVE  AloneNext(shell[t].repo)
  <2>1. complete[shell[t].repo] = NoRun /\ Differ(shell[t].repo, findings)
    BY <1>5, OwnIs
  <2>2. CASE shell'[t].pc = "idle"
    <3>1. complete'[shell[t].repo].alerts = {}
      BY <2>1 DEF NoRun
    <3>2. QED BY <1>5, <2>2, <3>1, OwnLeft
  <2>3. CASE shell'[t].pc # "idle"
    BY <1>5, <2>1, <2>3, OwnAgain
  <2>4. QED BY <2>2, <2>3
<1>6. QED BY <1>1, <1>2, <1>3, <1>4, <1>5, StepKeeps

LEMMA BeginKeeps ==
    ASSUME RunsTypeOK, RunsInv, NEW t \in Terminals, NEW r \in Repos, NEW sarif \in SarifFiles,
           Begin(t, r, sarif)
    PROVE  RunsInv'
<1>1. /\ shell[t].pc = "idle" /\ DOMAIN shell = Terminals /\ DOMAIN complete = Repos
      /\ shell' = [shell EXCEPT ![t] =
                    [pc |-> "derive", repo |-> r, alerts |-> sarif,
                     rules |-> {a.rule : a \in sarif}]]
      /\ together' = together \cup {q \in {r} : At(r) # {}}
      /\ complete' = [complete EXCEPT ![r] = NoRun]
      /\ UNCHANGED <<findings, features, results, scores, runs>>
  BY DEF Begin, RunsTypeOK, store
<1>2. /\ shell'[t].pc = "derive" /\ shell'[t].repo = r
      /\ \A u \in Terminals \ {t} : shell'[u] = shell[u]
  BY <1>1
<1>3. Grows
  BY <1>1 DEF Grows
<1>4. \A q : StaysOf(q)
  BY <1>1, QuietStays
<1>5. AboutPlace'
  BY <1>1, <1>3, AboutAgain DEF RunsInv
<1>6. IndexesLead'
  <2>1. ASSUME NEW u \in Terminals
        PROVE  SeatLeads(shell'[u], runs', findings', DOMAIN features')
    <3>1. CASE u = t
      BY <1>2, <3>1 DEF SeatLeads, Working
    <3>2. CASE u # t
      <4> DEFINE d == shell[u]
      <4>1. SeatTyped(d, DOMAIN runs, DOMAIN findings) /\ shell'[u] = d
        BY <1>2, <3>2 DEF RunsTypeOK
      <4>2. SeatLeads(d, runs, findings, DOMAIN features)
        BY SeatLeadsIs DEF RunsInv
      <4> HIDE DEF d
      <4>3. QED BY <1>3, <4>1, <4>2, SeatLeadsAgain
    <3>3. QED BY <3>1, <3>2
  <2>2. QED BY <2>1, SeatLeadsIs
<1>7. ASSUME NEW q \in Repos \ together'
      PROVE  AloneNext(q)
  <2>1. AloneAt(q) /\ IndexesLead
    BY <1>1, <1>7 DEF RunsInv
  <2>2. Alone(q, shell, findings, features, results, complete[q])
    BY <2>1, AloneIs
  <2>3. q = r => \A u \in Terminals : ~IsAt(shell[u], q)
    BY <1>1, <1>7 DEF At, IsAt
  <2>4. /\ IsAt(shell'[t], q) => q = r
        /\ \A u \in Terminals \ {t} : IsAt(shell'[u], q) => IsAt(shell[u], q)
    BY <1>2 DEF IsAt
  <2>5. \A u, v \in Terminals : IsAt(shell'[u], q) /\ IsAt(shell'[v], q) => u = v
    BY <2>2, <2>3, <2>4 DEF Alone
  <2>6. complete'[q] \in {complete[q], NoRun} /\ (q = r => complete'[q] = NoRun)
    BY <1>1
  <2>7. (\E u \in Terminals : IsAt(shell'[u], q)) => complete'[q] = NoRun
    BY <2>2, <2>4, <2>6 DEF Alone
  <2>8. \A u \in Terminals : IsAt(shell'[u], q) /\ shell'[u].pc \in Working =>
            shell'[u] = shell[u]
    BY <1>2 DEF Working
  <2>9. QED BY <1>3, <1>4, <2>1, <2>5, <2>6, <2>7, <2>8, AloneAgain
<1>8. QED BY <1>5, <1>6, <1>7, InvAgain

(* The steps to the fit, and the deaths. *)
LEMMA PreparingKeeps ==
    ASSUME RunsTypeOK, RunsInv, NEW t \in Terminals,
           \/ DeriveLabels(t) \/ Fit(t) \/ Refuse(t) \/ Die(t)
           \/ \E rule \in Rules : RefreshPrior(t, rule)
    PROVE  RunsInv'
<1>1. DOMAIN shell = Terminals
  BY DEF RunsTypeOK
<1>2. shell[t].pc = "derive" => shell[t] \in DeriveSeat
  BY SeatAt DEF RunsTypeOK
<1>3. shell[t].pc = "priors" => shell[t] \in DeriveSeat
  BY SeatAt DEF RunsTypeOK
<1>4. UNCHANGED <<findings, features, results, scores, runs, together, complete>>
  BY DEF DeriveLabels, Fit, Refuse, Die, RefreshPrior, store
<1>5. \A u \in Terminals \ {t} : shell'[u] = shell[u]
  BY <1>1 DEF DeriveLabels, Fit, Refuse, Die, RefreshPrior
<1>6. shell[t].pc # "idle"
  BY DEF DeriveLabels, Fit, Refuse, Die, RefreshPrior
<1>7. /\ shell'[t].pc \in {"priors", "fitted", "idle"}
      /\ shell'[t].pc # "idle" => shell'[t].repo = shell[t].repo
  <2>1. CASE DeriveLabels(t)
    BY <1>1, <1>2, <2>1 DEF DeriveLabels, DeriveSeat
  <2>2. CASE Fit(t)
    BY <1>1, <2>2 DEF Fit
  <2>3. CASE Refuse(t) \/ Die(t)
    BY <1>1, <2>3 DEF Refuse, Die, Idle
  <2>4. CASE \E rule \in Rules : RefreshPrior(t, rule)
    BY <1>1, <1>3, <2>4 DEF RefreshPrior, DeriveSeat
  <2>5. QED BY <2>1, <2>2, <2>3, <2>4
<1>8. shell'[t].pc \notin {"index"} \cup Working
  BY <1>7 DEF Working
<1>9. QED BY <1>4, <1>5, <1>6, <1>7, <1>8, QuietKeeps

(* What a run at an alert knows. *)
LEMMA LeadsAt ==
    ASSUME RunsTypeOK, RunsInv, NEW t \in Terminals
    PROVE  /\ shell[t].pc = "index" =>
                /\ runs[shell[t].run].repo = shell[t].repo /\ shell[t].alerts = shell[t].all
           /\ shell[t].pc \in Working => Leads(shell[t], runs, findings, DOMAIN features)
<1>1. SeatLeads(shell[t], runs, findings, DOMAIN features)
  BY SeatLeadsIs DEF RunsInv
<1>2. QED BY <1>1 DEF SeatLeads

LEMMA RecordKeeps ==
    ASSUME RunsTypeOK, RunsInv, NEW t \in Terminals, RecordRun(t)
    PROVE  RunsInv'
<1>1. UNCHANGED <<findings, features, results, scores, together, complete>>
  BY DEF RecordRun
<1>2. /\ shell[t].pc = "fitted" /\ shell'[t].pc = "index" /\ shell'[t].repo = shell[t].repo
      /\ shell'[t].alerts = shell'[t].all
      /\ runs'[shell'[t].run].repo = shell'[t].repo
      /\ \A u \in Terminals \ {t} : shell'[u] = shell[u]
  <2>1. /\ shell[t].pc = "fitted" /\ \A u \in Terminals \ {t} : shell'[u] = shell[u]
        /\ shell'[t] = [pc |-> "index", repo |-> shell[t].repo, alerts |-> shell[t].alerts,
                        all |-> shell[t].alerts, run |-> Len(runs) + 1]
        /\ runs'[Len(runs) + 1].repo = shell[t].repo
    BY RecordIs
  <2>2. QED BY <2>1
<1>3. Grows
  BY <1>1, RecordIs DEF Grows
<1>4. \A r : StaysOf(r)
  BY <1>1, QuietStays
<1>5. AboutPlace'
  BY <1>1, <1>3, AboutAgain DEF RunsInv
<1>6. SeatLeads(shell'[t], runs', findings', DOMAIN features')
  BY <1>2 DEF SeatLeads, Working
<1>7. ASSUME shell[t].repo \notin together
      PROVE  AloneNext(shell[t].repo)
  <2>1. Differ(shell[t].repo, findings')
    BY <1>1, <1>2, <1>7, OwnIs
  <2>2. shell'[t].pc # "idle" /\ shell'[t].pc \notin Working /\ shell[t].pc # "idle"
    BY <1>2 DEF Working
  <2>3. QED BY <1>1, <1>2, <1>7, <2>1, <2>2, OwnAgain
<1>8. QED BY <1>1, <1>2, <1>3, <1>4, <1>5, <1>6, <1>7, StepKeeps

LEMMA ReadKeeps ==
    ASSUME RunsTypeOK, RunsInv, NEW t \in Terminals, ReadIndex(t)
    PROVE  RunsInv'
<1> DEFINE r == shell[t].repo
           e == shell'[t]
<1>1. UNCHANGED <<findings, features, results, scores, runs, together, complete>>
  BY DEF ReadIndex, store
<1>2. /\ shell[t].pc = "index"
      /\ e.pc = "next" /\ e.repo = r /\ e.run = shell[t].run
      /\ e.alerts = shell[t].alerts /\ e.all = shell[t].all /\ e.index = Existing(r)
      /\ \A u \in Terminals \ {t} : shell'[u] = shell[u]
  <2>1. /\ shell[t].pc = "index" /\ \A u \in Terminals \ {t} : shell'[u] = shell[u]
        /\ \E a \in shell[t].all : e =
                [pc |-> "next", repo |-> r, run |-> shell[t].run,
                 alerts |-> shell[t].alerts, all |-> shell[t].all,
                 alert |-> a, index |-> Existing(r)]
    BY ReadIs
  <2>2. QED BY <2>1
<1>3. Grows
  BY <1>1 DEF Grows
<1>4. \A q : StaysOf(q)
  BY <1>1, QuietStays
<1>5. AboutPlace'
  BY <1>1, <1>3, AboutAgain DEF RunsInv
<1>6. runs[shell[t].run].repo = r /\ shell[t].alerts = shell[t].all
  BY <1>2, LeadsAt
<1>7. /\ \A p \in DOMAIN e.index :
            findings[e.index[p]].repo = r /\ findings[e.index[p]].place = p
      /\ \A f \in DOMAIN findings : findings[f].repo = r => findings[f].place \in DOMAIN e.index
  <2> HIDE DEF r
  <2>1. /\ \A p \in DOMAIN Existing(r) :
            findings[Existing(r)[p]].repo = r /\ findings[Existing(r)[p]].place = p
        /\ \A f \in DOMAIN findings :
            findings[f].repo = r => findings[f].place \in DOMAIN Existing(r)
    BY ExistingTyped
  <2>2. QED BY <1>2, <2>1
<1>8. SeatLeads(e, runs', findings', DOMAIN features')
  BY <1>1, <1>2, <1>6, <1>7 DEF SeatLeads, Leads
<1>9. ASSUME r \notin together
      PROVE  AloneNext(r)
  <2>1. Differ(r, findings')
    BY <1>1, <1>2, <1>9, OwnIs
  <2>2. Done(e) = {}
    BY <1>2, <1>6 DEF Done
  <2>3. Knows(e, findings', features', results')
    BY <1>1, <1>2, <1>7, <2>2 DEF Knows
  <2>4. QED BY <1>1, <1>2, <1>9, <2>1, <2>3, OwnAgain
<1>10. QED BY <1>1, <1>2, <1>3, <1>4, <1>5, <1>8, <1>9, StepKeeps

LEMMA EndKeeps ==
    ASSUME RunsTypeOK, RunsInv, NEW t \in Terminals, End(t)
    PROVE  RunsInv'
<1> DEFINE r == shell[t].repo
           d == shell[t]
<1>1. /\ UNCHANGED <<findings, features, results, scores, runs, together>>
      /\ d.pc = "next" /\ d.alerts = {} /\ DOMAIN shell = Terminals /\ DOMAIN complete = Repos
      /\ shell' = [shell EXCEPT ![t] = Idle]
      /\ complete' = [complete EXCEPT ![r] =
            IF At(r) = {t} THEN [run |-> d.run, alerts |-> d.all] ELSE NoRun]
  BY DEF End, store, RunsTypeOK
<1>2. /\ shell'[t].pc = "idle" /\ \A u \in Terminals \ {t} : shell'[u] = shell[u]
      /\ \A q \in Repos \ {r} : complete'[q] = complete[q]
  BY <1>1 DEF Idle
<1>3. Grows
  BY <1>1 DEF Grows
<1>4. \A q : StaysOf(q)
  BY <1>1, QuietStays
<1>5. AboutPlace'
  BY <1>1, <1>3, AboutAgain DEF RunsInv
<1>6. SeatLeads(shell'[t], runs', findings', DOMAIN features')
  BY <1>2 DEF SeatLeads, Working
<1>7. ASSUME r \notin together
      PROVE  AloneNext(r)
  <2>1. r \in Repos /\ Knows(d, findings, features, results)
    BY <1>1, <1>7, OwnIs DEF Working
  <2>2. At(r) = {t}
    BY <1>1, <1>7, OwnIs DEF At, IsAt
  <2>3. complete'[r] = [run |-> d.run, alerts |-> d.all]
    BY <1>1, <2>1, <2>2
  <2>4. Done(d) = d.all
    BY <1>1 DEF Done
  <2>5. \A a \in complete'[r].alerts :
            \/ Merged(complete'[r].alerts, a)
            \/ ScoredIn(r, complete'[r].run, a, findings', features', results')
    BY <1>1, <2>1, <2>3, <2>4 DEF Knows
  <2>6. QED BY <1>1, <1>2, <1>7, <2>5, OwnLeft
<1>8. QED BY <1>1, <1>2, <1>3, <1>4, <1>5, <1>6, <1>7, StepKeeps

LEMMA PersistKeeps ==
    ASSUME RunsTypeOK, RunsInv, NEW t \in Terminals, NEW a \in Alerts, PersistFinding(t, a)
    PROVE  RunsInv'
<1> DEFINE d == shell[t]
           e == shell'[t]
           r == d.repo
<1>1. UNCHANGED <<features, results, scores, runs, together, complete>>
  BY DEF PersistFinding
<1>2. /\ d.pc = "next" /\ d \in WorkSeat(DOMAIN runs, DOMAIN findings) /\ a \in d.alerts
      /\ \A u \in Terminals \ {t} : shell'[u] = shell[u]
      /\ DOMAIN findings \subseteq DOMAIN findings'
      /\ \A g \in DOMAIN findings : findings'[g] = findings[g]
  BY PersistIs
<1>3. PICK f \in DOMAIN findings' :
        /\ e = [d EXCEPT !.pc = "features", !.alert = a, !.alerts = @ \ {a},
                         !.index = Put(@, Place(a), f)]
        /\ \/ /\ Place(a) \in DOMAIN d.index /\ f = d.index[Place(a)] /\ findings' = findings
           \/ /\ Place(a) \notin DOMAIN d.index
              /\ DOMAIN findings' = DOMAIN findings \cup {f} /\ f \notin DOMAIN findings
              /\ findings'[f] = FindingOf(r, a)
  BY PersistIs
<1>4. /\ e.pc = "features" /\ e.repo = r /\ e.run = d.run /\ e.all = d.all
      /\ e.alert = a /\ e.alerts = d.alerts \ {a} /\ e.index = Put(d.index, Place(a), f)
  BY <1>2, <1>3 DEF WorkSeat
<1>5. Grows
  BY <1>1, <1>2 DEF Grows
<1>6. AboutPlace'
  BY <1>1, <1>5, AboutAgain DEF RunsInv
<1>7. Leads(d, runs, findings, DOMAIN features)
  BY <1>2, LeadsAt DEF Working
<1>8. findings'[f].repo = r /\ findings'[f].place = Place(a)
  BY <1>3, <1>7, RowFields DEF Leads
<1>9. /\ DOMAIN e.index = DOMAIN d.index \cup {Place(a)}
      /\ \A p \in DOMAIN e.index : e.index[p] = IF p = Place(a) THEN f ELSE d.index[p]
  BY <1>4 DEF Put
<1>10. \A p \in DOMAIN e.index :
            findings'[e.index[p]].repo = r /\ findings'[e.index[p]].place = p
  <2>1. \A p \in DOMAIN d.index : d.index[p] \in DOMAIN findings
    BY <1>2, WorkFields
  <2>2. QED BY <1>2, <1>7, <1>8, <1>9, <2>1 DEF Leads
<1>11. SeatLeads(e, runs', findings', DOMAIN features')
  <2>1. a \in d.all
    BY <1>2, <1>7 DEF Leads
  <2>2. Leads(e, runs', findings', DOMAIN features')
    BY <1>1, <1>4, <1>7, <1>9, <1>10, <2>1 DEF Leads
  <2>3. QED BY <1>4, <2>2 DEF SeatLeads
<1>12. \A q \in Repos \ {r} : StaysOf(q) /\ complete'[q] = complete[q]
  <2>1. ASSUME NEW q \in Repos \ {r}, NEW g \in DOMAIN findings', findings'[g].repo = q
        PROVE  g \in DOMAIN findings
    <3>1. g # f
      BY <1>8, <2>1
    <3>2. QED BY <1>3, <3>1
  <2>2. QED BY <1>1, <2>1 DEF StaysOf
<1>13. ASSUME r \notin together
       PROVE  AloneNext(r)
  <2>1. Differ(r, findings) /\ Knows(d, findings, features, results)
    BY <1>2, <1>13, OwnIs DEF Working
  <2>2. Differ(r, findings')
    <3>1. CASE findings' = findings
      BY <2>1, <3>1
    <3>2. CASE /\ Place(a) \notin DOMAIN d.index
               /\ DOMAIN findings' = DOMAIN findings \cup {f} /\ f \notin DOMAIN findings
      <4>1. \A g \in DOMAIN findings : findings[g].repo = r => findings[g].place # Place(a)
        BY <2>1, <3>2 DEF Knows
      <4>2. QED BY <1>2, <1>8, <2>1, <3>2, <4>1 DEF Differ
    <3>3. QED BY <1>3, <3>1, <3>2
  <2>3. \A g \in DOMAIN findings' : findings'[g].repo = r => findings'[g].place \in DOMAIN e.index
    <3>1. ASSUME NEW g \in DOMAIN findings', findings'[g].repo = r
          PROVE  findings'[g].place \in DOMAIN e.index
      <4>1. CASE g \in DOMAIN findings
        BY <1>2, <1>9, <2>1, <3>1, <4>1 DEF Knows
      <4>2. CASE g = f
        BY <1>8, <1>9, <4>2
      <4>3. QED BY <1>3, <4>1, <4>2
    <3>2. QED BY <3>1
  <2>4. ASSUME NEW b \in Done(e)
        PROVE  Merged(e.all, b) \/ ScoredIn(r, e.run, b, findings', features', results')
    <3>1. b \in Done(d)
      BY <1>2, <1>4 DEF Done
    <3>2. Merged(d.all, b) \/ ScoredIn(r, d.run, b, findings, features, results)
      BY <2>1, <3>1 DEF Knows
    <3>3. CASE ScoredIn(r, d.run, b, findings, features, results)
      <4>1. PICK g \in DOMAIN results :
                /\ findings[g].repo = r /\ findings[g].place = Place(b)
                /\ features[g] = RowOf(r, b) /\ results[g] = [run |-> d.run, alert |-> b]
        BY <3>3 DEF ScoredIn
      <4>2. findings'[g] = findings[g]
        BY <1>2 DEF RunsTypeOK
      <4>3. QED BY <1>1, <1>4, <4>1, <4>2 DEF ScoredIn
    <3>4. QED BY <1>4, <3>2, <3>3
  <2>5. Knows(e, findings', features', results')
    BY <1>4, <2>3, <2>4 DEF Knows
  <2>6. d.pc # "idle" /\ e.pc # "idle" /\ complete' = complete
    BY <1>1, <1>2, <1>4
  <2> HIDE DEF d, e, r
  <2>7. r = d.repo /\ e = shell'[t] /\ d = shell[t]
    BY DEF r, e, d
  <2>8. QED BY <1>2, <1>4, <1>13, <2>2, <2>5, <2>6, <2>7, OwnAgain
<1>14. QED BY <1>1, <1>2, <1>4, <1>5, <1>6, <1>11, <1>12, <1>13, StepKeeps

(* Of the alerts of one place that a file holds, none is the finding's alone. *)
LEMMA OneOfPlace ==
    ASSUME NEW alerts, NEW a \in alerts, NEW b \in alerts, a # b, Place(a) = Place(b)
    PROVE  Merged(alerts, a)
BY DEF Merged, SamePlace, Place

LEMMA FeaturesKeep ==
    ASSUME RunsTypeOK, RunsInv, NEW t \in Terminals, WriteFeatures(t)
    PROVE  RunsInv'
<1> DEFINE d == shell[t]
           e == shell'[t]
           r == d.repo
           a == d.alert
           f == Current(t)
<1>1. /\ UNCHANGED <<findings, results, scores, runs, together, complete>>
      /\ d.pc = "features"
  BY DEF WriteFeatures
<1>2. Leads(d, runs, findings, DOMAIN features)
  BY <1>1, LeadsAt DEF Working
<1>3. /\ f = d.index[Place(a)] /\ findings[f].repo = r /\ findings[f].place = Place(a)
      /\ Place(a) \in DOMAIN d.index /\ a \in d.all \ d.alerts
  BY <1>1, <1>2 DEF Leads, Current
<1>4. /\ features' = Put(features, f, RowOf(r, a))
      /\ f \in DOMAIN findings /\ a \in Alerts
      /\ e = [d EXCEPT !.pc = "result"]
      /\ \A u \in Terminals \ {t} : shell'[u] = shell[u]
  BY <1>3, FeaturesTyped
<1>5. d \in WorkSeat(DOMAIN runs, DOMAIN findings)
  BY <1>1, <1>3, WriterIs
<1>6. /\ e.pc = "result" /\ e.repo = r /\ e.run = d.run /\ e.all = d.all
      /\ e.alert = a /\ e.alerts = d.alerts /\ e.index = d.index
  BY <1>4, <1>5 DEF WorkSeat
<1>7. /\ DOMAIN features' = DOMAIN features \cup {f} /\ features'[f] = RowOf(r, a)
      /\ \A g \in DOMAIN features \ {f} : features'[g] = features[g]
  <2> HIDE DEF f, r, a
  <2> QED BY <1>4 DEF Put
<1>8. Grows
  BY <1>1, <1>7 DEF Grows
<1>9. AboutPlace'
  <2>1. About(findings, features, scores, runs)
    BY AboutIs DEF RunsInv
  <2>2. \A g \in DOMAIN features' : \E b \in Alerts :
            features'[g] = RowOf(findings[g].repo, b) /\ findings[g].place = Place(b)
    <3>1. ASSUME NEW g \in DOMAIN features'
          PROVE  \E b \in Alerts :
                    features'[g] = RowOf(findings[g].repo, b) /\ findings[g].place = Place(b)
      <4>1. CASE g = f
        BY <1>3, <1>4, <1>7, <4>1
      <4>2. CASE g # f
        BY <1>7, <2>1, <4>2 DEF About
      <4>3. QED BY <4>1, <4>2
    <3>2. QED BY <3>1
  <2>3. About(findings', features', scores', runs')
    BY <1>1, <2>1, <2>2 DEF About
  <2>4. QED BY <2>3, AboutIs
<1>10. SeatLeads(e, runs', findings', DOMAIN features')
  <2>1. Leads(e, runs', findings', DOMAIN features')
    BY <1>1, <1>2, <1>3, <1>6, <1>7 DEF Leads
  <2>2. QED BY <1>6, <2>1 DEF SeatLeads
<1>11. \A q \in Repos \ {r} : StaysOf(q) /\ complete'[q] = complete[q]
  BY <1>1, <1>3, <1>7 DEF StaysOf
<1>12. ASSUME r \notin together
       PROVE  AloneNext(r)
  <2>1. Differ(r, findings) /\ Knows(d, findings, features, results)
    BY <1>1, <1>12, OwnIs DEF Working
  <2>2. ASSUME NEW b \in Done(e)
        PROVE  Merged(e.all, b) \/ ScoredIn(r, e.run, b, findings', features', results')
    <3>1. b \in Done(d) /\ b \in d.all /\ b # a
      BY <1>1, <1>6 DEF Done
    <3>2. Merged(d.all, b) \/ ScoredIn(r, d.run, b, findings, features, results)
      BY <2>1, <3>1 DEF Knows
    <3>3. CASE ScoredIn(r, d.run, b, findings, features, results)
      <4>1. PICK g \in DOMAIN results :
                /\ findings[g].repo = r /\ findings[g].place = Place(b)
                /\ features[g] = RowOf(r, b) /\ results[g] = [run |-> d.run, alert |-> b]
        BY <3>3 DEF ScoredIn
      <4>2. CASE g = f
        <5>1. Place(a) = Place(b)
          BY <1>3, <4>1, <4>2
        <5>2. Merged(d.all, b)
          BY <1>3, <3>1, <5>1, OneOfPlace
        <5>3. QED BY <1>6, <5>2
      <4>3. CASE g # f
        <5>1. g \in DOMAIN features
          BY DEF RunsTypeOK
        <5>2. features'[g] = features[g]
          BY <1>7, <4>3, <5>1
        <5>3. QED BY <1>1, <1>6, <4>1, <5>2 DEF ScoredIn
      <4>4. QED BY <4>2, <4>3
    <3>4. QED BY <1>6, <3>2, <3>3
  <2>3. Knows(e, findings', features', results')
    BY <1>1, <1>3, <1>6, <1>7, <2>1, <2>2 DEF Knows
  <2>4. d.pc # "idle" /\ e.pc # "idle" /\ Differ(r, findings')
    BY <1>1, <1>6, <2>1
  <2> HIDE DEF d, e, r, f, a
  <2>5. r = d.repo /\ e = shell'[t] /\ d = shell[t]
    BY DEF r, e, d
  <2>6. QED BY <1>1, <1>4, <1>6, <1>12, <2>3, <2>4, <2>5, OwnAgain
<1>13. QED BY <1>1, <1>4, <1>6, <1>8, <1>9, <1>10, <1>11, <1>12, StepKeeps

LEMMA ResultKeeps ==
    ASSUME RunsTypeOK, RunsInv, NEW t \in Terminals, WriteResult(t)
    PROVE  RunsInv'
<1> DEFINE d == shell[t]
           e == shell'[t]
           r == d.repo
           a == d.alert
           f == Current(t)
           score == [finding |-> f, run |-> d.run, alert |-> a]
<1>1. /\ UNCHANGED <<findings, features, runs, together, complete>>
      /\ d.pc = "result" /\ scores' = scores \cup {score}
  BY DEF WriteResult
<1>2. Leads(d, runs, findings, DOMAIN features)
  BY <1>1, LeadsAt DEF Working
<1>3. /\ f = d.index[Place(a)] /\ findings[f].repo = r /\ findings[f].place = Place(a)
      /\ Place(a) \in DOMAIN d.index /\ a \in d.all \ d.alerts /\ f \in DOMAIN features
  BY <1>1, <1>2 DEF Leads, Current
<1>4. /\ results' = Put(results, f, [run |-> d.run, alert |-> a])
      /\ e = [d EXCEPT !.pc = "next"]
      /\ \A u \in Terminals \ {t} : shell'[u] = shell[u]
  BY <1>3, ResultTyped
<1>5. d \in WorkSeat(DOMAIN runs, DOMAIN findings)
  BY <1>1, <1>3, WriterIs
<1>6. /\ e.pc = "next" /\ e.repo = r /\ e.run = d.run /\ e.all = d.all
      /\ e.alert = a /\ e.alerts = d.alerts /\ e.index = d.index
  BY <1>4, <1>5 DEF WorkSeat
<1>7. /\ DOMAIN results' = DOMAIN results \cup {f}
      /\ results'[f] = [run |-> d.run, alert |-> a]
      /\ \A g \in DOMAIN results \ {f} : results'[g] = results[g]
  <2> HIDE DEF f, d, a
  <2> QED BY <1>4 DEF Put
<1>8. Grows
  BY <1>1 DEF Grows
<1>9. AboutPlace'
  <2>1. About(findings, features, scores, runs)
    BY AboutIs DEF RunsInv
  <2>2. /\ score.run = d.run /\ score.finding = f /\ score.alert = a
        /\ runs[d.run].repo = r
    BY <1>2 DEF Leads
  <2> HIDE DEF score, f, d, r, a
  <2>3. \A s \in scores' :
            /\ runs[s.run].repo = findings[s.finding].repo
            /\ findings[s.finding].place = Place(s.alert)
    <3>1. ASSUME NEW s \in scores'
          PROVE  /\ runs[s.run].repo = findings[s.finding].repo
                 /\ findings[s.finding].place = Place(s.alert)
      <4>1. CASE s = score
        BY <1>3, <2>2, <4>1
      <4>2. CASE s \in scores
        BY <2>1, <4>2 DEF About
      <4>3. QED BY <1>1, <4>1, <4>2
    <3>2. QED BY <3>1
  <2>4. About(findings', features', scores', runs')
    BY <1>1, <2>1, <2>3 DEF About
  <2>5. QED BY <2>4, AboutIs
<1>10. SeatLeads(e, runs', findings', DOMAIN features')
  <2>1. Leads(e, runs', findings', DOMAIN features')
    BY <1>1, <1>2, <1>6 DEF Leads
  <2>2. QED BY <1>6, <2>1 DEF SeatLeads
<1>11. \A q \in Repos \ {r} : StaysOf(q) /\ complete'[q] = complete[q]
  BY <1>1, <1>3, <1>7 DEF StaysOf
<1>12. ASSUME r \notin together
       PROVE  AloneNext(r)
  <2>1. Differ(r, findings) /\ Knows(d, findings, features, results)
    BY <1>1, <1>12, OwnIs DEF Working
  <2>2. features[f] = RowOf(r, a)
    BY <1>1, <1>3, <2>1 DEF Knows
  <2>3. ScoredIn(r, d.run, a, findings, features, results')
    BY <1>3, <1>7, <2>2 DEF ScoredIn
  <2>4. ASSUME NEW b \in Done(e)
        PROVE  Merged(e.all, b) \/ ScoredIn(r, e.run, b, findings', features', results')
    <3>1. CASE b = a
      BY <1>1, <1>6, <2>3, <3>1
    <3>2. CASE b # a
      <4>1. b \in Done(d) /\ b \in d.all
        BY <1>1, <1>6, <3>2 DEF Done
      <4>2. Merged(d.all, b) \/ ScoredIn(r, d.run, b, findings, features, results)
        BY <2>1, <4>1 DEF Knows
      <4>3. CASE ScoredIn(r, d.run, b, findings, features, results)
        <5>1. PICK g \in DOMAIN results :
                /\ findings[g].repo = r /\ findings[g].place = Place(b)
                /\ features[g] = RowOf(r, b) /\ results[g] = [run |-> d.run, alert |-> b]
          BY <4>3 DEF ScoredIn
        <5>2. CASE g = f
          <6>1. Place(a) = Place(b)
            BY <1>3, <5>1, <5>2
          <6>2. Merged(d.all, b)
            BY <1>3, <3>2, <4>1, <6>1, OneOfPlace
          <6>3. QED BY <1>6, <6>2
        <5>3. CASE g # f
          <6>1. g \in DOMAIN results' /\ results'[g] = results[g]
            BY <1>7, <5>3
          <6>2. QED BY <1>1, <1>6, <5>1, <6>1 DEF ScoredIn
        <5>4. QED BY <5>2, <5>3
      <4>4. QED BY <1>6, <4>2, <4>3
    <3>3. QED BY <3>1, <3>2
  <2>5. Knows(e, findings', features', results')
    BY <1>1, <1>6, <2>1, <2>4 DEF Knows
  <2>6. d.pc # "idle" /\ e.pc # "idle" /\ Differ(r, findings')
    BY <1>1, <1>6, <2>1
  <2> HIDE DEF d, e, r, f, a
  <2>7. r = d.repo /\ e = shell'[t] /\ d = shell[t]
    BY DEF r, e, d
  <2>8. QED BY <1>1, <1>4, <1>6, <1>12, <2>5, <2>6, <2>7, OwnAgain
<1>13. QED BY <1>1, <1>4, <1>6, <1>8, <1>9, <1>10, <1>11, <1>12, StepKeeps

(* Verdicts, judgements, plans and packets are none of triage's business. *)
LEMMA UntouchedKeeps ==
    ASSUME RunsInv,
           UNCHANGED <<findings, features, results, scores, runs, shell, together, complete>>
    PROVE  RunsInv'
<1>1. AboutPlace'
  BY AboutIs DEF RunsInv
<1>2. IndexesLead'
  BY SeatLeadsIs DEF RunsInv
<1>3. ASSUME NEW r \in Repos \ together'
      PROVE  AloneNext(r)
  BY <1>3, AloneIs DEF RunsInv, AloneNext
<1>4. QED BY <1>1, <1>2, <1>3, InvAgain

LEMMA RunsInvAtFirst ==
    ASSUME RunsInit
    PROVE  RunsInv
<1> USE KnownTyped
<1>1. /\ \A i \in DOMAIN Known :
            /\ findings[i] = FindingOf(Known[i].repo, Known[i].alert)
            /\ features[i] = RowOf(Known[i].repo, Known[i].alert)
            /\ runs[i].repo = Known[i].repo
      /\ DOMAIN findings = DOMAIN Known /\ DOMAIN features = DOMAIN Known
      /\ scores = {[finding |-> i, run |-> i, alert |-> Known[i].alert] : i \in DOMAIN Known}
      /\ shell = [t \in Terminals |-> Idle]
      /\ complete = [r \in Repos |-> NoRun]
  BY DEF RunsInit, RunOf
<1>2. \A i \in DOMAIN Known :
        /\ findings[i].repo = Known[i].repo /\ findings[i].place = Place(Known[i].alert)
        /\ features[i] = RowOf(findings[i].repo, Known[i].alert)
  BY <1>1, RowFields
<1>3. AboutPlace
  BY <1>1, <1>2 DEF AboutPlace
<1>4. IndexesLead
  BY <1>1 DEF IndexesLead, Idle, Working
<1>5. ASSUME NEW r \in Repos
      PROVE  AloneAt(r)
  <2>1. At(r) = {} /\ complete[r].alerts = {}
    BY <1>1 DEF At, Idle, NoRun
  <2>2. ASSUME NEW f \in DOMAIN findings, NEW g \in DOMAIN findings,
               findings[f].repo = r, findings[g].repo = r,
               findings[f].place = findings[g].place, f # g
        PROVE  FALSE
    <3>1. /\ Known[f].repo = Known[g].repo
          /\ Place(Known[f].alert) = Place(Known[g].alert)
      BY <1>1, <1>2, <2>2
    <3>2. /\ Known[f].alert.place = Known[g].alert.place
          /\ Known[f].alert.title = Known[g].alert.title
      BY <3>1 DEF Place
    <3>3. QED BY <1>1, <2>2, <3>1, <3>2, AlertsAssumption
  <2>3. DifferentPlaces(r)
    BY <2>2 DEF DifferentPlaces
  <2>4. QED BY <2>1, <2>3 DEF AloneAt
<1>6. QED BY <1>3, <1>4, <1>5 DEF RunsInv

LEMMA RunsKeep ==
    ASSUME RunsTypeOK, RunsInv, [RunsNext]_runsVars
    PROVE  RunsTypeOK' /\ RunsInv'
<1>1. ASSUME NEW t \in Terminals, NEW r \in Repos, NEW sarif \in SarifFiles, Begin(t, r, sarif)
      PROVE  RunsTypeOK' /\ RunsInv'
  BY <1>1, BeginTyped, BeginKeeps
<1>2. ASSUME NEW t \in Terminals, Triage(t)
      PROVE  RunsTypeOK' /\ RunsInv'
  <2>1. CASE DeriveLabels(t) \/ Fit(t) \/ Refuse(t)
    BY <2>1, DeriveTyped, FitTyped, LeavingTyped, PreparingKeeps
  <2>2. CASE \E rule \in Rules : RefreshPrior(t, rule)
    BY <2>2, PriorsTyped, PreparingKeeps
  <2>3. CASE RecordRun(t)
    BY <2>3, RecordTyped, RecordKeeps
  <2>4. CASE ReadIndex(t)
    BY <2>4, ReadTyped, ReadKeeps
  <2>5. ASSUME NEW a \in Alerts, PersistFinding(t, a)
        PROVE  RunsTypeOK' /\ RunsInv'
    BY <2>5, PersistTyped, PersistKeeps
  <2>6. CASE WriteFeatures(t)
    <3>1. shell[t].pc = "features"
      BY <2>6 DEF WriteFeatures
    <3>2. Place(shell[t].alert) \in DOMAIN shell[t].index
      BY <3>1, LeadsAt DEF Leads, Working
    <3>3. QED BY <2>6, <3>2, FeaturesTyped, FeaturesKeep
  <2>7. CASE WriteResult(t)
    <3>1. shell[t].pc = "result"
      BY <2>7 DEF WriteResult
    <3>2. Place(shell[t].alert) \in DOMAIN shell[t].index /\ Current(t) \in DOMAIN features
      BY <3>1, LeadsAt DEF Leads, Working, Current
    <3>3. QED BY <2>7, <3>2, ResultTyped, ResultKeeps
  <2>8. CASE End(t)
    BY <2>8, LeavingTyped, EndKeeps
  <2>9. QED BY <1>2, <2>1, <2>2, <2>3, <2>4, <2>5, <2>6, <2>7, <2>8 DEF Triage
<1>3. ASSUME NEW t \in Terminals, Die(t)
      PROVE  RunsTypeOK' /\ RunsInv'
  BY <1>3, LeavingTyped, PreparingKeeps
<1>4. ASSUME NEW f \in DOMAIN findings, Rule(f) \/ Judge(f)
      PROVE  RunsTypeOK' /\ RunsInv'
  <2>1. RunsTypeOK'
    BY <1>4, RuleTyped, JudgeTyped
  <2>2. RunsInv'
    BY <1>4, UntouchedKeeps DEF Rule, Judge
  <2>3. QED BY <2>1, <2>2
<1>5. CASE Draw \/ Render
  <2>1. RunsInv'
    BY <1>5, UntouchedKeeps DEF Draw, Render, store
  <2>2. QED BY <1>5, <2>1, PapersTyped
<1>6. CASE UNCHANGED runsVars
  <2>1. UNCHANGED <<findings, outcomes, features, labelRows, assessed, runs, scores, results,
                    shell, packet, together, complete>>
    BY <1>6 DEF runsVars, store, papers
  <2>2. ResultType' = ResultType
    BY <2>1 DEF ResultType
  <2>3. RunsTypeOK'
    BY <2>1, <2>2 DEF RunsTypeOK
  <2>4. QED BY <2>1, <2>3, UntouchedKeeps
<1>7. QED BY <1>1, <1>2, <1>3, <1>4, <1>5, <1>6 DEF RunsNext

LEMMA RunsAlways == RunsSpec => [](RunsTypeOK /\ RunsInv)
<1>1. RunsInit => RunsTypeOK /\ RunsInv
  BY RunsTypedAtFirst, RunsInvAtFirst
<1>2. RunsTypeOK /\ RunsInv /\ [RunsNext]_runsVars => (RunsTypeOK /\ RunsInv)'
  BY RunsKeep
<1>3. QED BY <1>1, <1>2, PTL DEF RunsSpec

(* The rows that triage_repo, verdicts and judgements leave, and what each run
   has in memory, stay what they should be. *)
THEOREM TriageRunsTyped == RunsSpec => []RunsTypeOK
BY RunsAlways, PTL

(* After a run of triage that was alone with its repository each alert of the
   file is one finding, with its own features and the score of that run:
   _persist_finding, upsert_triage_features and upsert_triage_result, whatever
   was scored, labelled, edited or cut short before. *)
THEOREM FilesAreScored == RunsSpec => []ScoredAsScanned
<1>1. ASSUME RunsTypeOK, RunsInv PROVE ScoredAsScanned
  <2> SUFFICES ASSUME NEW r \in Repos \ together, NEW a \in complete[r].alerts,
                      ~Merged(complete[r].alerts, a)
               PROVE  \E f \in DOMAIN features :
                        /\ features[f] = RowOf(r, a)
                        /\ results[f] = [run |-> complete[r].run, alert |-> a]
                        /\ \A g \in DOMAIN findings \ {f} :
                            features[f].repo = findings[g].repo =>
                                findings[g].place # findings[f].place
    BY DEF ScoredAsScanned
  <2>1. AloneAt(r)
    BY <1>1 DEF RunsInv
  <2>2. Scored(r, complete[r].run, a) /\ DifferentPlaces(r)
    BY <2>1 DEF AloneAt
  <2>3. PICK f \in DOMAIN results :
            /\ findings[f].repo = r /\ findings[f].place = Place(a)
            /\ features[f] = RowOf(r, a)
            /\ results[f] = [run |-> complete[r].run, alert |-> a]
    BY <2>2 DEF Scored
  <2>4. f \in DOMAIN features /\ f \in DOMAIN findings
    BY <1>1 DEF RunsTypeOK
  <2>5. features[f].repo = r
    BY <2>3, RowFields
  <2>6. QED BY <2>2, <2>3, <2>4, <2>5 DEF DifferentPlaces
<1>2. RunsTypeOK /\ RunsInv => ScoredAsScanned
  BY <1>1
<1>3. QED BY <1>2, RunsAlways, PTL

-----------------------------------------------------------------------------
(* What trains, and what measures *)

Sourced(L) == \A l \in L : l.source \in {"manual", "derived_review", "derived_falsify"}

(* Some label of an identity is of the best source. *)
LEMMA BestIs ==
    ASSUME NEW L, Sourced(L), NEW S, S \subseteq L, S # {}
    PROVE  \E l \in S : \A m \in S : Priority(l.source) <= Priority(m.source)
<1>1. \A l \in S : /\ Priority(l.source) \in {0, 1, 2}
                   /\ Priority(l.source) = 0 <=> l.source = "manual"
                   /\ Priority(l.source) = 1 <=> l.source = "derived_review"
  BY DEF Priority, Sourced
<1>2. CASE \E l \in S : Priority(l.source) = 0
  BY <1>1, <1>2
<1>3. CASE ~(\E l \in S : Priority(l.source) = 0) /\ \E l \in S : Priority(l.source) = 1
  BY <1>1, <1>3
<1>4. CASE ~(\E l \in S : Priority(l.source) = 0) /\ ~(\E l \in S : Priority(l.source) = 1)
  BY <1>1, <1>4
<1>5. QED BY <1>2, <1>3, <1>4

(* family_distinct_labels leaves one label of each identity. *)
LEMMA DistinctIs ==
    ASSUME NEW L, Sourced(L)
    PROVE  /\ FamilyDistinct(L) \subseteq L
           /\ \A l, m \in FamilyDistinct(L) : Identity(l) = Identity(m) => l = m
<1> DEFINE Of(i) == {k \in L : Identity(k) = i}
           best(i) == CHOOSE l \in Of(i) : \A m \in Of(i) : Priority(l.source) <= Priority(m.source)
           ids == {Identity(k) : k \in L}
<1>1. FamilyDistinct(L) = {best(i) : i \in ids}
  BY DEF FamilyDistinct
<1>2. ASSUME NEW i \in ids
      PROVE  best(i) \in L /\ Identity(best(i)) = i
  <2>1. Of(i) \subseteq L /\ Of(i) # {}
    OBVIOUS
  <2>2. \E l \in Of(i) : \A m \in Of(i) : Priority(l.source) <= Priority(m.source)
    <3> HIDE DEF Of
    <3> QED BY <2>1, BestIs
  <2>3. best(i) \in Of(i)
    <3> HIDE DEF Of
    <3> QED BY <2>2
  <2> HIDE DEF best
  <2>4. QED BY <2>3
<1> HIDE DEF best, ids
<1>3. QED BY <1>1, <1>2

(* ... and so does load_real_examples. *)
LEMMA ExamplesDistinct ==
    ASSUME NEW L, Sourced(L), NEW x \in Examples(L), NEW y \in Examples(L), x # y
    PROVE  Identity(x) # Identity(y)
<1> DEFINE row(l) == [repo |-> l.repo, rule |-> l.rule, print |-> l.print,
                      actionable |-> l.actionable, human |-> l.source \in HumanSources]
<1>1. PICK l \in FamilyDistinct(L) : x = row(l)
  BY DEF Examples
<1>2. PICK m \in FamilyDistinct(L) : y = row(m)
  BY DEF Examples
<1>3. l # m
  BY <1>1, <1>2
<1>4. Identity(x) = Identity(l) /\ Identity(y) = Identity(m)
  BY <1>1, <1>2 DEF Identity
<1>5. QED BY <1>3, <1>4, DistinctIs

(* Only a fit makes a corpus. *)
LEMMA FittedBefore ==
    ASSUME RunsTypeOK, RunsInv, [RunsNext]_runsVars, NEW u \in Terminals, ~Fit(u),
           shell'[u].pc = "fitted"
    PROVE  shell'[u] = shell[u]
<1> SUFFICES ASSUME shell'[u] # shell[u] PROVE FALSE
  OBVIOUS
<1>1. DOMAIN shell = Terminals
  BY DEF RunsTypeOK
<1>2. PICK t \in Terminals :
        (\E r \in Repos, sarif \in SarifFiles : Begin(t, r, sarif)) \/ Triage(t) \/ Die(t)
  <2>1. RunsNext \/ UNCHANGED runsVars
    OBVIOUS
  <2>2. \/ \E t \in Terminals :
            (\E r \in Repos, sarif \in SarifFiles : Begin(t, r, sarif)) \/ Triage(t) \/ Die(t)
        \/ shell' = shell
    BY <2>1 DEF RunsNext, Rule, Judge, Draw, Render, runsVars
  <2>3. QED BY <2>2
<1>3. ASSUME NEW d, shell' = [shell EXCEPT ![t] = d], d.pc # "fitted"
      PROVE  FALSE
  BY <1>1, <1>3
<1>4. ASSUME NEW r, NEW sarif, Begin(t, r, sarif) PROVE FALSE
  BY <1>1, <1>4 DEF Begin
<1>5. CASE Refuse(t) \/ End(t) \/ Die(t)
  BY <1>1, <1>5 DEF Refuse, End, Die, Idle
<1>6. CASE DeriveLabels(t)
  <2>1. shell[t] \in DeriveSeat
    BY <1>6, SeatAt DEF RunsTypeOK, DeriveLabels
  <2>2. QED BY <1>1, <1>6, <2>1 DEF DeriveLabels, DeriveSeat
<1>7. CASE \E rule \in Rules : RefreshPrior(t, rule)
  <2>1. shell[t] \in DeriveSeat
    BY <1>7, SeatAt DEF RunsTypeOK, RefreshPrior
  <2>2. QED BY <1>1, <1>7, <2>1 DEF RefreshPrior, DeriveSeat
<1>8. CASE RecordRun(t)
  BY <1>1, <1>8 DEF RecordRun
<1>9. CASE ReadIndex(t)
  BY <1>1, <1>9 DEF ReadIndex
<1>10. ASSUME NEW a \in Alerts, PersistFinding(t, a) PROVE FALSE
  <2>1. /\ shell[t] \in WorkSeat(DOMAIN runs, DOMAIN findings)
        /\ \A v \in Terminals \ {t} : shell'[v] = shell[v]
        /\ \E f : shell'[t] = [shell[t] EXCEPT !.pc = "features", !.alert = a,
                                !.alerts = @ \ {a}, !.index = Put(@, Place(a), f)]
    BY <1>10, PersistIs
  <2>2. shell'[t].pc = "features"
    BY <2>1 DEF WorkSeat
  <2>3. QED BY <2>1, <2>2
<1>11. CASE WriteFeatures(t) \/ WriteResult(t)
  <2>1. shell[t] \in WorkSeat(DOMAIN runs, DOMAIN findings)
    BY <1>11, SeatAt DEF RunsTypeOK, WriteFeatures, WriteResult, Working
  <2>2. QED BY <1>1, <1>11, <2>1 DEF WriteFeatures, WriteResult, WorkSeat
<1>12. CASE Fit(t)
  BY <1>1, <1>12 DEF Fit
<1>13. QED
  BY <1>2, <1>4, <1>5, <1>6, <1>7, <1>8, <1>9, <1>10, <1>11, <1>12 DEF Triage

LEMMA TrainsOnceKeeps ==
    ASSUME RunsTypeOK, RunsInv, TrainsOnce, [RunsNext]_runsVars
    PROVE  TrainsOnce'
<1> SUFFICES ASSUME NEW t \in Terminals, shell'[t].pc = "fitted",
                    NEW x \in shell'[t].corpus, NEW y \in shell'[t].corpus, x # y
             PROVE  Identity(x) # Identity(y)
  BY DEF TrainsOnce, Identity
<1>1. CASE Fit(t)
  <2>1. shell'[t].corpus = Examples(Corpus)
    BY <1>1 DEF Fit, RunsTypeOK
  <2>2. Sourced(Corpus)
    BY LabelsTyped DEF Sourced, Corpus
  <2>3. QED BY <2>1, <2>2, ExamplesDistinct
<1>2. CASE ~Fit(t)
  BY <1>2, FittedBefore DEF TrainsOnce
<1>3. QED BY <1>1, <1>2

LEMMA MeetsOne ==
    ASSUME RunsTypeOK, RunsInv, OneNamePerRule
    PROVE  MeetsOneScore
<1> SUFFICES ASSUME NEW l \in Labels, NEW i \in DOMAIN runs, runs[i].repo \notin together,
                    NEW met, met = {s \in scores : s.run = i /\ s.finding \in Joined(l)},
                    ~(Cardinality(met) <= 1)
             PROVE  \E s \in met : Merged({q.alert : q \in met}, s.alert)
  BY DEF MeetsOneScore
<1>1. PICK s \in met, q \in met : s # q
  <2> SUFFICES ASSUME \A s, q \in met : s = q PROVE FALSE
    OBVIOUS
  <2>1. CASE met = {}
    <3>1. Cardinality({}) = 0
      BY FS_EmptySet
    <3>2. QED BY <2>1, <3>1
  <2>2. CASE met # {}
    <3>1. PICK s \in met : met = {s}
      BY <2>2
    <3>2. Cardinality(met) = 1
      BY <3>1, FS_Singleton
    <3>3. QED BY <3>2
  <2>3. QED BY <2>1, <2>2
<1>2. /\ s \in [finding : DOMAIN features, run : DOMAIN runs, alert : Alerts]
      /\ q \in [finding : DOMAIN features, run : DOMAIN runs, alert : Alerts]
      /\ s.run = i /\ q.run = i /\ s.finding \in Joined(l) /\ q.finding \in Joined(l)
      /\ s \in scores /\ q \in scores
  BY <1>1 DEF RunsTypeOK
<1> DEFINE f == s.finding
           g == q.finding
           r == runs[i].repo
<1>3. About(findings, features, scores, runs)
  BY AboutIs DEF RunsInv
<1>4. /\ findings[f].repo = r /\ findings[f].place = Place(s.alert)
      /\ findings[g].repo = r /\ findings[g].place = Place(q.alert)
  BY <1>2, <1>3 DEF About
<1>5. /\ f \in DOMAIN features /\ g \in DOMAIN features
      /\ f \in DOMAIN findings /\ g \in DOMAIN findings
  BY <1>2 DEF RunsTypeOK
<1>6. PICK a \in Alerts : features[f] = RowOf(findings[f].repo, a) /\ findings[f].place = Place(a)
  BY <1>3, <1>5 DEF About
<1>7. PICK b \in Alerts : features[g] = RowOf(findings[g].repo, b) /\ findings[g].place = Place(b)
  BY <1>3, <1>5 DEF About
<1>8. Fingerprint(a) = Fingerprint(b)
  <2>1. features[f].print = l.print /\ features[g].print = l.print
    BY <1>2 DEF Joined
  <2>2. features[f].print = Fingerprint(a) /\ features[g].print = Fingerprint(b)
    BY <1>6, <1>7, RowFields
  <2>3. QED BY <2>1, <2>2
<1>9. Place(a) = Place(b)
  <2>1. a.rule = b.rule /\ a.place = b.place
    BY <1>8 DEF Fingerprint
  <2>2. a.title = b.title
    BY <2>1 DEF OneNamePerRule
  <2>3. QED BY <2>1, <2>2 DEF Place
<1>10. f = g
  <2>1. r \in Repos
    BY <1>4, <1>5, RowTypes
  <2>2. DifferentPlaces(r)
    BY <2>1 DEF RunsInv, AloneAt
  <2>3. QED BY <1>4, <1>5, <1>6, <1>7, <1>9, <2>2 DEF DifferentPlaces
<1>11. s.alert # q.alert
  BY <1>1, <1>2, <1>10
<1>12. Place(s.alert) = Place(q.alert)
  BY <1>4, <1>10
<1> DEFINE alerts == {p.alert : p \in met}
<1>13. s.alert \in alerts /\ q.alert \in alerts
  OBVIOUS
<1> HIDE DEF alerts
<1>14. Merged(alerts, s.alert)
  BY <1>11, <1>12, <1>13, OneOfPlace
<1>15. QED BY <1>1, <1>14 DEF alerts

(* A class of fewer than two rows cannot be stratified, and a quarter of more
   is at least one row. *)
LEMMA StratifiedIs ==
    ASSUME NEW people, IsFiniteSet(people), NEW test \in Stratified(people)
    PROVE  test \subseteq people /\ test # {}
<1> DEFINE n == Cardinality(people)
           actual == {r \in people : r.actionable = TRUE}
           few == \E a \in BOOLEAN : Cardinality({r \in people : r.actionable = a}) < 2
<1>1. ~few /\ test \in kSubset(Quarter(n), people)
  BY DEF Stratified
<1>2. test \in SUBSET people /\ Cardinality(test) = Quarter(n)
  BY <1>1 DEF kSubset
<1>3. n \in Nat /\ n # 0
  <2>1. n \in Nat
    BY FS_CardinalityType
  <2>2. ~(Cardinality(actual) < 2)
    BY <1>1
  <2>3. people # {}
    <3> SUFFICES ASSUME people = {} PROVE FALSE
      OBVIOUS
    <3>1. actual = {}
      OBVIOUS
    <3>2. Cardinality(actual) = 0
      BY <3>1, FS_EmptySet
    <3>3. QED BY <2>2, <3>2
  <2>4. QED BY <2>1, <2>3, FS_EmptySet
<1>4. Quarter(n) # 0
  <2> HIDE DEF n
  <2> QED BY <1>3 DEF Quarter
<1>5. test # {}
  BY <1>2, <1>4, FS_EmptySet
<1>6. QED BY <1>2, <1>5

(* A grouped split holds whole families out. *)
LEMMA GroupedIs ==
    ASSUME NEW people, NEW test \in Grouped(people)
    PROVE  /\ test \subseteq people /\ test # {} /\ Both(test) /\ Both(people \ test)
           /\ \A r \in test, q \in people \ test : Family[q.repo] # Family[r.repo]
<1> DEFINE families == {Family[r.repo] : r \in people}
           heldOf(chosen) == {r \in people : Family[r.repo] \in chosen}
           sizes == kSubset(Quarter(Cardinality(families)), families)
<1>1. /\ test \in {heldOf(chosen) : chosen \in sizes}
      /\ Both(test) /\ Both(people \ test)
  BY DEF Grouped
<1>2. PICK chosen \in sizes : test = heldOf(chosen)
  BY <1>1
<1>3. test # {}
  BY <1>1 DEF Both
<1>4. QED BY <1>1, <1>2, <1>3

LEMMA SplitHonest ==
    ASSUME NEW rows, IsFiniteSet(rows), NEW split \in Splits(rows)
    PROVE  SplitIsHonest(rows, split)
<1> DEFINE people == {r \in rows : r.human}
<1>1. IsFiniteSet(people) /\ people \subseteq rows /\ \A r \in people : r.human
  BY FS_Subset
<1>2. \/ split.basis = "synthetic" /\ split.strategy = "synthetic_row_random"
      \/ /\ split.basis = "real" /\ split.strategy = "engagement_grouped"
         /\ split.test \in Grouped(people)
      \/ /\ split.basis = "real" /\ split.strategy = "real_row_random"
         /\ split.test \in Stratified(people)
  BY SplitIs
<1>3. CASE split.basis = "synthetic" /\ split.strategy = "synthetic_row_random"
  BY <1>3 DEF SplitIsHonest
<1>4. CASE /\ split.basis = "real" /\ split.strategy = "engagement_grouped"
           /\ split.test \in Grouped(people)
  <2>1. \A q \in rows \ split.test : q.human => q \in people \ split.test
    OBVIOUS
  <2> DEFINE test == split.test
  <2>2. /\ test \subseteq people /\ test # {} /\ Both(test) /\ Both(people \ test)
        /\ \A r \in test, q \in people \ test : Family[q.repo] # Family[r.repo]
    <3> HIDE DEF people, test
    <3> QED BY <1>4, GroupedIs DEF test
  <2>3. QED BY <1>1, <2>1, <2>2 DEF SplitIsHonest
<1>5. CASE /\ split.basis = "real" /\ split.strategy = "real_row_random"
           /\ split.test \in Stratified(people)
  <2>1. split.test \subseteq people /\ split.test # {}
    <3> HIDE DEF people
    <3> QED BY <1>1, <1>5, StratifiedIs
  <2>2. QED BY <1>1, <1>5, <2>1 DEF SplitIsHonest
<1>6. QED BY <1>2, <1>3, <1>4, <1>5

(* The classifier's evidence is honest: family_distinct_labels leaves one label
   of each known finding, _holdout_split measures on human labels that are apart
   from those that train, and each label meets one score of a run, so long as
   each rule has one title in every file. *)
THEOREM EvidenceTrainsHonestly == OneNamePerRule => (RunsSpec => []TrainingIsHonest)
<1> SUFFICES ASSUME OneNamePerRule PROVE RunsSpec => []TrainingIsHonest
  OBVIOUS
<1>1. SplitsAreHonest
  BY SplitHonest, TriageRunsAssumption DEF SplitsAreHonest
<1>2. RunsInit => TrainsOnce
  BY DEF RunsInit, TrainsOnce, Idle
<1>3. TrainsOnce /\ RunsTypeOK /\ RunsInv /\ [RunsNext]_runsVars => TrainsOnce'
  BY TrainsOnceKeeps
<1>4. TrainsOnce /\ RunsTypeOK /\ RunsInv => TrainingIsHonest
  BY <1>1, MeetsOne DEF TrainingIsHonest, EvidenceCountsOnce
<1>5. QED BY <1>2, <1>3, <1>4, RunsAlways, PTL DEF RunsSpec

LEMMA PacketKeeps ==
    ASSUME RunsTypeOK, RunsInv, PacketIsOfEvidence, [RunsNext]_runsVars
    PROVE  PacketIsOfEvidence'
<1>1. CASE UNCHANGED <<packet, rewritten, features>>
  BY <1>1 DEF PacketIsOfEvidence
<1>2. ASSUME NEW t \in Terminals, WriteFeatures(t)
      PROVE  PacketIsOfEvidence'
  <2>1. /\ packet' = packet /\ rewritten' = rewritten \cup {Current(t)}
        /\ features' = Put(features, Current(t), FeatureRow(t))
    BY <1>2 DEF WriteFeatures, FeaturesWritten, papers
  <2>2. DOMAIN packet \subseteq DOMAIN features
    BY DEF RunsTypeOK
  <2>3. QED BY <2>1, <2>2 DEF PacketIsOfEvidence, Put
<1>3. CASE Render
  BY <1>3 DEF Render, PacketIsOfEvidence, Unmoved, store
<1>4. ASSUME NEW t, NEW r, NEW sarif, Begin(t, r, sarif)
      PROVE  UNCHANGED <<packet, rewritten, features>>
  BY <1>4 DEF Begin, store, papers
<1>5. ASSUME NEW t, NEW rule, RefreshPrior(t, rule)
      PROVE  UNCHANGED <<packet, rewritten, features>>
  BY <1>5 DEF RefreshPrior, papers
<1>6. ASSUME NEW t, NEW a, PersistFinding(t, a)
      PROVE  UNCHANGED <<packet, rewritten, features>>
  BY <1>6 DEF PersistFinding, papers
<1>7. ASSUME NEW t, \/ DeriveLabels(t) \/ Fit(t) \/ Refuse(t) \/ RecordRun(t) \/ ReadIndex(t)
                    \/ WriteResult(t) \/ End(t) \/ Die(t)
      PROVE  UNCHANGED <<packet, rewritten, features>>
  BY <1>7 DEF DeriveLabels, Fit, Refuse, RecordRun, ReadIndex, WriteResult, End, Die,
     store, papers
<1>8. ASSUME NEW f, Rule(f) \/ Judge(f)
      PROVE  UNCHANGED <<packet, rewritten, features>>
  BY <1>8 DEF Rule, Judge, papers
<1>9. CASE Draw \/ UNCHANGED runsVars
  BY <1>1, <1>9 DEF Draw, runsVars, store, papers
<1>10. QED BY <1>1, <1>2, <1>3, <1>4, <1>5, <1>6, <1>7, <1>8, <1>9 DEF RunsNext, Triage

(* The analysts' packet shows the evidence that a label of it would be about:
   render_review_packet and the check of candidates that were frozen, against
   the runs that write features. *)
THEOREM PacketsAreOfEvidence == RunsSpec => []PacketIsOfEvidence
<1>1. RunsInit => PacketIsOfEvidence
  BY DEF RunsInit, PacketIsOfEvidence
<1>2. PacketIsOfEvidence /\ RunsTypeOK /\ RunsInv /\ [RunsNext]_runsVars => PacketIsOfEvidence'
  BY PacketKeeps
<1>3. QED BY <1>1, <1>2, RunsAlways, PTL DEF RunsSpec

-----------------------------------------------------------------------------
(* The acquisition plan.  The key of the queue orders the candidates of an
   engagement, as their depths, family depths and rules tell any two of them
   apart; packets are filled from the heads of the queues, so that what was drawn
   comes before all that is left; hence a packet takes of every queue the first
   few, and stops only when it is full or no queue may give another. *)

(* A set of naturals has a least element, and Min finds it. *)
LEMMA LeastIs ==
    ASSUME NEW S, S \subseteq Nat, S # {}
    PROVE  Min(S) \in S /\ \A v \in S : Min(S) <= v
<1> DEFINE R == OpToRel(<, Nat)
<1>1. /\ \A x, y \in Nat : x < y => <<x, y>> \in R
      /\ IsWellFoundedOn(R, Nat)
  BY NatLessThanWellFounded DEF OpToRel
<1> HIDE DEF R
<1>2. PICK m \in S : \A v \in S : <<v, m>> \notin R
  <2>1. IsWellFoundedOn(R, Nat)
    BY <1>1
  <2>2. QED BY <2>1, WFMin
<1>3. ASSUME NEW v \in S PROVE m <= v
  <2>1. ~(v < m)
    BY <1>1, <1>2
  <2>2. QED BY <2>1
<1>4. \E x \in S : \A y \in S : x <= y
  BY <1>3
<1>5. QED BY <1>4 DEF Min

(* Less than all of a finite set is fewer. *)
LEMMA Fewer ==
    ASSUME NEW T, IsFiniteSet(T), NEW S \in SUBSET T, NEW x \in T, x \notin S
    PROVE  /\ Cardinality(S) \in Nat /\ Cardinality(T) \in Nat
           /\ Cardinality(S) < Cardinality(T)
<1>1. IsFiniteSet(S) /\ Cardinality(S) <= Cardinality(T)
      /\ (Cardinality(S) = Cardinality(T) => S = T)
  BY FS_Subset
<1>2. Cardinality(S) \in Nat /\ Cardinality(T) \in Nat
  BY <1>1, FS_CardinalityType
<1>3. S # T
  OBVIOUS
<1>4. QED BY <1>1, <1>2, <1>3

(* Keys of integers, of one length, are ordered. *)
Tuples(n) == [1 .. n -> Int]

(* The lexicographic order compares any two keys of one length. *)
LEMMA LowerOrders ==
    ASSUME NEW n \in Nat
    PROVE  /\ \A s \in Tuples(n) : ~Lower(s, s)
           /\ \A s, t, u \in Tuples(n) : Lower(s, t) /\ Lower(t, u) => Lower(s, u)
           /\ \A s, t \in Tuples(n) : s # t => Lower(s, t) \/ Lower(t, s)
<1>1. ASSUME NEW s \in Tuples(n), NEW t \in Tuples(n)
      PROVE  Lower(s, t) <=> \E i \in 1 .. n : /\ s[i] < t[i]
                                               /\ \A j \in 1 .. i - 1 : s[j] = t[j]
  <2>1. DOMAIN s = 1 .. n
    BY DEF Tuples
  <2>2. QED BY <2>1 DEF Lower
<1>2. \A s \in Tuples(n) : ~Lower(s, s)
  <2> SUFFICES ASSUME NEW s \in Tuples(n), Lower(s, s) PROVE FALSE
    OBVIOUS
  <2>1. PICK i \in 1 .. n : s[i] < s[i]
    BY <1>1
  <2>2. s[i] \in Int
    BY DEF Tuples
  <2>3. QED BY <2>1, <2>2
<1>3. ASSUME NEW s \in Tuples(n), NEW t \in Tuples(n), NEW u \in Tuples(n), Lower(s, t), Lower(t, u)
      PROVE  Lower(s, u)
  <2>1. PICK i \in 1 .. n : s[i] < t[i] /\ \A j \in 1 .. i - 1 : s[j] = t[j]
    BY <1>1, <1>3
  <2>2. PICK k \in 1 .. n : t[k] < u[k] /\ \A j \in 1 .. k - 1 : t[j] = u[j]
    BY <1>1, <1>3
  <2>3. \A j \in 1 .. n : s[j] \in Int /\ t[j] \in Int /\ u[j] \in Int
    BY DEF Tuples
  <2>4. CASE i < k
    <3>1. i \in 1 .. k - 1
      BY <2>4
    <3>2. s[i] < u[i]
      BY <2>1, <2>2, <3>1
    <3>3. \A j \in 1 .. i - 1 : s[j] = u[j]
      <4>1. \A j \in 1 .. i - 1 : j \in 1 .. k - 1
        BY <2>4
      <4>2. QED BY <2>1, <2>2, <4>1
    <3>4. QED BY <1>1, <3>2, <3>3
  <2>5. CASE k < i
    <3>1. k \in 1 .. i - 1
      BY <2>5
    <3>2. s[k] < u[k]
      BY <2>1, <2>2, <3>1
    <3>3. \A j \in 1 .. k - 1 : s[j] = u[j]
      <4>1. \A j \in 1 .. k - 1 : j \in 1 .. i - 1
        BY <2>5
      <4>2. QED BY <2>1, <2>2, <4>1
    <3>4. QED BY <1>1, <3>2, <3>3
  <2>6. CASE i = k
    <3>1. s[i] < u[i]
      BY <2>1, <2>2, <2>3, <2>6
    <3>2. \A j \in 1 .. i - 1 : s[j] = u[j]
      BY <2>1, <2>2, <2>6
    <3>3. QED BY <1>1, <3>1, <3>2
  <2>7. QED BY <2>4, <2>5, <2>6
<1>4. ASSUME NEW s \in Tuples(n), NEW t \in Tuples(n), s # t PROVE Lower(s, t) \/ Lower(t, s)
  <2> DEFINE D == {i \in 1 .. n : s[i] # t[i]}
  <2>1. D # {} /\ D \subseteq Nat /\ D \subseteq 1 .. n
    <3>1. s \in [1 .. n -> Int] /\ t \in [1 .. n -> Int]
      BY DEF Tuples
    <3>2. \E i \in 1 .. n : s[i] # t[i]
      BY ONLY <1>4, <3>1
    <3>3. D \subseteq 1 .. n
      OBVIOUS
    <3>4. \A i \in 1 .. n : i \in Nat
      OBVIOUS
    <3>5. QED BY <3>2, <3>3, <3>4
  <2> HIDE DEF D
  <2>2. PICK m \in D : \A v \in D : m <= v
    BY <2>1, LeastIs
  <2>3. m \in 1 .. n /\ s[m] # t[m] /\ s[m] \in Int /\ t[m] \in Int
    BY <2>1 DEF D, Tuples
  <2>4. ASSUME NEW j \in 1 .. m - 1 PROVE s[j] = t[j]
    <3>1. j \in 1 .. n /\ ~(m <= j)
      BY <2>3
    <3>2. j \notin D
      BY <2>2, <3>1
    <3>3. QED BY <3>1, <3>2 DEF D
  <2>5. s[m] < t[m] \/ t[m] < s[m]
    BY <2>3
  <2>6. QED BY <1>1, <2>3, <2>4, <2>5
<1>5. QED BY <1>2, <1>3, <1>4

(* One of finitely many with different keys has the lowest. *)
LEMMA LowestOf ==
    ASSUME NEW n \in Nat, NEW S, IsFiniteSet(S), S # {}, NEW key \in [S -> Tuples(n)],
           \A f, g \in S : key[f] = key[g] => f = g
    PROVE  \E f \in S : \A g \in S \ {f} : Lower(key[f], key[g])
<1> DEFINE under(f) == {g \in S : Lower(key[g], key[f])}
           count == [f \in S |-> Cardinality(under(f))]
           N == {count[f] : f \in S}
<1>1. \A f \in S : count[f] \in Nat
  <2> TAKE f \in S
  <2>1. under(f) \in SUBSET S
    OBVIOUS
  <2>2. IsFiniteSet(under(f))
    BY <2>1, FS_Subset
  <2>3. QED BY <2>2, FS_CardinalityType
<1>2. ASSUME NEW f \in S, NEW g \in S, Lower(key[g], key[f]) PROVE count[g] < count[f]
  <2>1. /\ \A s \in Tuples(n) : ~Lower(s, s)
        /\ \A s, t, u \in Tuples(n) : Lower(s, t) /\ Lower(t, u) => Lower(s, u)
    BY LowerOrders
  <2>2. under(g) \subseteq under(f) /\ g \in under(f) /\ g \notin under(g)
    BY <1>2, <2>1
  <2>3. under(f) \in SUBSET S /\ IsFiniteSet(under(f))
    <3>1. under(f) \in SUBSET S
      OBVIOUS
    <3>2. QED BY <3>1, FS_Subset
  <2>4. Cardinality(under(g)) < Cardinality(under(f))
    <3> HIDE DEF under
    <3>1. QED BY <2>2, <2>3, Fewer
  <2>5. QED BY <2>4
<1>3. N \subseteq Nat /\ N # {}
  <2> HIDE DEF count
  <2>1. QED BY <1>1
<1>4. PICK f \in S : \A g \in S : count[f] <= count[g]
  <2> HIDE DEF N, count
  <2>1. PICK m \in N : \A v \in N : m <= v
    BY <1>3, LeastIs
  <2>2. QED BY <2>1 DEF N
<1>5. ASSUME NEW g \in S \ {f} PROVE Lower(key[f], key[g])
  <2>1. key[f] # key[g] /\ key[f] \in Tuples(n) /\ key[g] \in Tuples(n)
    OBVIOUS
  <2>2. Lower(key[f], key[g]) \/ Lower(key[g], key[f])
    BY <2>1, LowerOrders
  <2>3. ~(count[g] < count[f])
    <3> HIDE DEF count
    <3>1. QED BY <1>1, <1>4
  <2>4. QED
    <3> HIDE DEF count
    <3>1. QED BY <1>2, <2>2, <2>3
<1>6. QED BY <1>5

(* The steps in which a packet is filled *)
Steps(h, n, candidates, labelled, cap) ==
    /\ h[0] = <<>>
    /\ \A i \in 1 .. n : h[i] = Further(candidates, labelled, h[i - 1], cap)

(* A packet can be filled step by step, as far as one likes: *)
LEMMA StepsExist ==
    ASSUME NEW candidates, NEW labelled, NEW cap, NEW n \in Nat
    PROVE  \E h : Steps(h, n, candidates, labelled, cap)
<1> DEFINE Goes(k) == \E h : Steps(h, k, candidates, labelled, cap)
           N == {k \in Nat : ~Goes(k)}
<1>1. Goes(0)
  <2>1. [i \in {0} |-> <<>>][0] = <<>>
    OBVIOUS
  <2>2. Steps([i \in {0} |-> <<>>], 0, candidates, labelled, cap)
    BY <2>1 DEF Steps
  <2>3. QED BY <2>2
<1>2. ASSUME NEW k \in Nat, Goes(k) PROVE Goes(k + 1)
  <2>1. PICK h : Steps(h, k, candidates, labelled, cap)
    BY <1>2
  <2>2. PICK last : last = Further(candidates, labelled, h[k], cap)
    OBVIOUS
  <2>3. PICK g : g = [i \in 0 .. k + 1 |-> IF i = k + 1 THEN last ELSE h[i]]
    OBVIOUS
  <2>4. g[0] = <<>>
    BY <2>1, <2>3 DEF Steps
  <2>5. ASSUME NEW i \in 1 .. k + 1
        PROVE  g[i] = Further(candidates, labelled, g[i - 1], cap)
    <3>1. i - 1 \in 0 .. k + 1 /\ i - 1 # k + 1
      OBVIOUS
    <3>2. g[i - 1] = h[i - 1]
      BY <2>3, <3>1
    <3>3. CASE i = k + 1
      <4>1. g[i] = last /\ i - 1 = k
        BY <2>3, <3>3
      <4>2. QED BY <2>2, <3>2, <4>1
    <3>4. CASE i # k + 1
      <4>1. i \in 1 .. k /\ g[i] = h[i]
        BY <2>3, <3>4
      <4>2. h[i] = Further(candidates, labelled, h[i - 1], cap)
        BY <2>1, <4>1 DEF Steps
      <4>3. QED BY <3>2, <4>1, <4>2
    <3>5. QED BY <3>3, <3>4
  <2>6. Steps(g, k + 1, candidates, labelled, cap)
    BY <2>4, <2>5 DEF Steps
  <2>7. QED BY <2>6
<1> HIDE DEF Goes
<1>3. N = {}
  <2> SUFFICES ASSUME N # {} PROVE FALSE
    OBVIOUS
  <2>1. N \subseteq Nat
    OBVIOUS
  <2>2. PICK m \in N : \A v \in N : m <= v
    <3> HIDE DEF N
    <3>1. QED BY <2>1, LeastIs
  <2>3. m \in Nat /\ ~Goes(m) /\ m # 0
    BY <1>1
  <2>4. m - 1 \in Nat /\ (m - 1) + 1 = m
    BY <2>3
  <2>5. m - 1 \notin N
    BY <2>2, <2>3, <2>4
  <2>6. Goes(m - 1)
    BY <2>4, <2>5
  <2>7. QED BY <1>2, <2>3, <2>4, <2>6
<1>4. QED BY <1>3 DEF Goes

(* What FoldLeft iterates, over the sets of the steps that were taken *)
Iterates(g, n, candidates, labelled, cap) ==
    g = [s \in SUBSET (DOMAIN [i \in 1 .. n |-> i]) |->
            IF s = {} THEN <<>>
            ELSE LET x == Max(s) IN Further(candidates, labelled, g[s \ {x}], cap)]

(* Selected is what the fold of SequencesExt makes of all the steps, *)
LEMMA FoldIs ==
    ASSUME NEW candidates, NEW labelled, NEW cap, NEW n
    PROVE  Selected(candidates, labelled, n, cap) =
                (CHOOSE g : Iterates(g, n, candidates, labelled, cap))[
                    DOMAIN [i \in 1 .. n |-> i]]
BY DEF Selected, FoldLeft, MapThenFoldSet, Iterates

(* A finite set of numbers has a greatest element, and Max finds it. *)
LEMMA GreatestIs ==
    ASSUME NEW n \in Nat, NEW S \in SUBSET (1 .. n), S # {}
    PROVE  Max(S) \in S /\ \A v \in S : v <= Max(S)
<1> DEFINE N == {n - v : v \in S}
<1>0. \A v \in S : v \in Nat /\ n - v \in Nat
  <2>1. \A v \in 1 .. n : v \in Nat /\ n - v \in Nat
    OBVIOUS
  <2>2. QED BY <2>1
<1>1. N \subseteq Nat /\ N # {}
  BY <1>0
<1>2. PICK m \in N : \A v \in N : m <= v
  <2> HIDE DEF N
  <2>1. QED BY <1>1, LeastIs
<1>3. PICK x \in S : m = n - x
  BY <1>2
<1>4. \A y \in S : x >= y
  <2> TAKE y \in S
  <2>1. m <= n - y /\ x \in Nat /\ y \in Nat
    BY <1>0, <1>2
  <2>2. QED BY <1>3, <2>1
<1>5. Max(S) \in S /\ \A y \in S : Max(S) >= y
  BY <1>4 DEF Max
<1>6. \A y \in S : y <= Max(S)
  <2> TAKE y \in S
  <2>1. Max(S) \in Nat /\ y \in Nat /\ Max(S) >= y
    BY <1>0, <1>5
  <2>2. QED BY <2>1
<1>7. QED BY <1>5, <1>6

(* so that Selected is what the last step leaves. *)
LEMMA SelectedIs ==
    ASSUME NEW candidates, NEW labelled, NEW cap, NEW n \in Nat
    PROVE  \E h : /\ Steps(h, n, candidates, labelled, cap)
                  /\ Selected(candidates, labelled, n, cap) = h[n]
<1>1. DOMAIN [i \in 1 .. n |-> i] = 1 .. n
  OBVIOUS
<1>2. \E g : Iterates(g, n, candidates, labelled, cap)
  <2>1. PICK h : Steps(h, n, candidates, labelled, cap)
    BY StepsExist
  <2>2. PICK g : g = [s \in SUBSET (1 .. n) |-> h[Cardinality(s)]]
    OBVIOUS
  <2>3. ASSUME NEW s \in SUBSET (1 .. n), s # {}
        PROVE  g[s] = Further(candidates, labelled, g[s \ {Max(s)}], cap)
    <3>1. PICK x : x = Max(s)
      OBVIOUS
    <3>2. x \in s
      BY <2>3, <3>1, GreatestIs
    <3>3. IsFiniteSet(s) /\ Cardinality(s) <= n
      <4>1. IsFiniteSet(1 .. n) /\ Cardinality(1 .. n) = n
        BY FS_Interval
      <4>2. IsFiniteSet(s) /\ Cardinality(s) <= Cardinality(1 .. n)
        BY <4>1, FS_Subset
      <4>3. QED BY <4>1, <4>2
    <3>4. Cardinality(s \ {x}) = Cardinality(s) - 1
      BY <3>2, <3>3, FS_RemoveElement
    <3>5. Cardinality(s) \in Nat /\ Cardinality(s) # 0
      BY <2>3, <3>3, FS_CardinalityType, FS_EmptySet
    <3>6. Cardinality(s) \in 1 .. n
      BY <3>3, <3>5
    <3>7. h[Cardinality(s)] = Further(candidates, labelled, h[Cardinality(s) - 1], cap)
      BY <2>1, <3>6 DEF Steps
    <3>8. g[s] = h[Cardinality(s)] /\ g[s \ {x}] = h[Cardinality(s \ {x})]
      BY <2>2
    <3>9. QED BY <3>1, <3>4, <3>7, <3>8
  <2>4. g[{}] = <<>>
    <3>1. Cardinality({}) = 0 /\ {} \in SUBSET (1 .. n)
      BY FS_EmptySet
    <3>2. QED BY <2>1, <2>2, <3>1 DEF Steps
  <2>5. g = [s \in SUBSET (1 .. n) |->
                IF s = {} THEN <<>> ELSE Further(candidates, labelled, g[s \ {Max(s)}], cap)]
    BY <2>2, <2>3, <2>4
  <2>6. QED BY <1>1, <2>5 DEF Iterates
<1>3. PICK g : g = CHOOSE f : Iterates(f, n, candidates, labelled, cap)
  OBVIOUS
<1>4. Iterates(g, n, candidates, labelled, cap)
  BY <1>2, <1>3, Zenon
<1>5. Selected(candidates, labelled, n, cap) = g[1 .. n]
  BY <1>1, <1>3, FoldIs
<1>6. g = [s \in SUBSET (1 .. n) |->
                IF s = {} THEN <<>> ELSE Further(candidates, labelled, g[s \ {Max(s)}], cap)]
  BY <1>1, <1>4 DEF Iterates
<1>7. g[{}] = <<>> /\ \A s \in SUBSET (1 .. n) : s # {} =>
            g[s] = Further(candidates, labelled, g[s \ {Max(s)}], cap)
  BY <1>6
<1>8. PICK h : h = [i \in 0 .. n |-> g[1 .. i]]
  OBVIOUS
<1>9. h[0] = <<>>
  <2>1. 1 .. 0 = {}
    OBVIOUS
  <2>2. QED BY <1>7, <1>8, <2>1
<1>10. ASSUME NEW i \in 1 .. n PROVE h[i] = Further(candidates, labelled, h[i - 1], cap)
  <2>1. 1 .. i \in SUBSET (1 .. n) /\ 1 .. i # {} /\ i \in 1 .. i
    OBVIOUS
  <2>2. Max(1 .. i) \in 1 .. i /\ i <= Max(1 .. i)
    BY <2>1, GreatestIs
  <2>3. Max(1 .. i) = i
    BY <2>2
  <2>4. (1 .. i) \ {i} = 1 .. i - 1
    OBVIOUS
  <2>5. g[1 .. i] = Further(candidates, labelled, g[1 .. i - 1], cap)
    BY <1>7, <2>1, <2>3, <2>4
  <2>6. QED BY <1>8, <2>5
<1>11. Steps(h, n, candidates, labelled, cap)
  BY <1>9, <1>10 DEF Steps
<1>12. h[n] = g[1 .. n]
  BY <1>8
<1>13. QED BY <1>5, <1>11, <1>12

(* What a plan can be drawn from *)
Drawable(some, labelled) ==
    /\ IsFiniteSet(some)
    /\ \A c \in some :
        /\ c.finding \in Nat /\ c.hash \in Nat /\ labelled[c.rule] \in Nat
        /\ PathRank[c.file] \in Nat
        /\ Digest[c.repo] \in Nat /\ Digest[c.producer] \in Nat
        /\ Digest[c.rule] \in Nat /\ Digest[c.sink] \in Nat
    /\ \A c, d \in some :
        /\ c.finding = d.finding => c = d
        /\ Digest[c.repo] = Digest[d.repo] => c.repo = d.repo
        /\ Digest[c.producer] = Digest[d.producer] => c.producer = d.producer
        /\ Digest[c.rule] = Digest[d.rule] => c.rule = d.rule
        /\ Digest[c.sink] = Digest[d.sink] => c.sink = d.sink

(* A plan can be drawn from a part of what one can be drawn from. *)
LEMMA SomeDrawable ==
    ASSUME NEW raw, NEW labelled, Drawable(raw, labelled), NEW some \in SUBSET raw
    PROVE  Drawable(some, labelled)
<1>1. IsFiniteSet(some)
  BY FS_Subset DEF Drawable
<1>2. QED BY <1>1 DEF Drawable

(* The order of candidates compares any two. *)
LEMMA AheadOrders ==
    ASSUME NEW some, NEW labelled, Drawable(some, labelled)
    PROVE  /\ \A c \in some : ~Ahead(c, c)
           /\ \A c, d, e \in some : Ahead(c, d) /\ Ahead(d, e) => Ahead(c, e)
           /\ \A c, d \in some : c # d => Ahead(c, d) \/ Ahead(d, c)
<1>1. \A c \in some : /\ c.finding \in Nat /\ c.hash \in Nat /\ PathRank[c.file] \in Nat
                      /\ \A d \in some : c.finding = d.finding => c = d
  BY DEF Drawable
<1>2. \A c \in some : ~Ahead(c, c)
  BY <1>1 DEF Ahead
<1>3. \A c, d, e \in some : Ahead(c, d) /\ Ahead(d, e) => Ahead(c, e)
  BY <1>1 DEF Ahead
<1>4. \A c, d \in some : c # d => Ahead(c, d) \/ Ahead(d, c)
  BY <1>1 DEF Ahead
<1>5. QED BY <1>2, <1>3, <1>4

(* Of one family, each has a depth of its own. *)
LEMMA DepthIs ==
    ASSUME NEW some, NEW labelled, Drawable(some, labelled), NEW c \in some
    PROVE  /\ Depth(some, c) \in Nat
           /\ \A d \in some : FamilyOf(c) = FamilyOf(d) /\ Ahead(d, c) =>
                    Depth(some, d) < Depth(some, c)
<1> DEFINE above(x) == {d \in some : FamilyOf(d) = FamilyOf(x) /\ Ahead(d, x)}
<1>1. IsFiniteSet(some)
  BY DEF Drawable
<1>2. above(c) \in SUBSET some /\ IsFiniteSet(above(c))
  <2>1. above(c) \in SUBSET some
    OBVIOUS
  <2>2. QED BY <1>1, <2>1, FS_Subset
<1>3. Depth(some, c) = Cardinality(above(c)) /\ Depth(some, c) \in Nat
  BY <1>2, FS_CardinalityType DEF Depth
<1>4. ASSUME NEW d \in some, FamilyOf(c) = FamilyOf(d), Ahead(d, c)
      PROVE  Depth(some, d) < Depth(some, c)
  <2>1. d \in above(c) /\ d \notin above(d)
    BY <1>4, AheadOrders
  <2>2. above(d) \subseteq above(c)
    BY <1>4, AheadOrders
  <2>3. Depth(some, d) = Cardinality(above(d))
    BY DEF Depth
  <2> HIDE DEF above
  <2>4. Cardinality(above(d)) < Cardinality(above(c))
    BY <1>2, <2>1, <2>2, Fewer
  <2>5. QED BY <1>3, <2>3, <2>4
<1>5. QED BY <1>3, <1>4

(* Of one family, each is known by its depth. *)
LEMMA DepthTells ==
    ASSUME NEW some, NEW labelled, Drawable(some, labelled), NEW c \in some, NEW d \in some,
           FamilyOf(c) = FamilyOf(d), Depth(some, c) = Depth(some, d)
    PROVE  c = d
<1> SUFFICES ASSUME c # d PROVE FALSE
  OBVIOUS
<1>1. Ahead(c, d) \/ Ahead(d, c)
  BY AheadOrders
<1>2. Depth(some, c) \in Nat
  BY DepthIs
<1>3. CASE Ahead(c, d)
  <2>1. Depth(some, c) < Depth(some, d)
    BY <1>3, DepthIs
  <2>2. QED BY <1>2, <2>1
<1>4. CASE Ahead(d, c)
  <2>1. Depth(some, d) < Depth(some, c)
    BY <1>4, DepthIs
  <2>2. QED BY <1>2, <2>1
<1>5. QED BY <1>1, <1>3, <1>4

(* As many of a family are left as the cap allows. *)
LEMMA FamiliesAreCapped ==
    ASSUME NEW some, NEW labelled, Drawable(some, labelled), NEW cap \in Nat,
           NEW c, NEW part \in SUBSET CapFamilies(some, cap)
    PROVE  Cardinality(OfFamily(part, c)) <= cap
<1> DEFINE F == OfFamily(part, c)
<1>1. F \subseteq some /\ \A d \in F : Depth(some, d) < cap /\ FamilyOf(d) = FamilyOf(c)
  BY DEF OfFamily, CapFamilies
<1>2. \A d \in F : Depth(some, d) \in 0 .. cap - 1
  <2> TAKE d \in F
  <2>1. d \in some
    BY <1>1
  <2>2. Depth(some, d) \in Nat
    BY <2>1, DepthIs
  <2>3. QED BY <1>1, <2>2
<1> HIDE DEF F
<1>3. PICK f : f = [d \in F |-> Depth(some, d)]
  OBVIOUS
<1>4. f \in [F -> 0 .. cap - 1] /\ \A d, e \in F : f[d] = f[e] => d = e
  <2>1. f \in [F -> 0 .. cap - 1]
    BY <1>2, <1>3
  <2>2. ASSUME NEW d \in F, NEW e \in F, f[d] = f[e] PROVE d = e
    <3>1. d \in some /\ e \in some /\ FamilyOf(d) = FamilyOf(e)
      BY <1>1
    <3>2. Depth(some, d) = Depth(some, e)
      BY <1>3, <2>2
    <3>3. QED BY <3>1, <3>2, DepthTells
  <2>3. QED BY <2>1, <2>2
<1>5. f \in Injection(F, 0 .. cap - 1)
  BY <1>4 DEF Injection, IsInjective
<1>6. IsFiniteSet(0 .. cap - 1) /\ Cardinality(0 .. cap - 1) = cap
  BY FS_Interval
<1>7. Cardinality(F) <= Cardinality(0 .. cap - 1)
  BY <1>5, <1>6, FS_Injection
<1>8. QED BY <1>6, <1>7 DEF F

(* The best path of some candidates is a rank. *)
LEMMA RankIs ==
    ASSUME NEW some, NEW labelled, Drawable(some, labelled), NEW part \in SUBSET some, part # {}
    PROVE  RankOf(part) \in Nat
<1> DEFINE R == {PathRank[c.file] : c \in part}
<1>1. R \subseteq Nat /\ R # {}
  BY DEF Drawable
<1> HIDE DEF R
<1>2. Min(R) \in R
  BY <1>1, LeastIs
<1>3. Min(R) \in Nat
  BY <1>1, <1>2
<1>4. QED BY <1>3 DEF RankOf, R

(* A family is of one engagement, producer, rule and sink. *)
LEMMA FamilyIs ==
    ASSUME NEW c, NEW d
    PROVE  FamilyOf(c) = FamilyOf(d) <=> /\ c.repo = d.repo /\ c.producer = d.producer
                                         /\ c.rule = d.rule /\ c.sink = d.sink
BY DEF FamilyOf

(* The key of a family tells the families of a rule apart. *)
LEMMA FamilyKeyIs ==
    ASSUME NEW some, NEW labelled, Drawable(some, labelled), NEW c \in some
    PROVE  /\ FamilyKey(some, c) \in Tuples(3)
           /\ \A d \in some : FamilyOf(c) = FamilyOf(d) => FamilyKey(some, c) = FamilyKey(some, d)
           /\ \A d \in some : /\ c.repo = d.repo /\ c.rule = d.rule
                              /\ FamilyKey(some, c) = FamilyKey(some, d)
                              => FamilyOf(c) = FamilyOf(d)
<1>1. RankOf(OfFamily(some, c)) \in Nat
  <2>1. OfFamily(some, c) \in SUBSET some /\ c \in OfFamily(some, c)
    BY DEF OfFamily
  <2>2. QED BY <2>1, RankIs
<1>2. Digest[c.producer] \in Nat /\ Digest[c.sink] \in Nat
  BY DEF Drawable
<1>3. PICK r : r = RankOf(OfFamily(some, c))
  OBVIOUS
<1>4. FamilyKey(some, c) = <<r, Digest[c.producer], Digest[c.sink]>>
  BY <1>3 DEF FamilyKey
<1>5. FamilyKey(some, c) \in Tuples(3)
  BY <1>1, <1>2, <1>3, <1>4 DEF Tuples
<1>6. ASSUME NEW d \in some, FamilyOf(c) = FamilyOf(d)
      PROVE  FamilyKey(some, c) = FamilyKey(some, d)
  <2>1. OfFamily(some, c) = OfFamily(some, d)
    BY <1>6 DEF OfFamily
  <2>2. c.producer = d.producer /\ c.sink = d.sink
    BY <1>6, FamilyIs
  <2>3. QED BY <2>1, <2>2 DEF FamilyKey
<1>7. ASSUME NEW d \in some, c.repo = d.repo, c.rule = d.rule,
             FamilyKey(some, c) = FamilyKey(some, d)
      PROVE  FamilyOf(c) = FamilyOf(d)
  <2>1. PICK q : q = RankOf(OfFamily(some, d))
    OBVIOUS
  <2>2. FamilyKey(some, d) = <<q, Digest[d.producer], Digest[d.sink]>>
    BY <2>1 DEF FamilyKey
  <2>3. Digest[c.producer] = Digest[d.producer] /\ Digest[c.sink] = Digest[d.sink]
    BY <1>4, <1>7, <2>2
  <2>4. c.producer = d.producer /\ c.sink = d.sink
    BY <2>3 DEF Drawable
  <2>5. QED BY <1>7, <2>4, FamilyIs
<1>8. QED BY <1>5, <1>6, <1>7

(* The families of a rule come one after the other. *)
LEMMA FamilyDepthIs ==
    ASSUME NEW some, NEW labelled, Drawable(some, labelled), NEW c \in some
    PROVE  /\ FamilyDepth(some, c) \in Nat
           /\ \A d \in some : /\ c.repo = d.repo /\ c.rule = d.rule
                              /\ Lower(FamilyKey(some, d), FamilyKey(some, c))
                              => FamilyDepth(some, d) < FamilyDepth(some, c)
<1> DEFINE under(x) == {e \in OfRule(some, x) : Lower(FamilyKey(some, e), FamilyKey(some, x))}
           heads(x) == {FamilyOf(d) : d \in under(x)}
<1>1. IsFiniteSet(heads(c))
  <2>1. under(c) \in SUBSET some /\ IsFiniteSet(some)
    BY DEF OfRule, Drawable
  <2>2. IsFiniteSet(under(c))
    BY <2>1, FS_Subset
  <2> HIDE DEF under
  <2>3. PICK f : f = [d \in under(c) |-> FamilyOf(d)]
    OBVIOUS
  <2>4. f \in Surjection(under(c), heads(c))
    BY <2>3 DEF Surjection
  <2> HIDE DEF heads
  <2>5. QED BY <2>2, <2>4, FS_Surjection
<1>2. FamilyDepth(some, c) = Cardinality(heads(c)) /\ FamilyDepth(some, c) \in Nat
  BY <1>1, FS_CardinalityType DEF FamilyDepth
<1>3. ASSUME NEW d \in some, c.repo = d.repo, c.rule = d.rule,
             Lower(FamilyKey(some, d), FamilyKey(some, c))
      PROVE  FamilyDepth(some, d) < FamilyDepth(some, c)
  <2>1. /\ \A s \in Tuples(3) : ~Lower(s, s)
        /\ \A s, t, u \in Tuples(3) : Lower(s, t) /\ Lower(t, u) => Lower(s, u)
    BY LowerOrders
  <2>2. \A e \in some : FamilyKey(some, e) \in Tuples(3)
    BY FamilyKeyIs
  <2>3. OfRule(some, c) = OfRule(some, d) /\ d \in OfRule(some, c)
    BY <1>3 DEF OfRule
  <2>4. OfRule(some, c) \subseteq some
    BY DEF OfRule
  <2>5. under(d) \subseteq under(c) /\ d \in under(c)
    BY <1>3, <2>1, <2>2, <2>3, <2>4
  <2>6. heads(d) \subseteq heads(c) /\ FamilyOf(d) \in heads(c)
    <3> HIDE DEF under
    <3>1. QED BY <2>5
  <2>7. FamilyOf(d) \notin heads(d)
    <3> SUFFICES ASSUME NEW e \in under(d), FamilyOf(d) = FamilyOf(e) PROVE FALSE
      OBVIOUS
    <3>1. e \in some /\ Lower(FamilyKey(some, e), FamilyKey(some, d))
      BY <2>3, <2>4
    <3>2. FamilyKey(some, d) = FamilyKey(some, e)
      BY <3>1, FamilyKeyIs
    <3>3. QED BY <2>1, <2>2, <3>1, <3>2
  <2>8. FamilyDepth(some, d) = Cardinality(heads(d))
    BY DEF FamilyDepth
  <2> HIDE DEF heads
  <2>9. Cardinality(heads(d)) < Cardinality(heads(c))
    BY <1>1, <2>6, <2>7, Fewer
  <2>10. QED BY <1>2, <2>8, <2>9
<1>4. QED BY <1>2, <1>3

(* Of one rule, a family is known by how many come before it. *)
LEMMA FamilyDepthTells ==
    ASSUME NEW some, NEW labelled, Drawable(some, labelled), NEW c \in some, NEW d \in some,
           c.repo = d.repo, c.rule = d.rule, FamilyDepth(some, c) = FamilyDepth(some, d)
    PROVE  FamilyOf(c) = FamilyOf(d)
<1> SUFFICES ASSUME FamilyOf(c) # FamilyOf(d) PROVE FALSE
  OBVIOUS
<1>1. FamilyKey(some, c) \in Tuples(3) /\ FamilyKey(some, d) \in Tuples(3)
  BY FamilyKeyIs
<1>2. FamilyKey(some, c) # FamilyKey(some, d)
  BY FamilyKeyIs
<1>3. \/ Lower(FamilyKey(some, c), FamilyKey(some, d))
      \/ Lower(FamilyKey(some, d), FamilyKey(some, c))
  BY <1>1, <1>2, LowerOrders
<1>4. FamilyDepth(some, c) \in Nat
  BY FamilyDepthIs
<1>5. CASE Lower(FamilyKey(some, c), FamilyKey(some, d))
  <2>1. FamilyDepth(some, c) < FamilyDepth(some, d)
    BY <1>5, FamilyDepthIs
  <2>2. QED BY <1>4, <2>1
<1>6. CASE Lower(FamilyKey(some, d), FamilyKey(some, c))
  <2>1. FamilyDepth(some, d) < FamilyDepth(some, c)
    BY <1>6, FamilyDepthIs
  <2>2. QED BY <1>4, <2>1
<1>7. QED BY <1>3, <1>5, <1>6

(* The key of the queue *)
LEMMA QueueKeyIs ==
    ASSUME NEW some, NEW labelled, Drawable(some, labelled), NEW c \in some
    PROVE  LET k == QueueKey(some, labelled, c)
           IN  /\ k \in Tuples(5) /\ k[1] = Depth(some, c) /\ k[2] = FamilyDepth(some, c)
               /\ k[5] = Digest[c.rule]
               /\ k[1] \in Nat /\ k[2] \in Nat
<1>1. PICK u, v, x, y, z : /\ u = Depth(some, c) /\ v = FamilyDepth(some, c)
                           /\ x = RankOf(OfRule(some, c)) /\ y = labelled[c.rule]
                           /\ z = Digest[c.rule]
  OBVIOUS
<1>2. u \in Nat /\ v \in Nat
  BY <1>1, DepthIs, FamilyDepthIs
<1>3. y \in Nat /\ z \in Nat
  BY <1>1 DEF Drawable
<1>4. x \in Nat
  <2>1. OfRule(some, c) \in SUBSET some /\ c \in OfRule(some, c)
    BY DEF OfRule
  <2>2. QED BY <1>1, <2>1, RankIs
<1>5. PICK a, b : a = <<u, v>> /\ b = <<x, y, z>>
  OBVIOUS
<1>6. /\ a \in Seq(Int) /\ b \in Seq(Int) /\ Len(a) = 2 /\ Len(b) = 3
      /\ a[1] = u /\ a[2] = v /\ b[3] = z
  BY <1>2, <1>3, <1>4, <1>5
<1>7. PICK k : k = a \o b
  OBVIOUS
<1>8. /\ k \in Seq(Int) /\ Len(k) = 5
      /\ \A i \in 1 .. 5 : k[i] = IF i <= 2 THEN a[i] ELSE b[i - 2]
  <2>1. a \in Seq(Int) /\ b \in Seq(Int)
    BY <1>6
  <2>2. /\ k \in Seq(Int) /\ Len(k) = Len(a) + Len(b)
        /\ \A i \in 1 .. Len(a) + Len(b) : k[i] = IF i <= Len(a) THEN a[i] ELSE b[i - Len(a)]
    BY ONLY <1>7, <2>1
  <2>3. QED BY <1>6, <2>2
<1>9. k \in Tuples(5)
  <2>1. k \in Seq(Int) /\ Len(k) = 5
    BY <1>8
  <2>2. k \in [1 .. Len(k) -> Int]
    BY <2>1, LenProperties
  <2>3. QED BY <2>1, <2>2 DEF Tuples
<1>10. k[1] = u /\ k[2] = v /\ k[5] = z
  BY <1>6, <1>8
<1>11. QueueKey(some, labelled, c) = k
  BY <1>1, <1>5, <1>7 DEF QueueKey, RuleKey
<1>12. QED BY <1>1, <1>2, <1>9, <1>10, <1>11

(* The keys of one queue differ, so that any two of it are compared. *)
LEMMA QueueTells ==
    ASSUME NEW some, NEW labelled, Drawable(some, labelled), NEW c \in some, NEW d \in some,
           c.repo = d.repo, QueueKey(some, labelled, c) = QueueKey(some, labelled, d)
    PROVE  c = d
<1>1. PICK k : k = QueueKey(some, labelled, c)
  OBVIOUS
<1>2. k[1] = Depth(some, c) /\ k[2] = FamilyDepth(some, c) /\ k[5] = Digest[c.rule]
  BY <1>1, QueueKeyIs
<1>3. k = QueueKey(some, labelled, d)
  BY <1>1
<1>4. k[1] = Depth(some, d) /\ k[2] = FamilyDepth(some, d) /\ k[5] = Digest[d.rule]
  BY <1>3, QueueKeyIs
<1>5. c.rule = d.rule
  BY <1>2, <1>4 DEF Drawable
<1>6. FamilyOf(c) = FamilyOf(d)
  BY <1>2, <1>4, <1>5, FamilyDepthTells
<1>7. QED BY <1>2, <1>4, <1>6, DepthTells

(* The queue of an engagement is in a strict, total order. *)
LEMMA PrecedesOrders ==
    ASSUME NEW some, NEW labelled, Drawable(some, labelled)
    PROVE  /\ \A c \in some : ~Precedes(some, labelled, c, c)
           /\ \A c, d, e \in some :
                Precedes(some, labelled, c, d) /\ Precedes(some, labelled, d, e)
                    => Precedes(some, labelled, c, e)
           /\ \A c, d \in some : c # d /\ c.repo = d.repo =>
                Precedes(some, labelled, c, d) \/ Precedes(some, labelled, d, c)
<1>1. \A c \in some : QueueKey(some, labelled, c) \in Tuples(5)
  BY QueueKeyIs
<1>2. /\ \A s \in Tuples(5) : ~Lower(s, s)
      /\ \A s, t, u \in Tuples(5) : Lower(s, t) /\ Lower(t, u) => Lower(s, u)
      /\ \A s, t \in Tuples(5) : s # t => Lower(s, t) \/ Lower(t, s)
  BY LowerOrders
<1>3. \A c \in some : ~Precedes(some, labelled, c, c)
  BY <1>1, <1>2 DEF Precedes
<1>4. ASSUME NEW c \in some, NEW d \in some, NEW e \in some,
             Precedes(some, labelled, c, d), Precedes(some, labelled, d, e)
      PROVE  Precedes(some, labelled, c, e)
  BY <1>1, <1>2, <1>4 DEF Precedes
<1>5. ASSUME NEW c \in some, NEW d \in some, c # d, c.repo = d.repo
      PROVE  Precedes(some, labelled, c, d) \/ Precedes(some, labelled, d, c)
  <2>1. QueueKey(some, labelled, c) # QueueKey(some, labelled, d)
    BY <1>5, QueueTells
  <2>2. QED BY <1>1, <1>2, <1>5, <2>1 DEF Precedes
<1>6. QED BY <1>3, <1>4, <1>5

(* One of every rule comes before a second of any. *)
LEMMA OnesPrecede ==
    ASSUME NEW some, NEW labelled, Drawable(some, labelled), NEW c \in some, NEW d \in some,
           c.repo = d.repo, Depth(some, c) = 0, FamilyDepth(some, c) = 0,
           Depth(some, d) # 0 \/ FamilyDepth(some, d) # 0
    PROVE  Precedes(some, labelled, c, d)
<1>1. PICK s, t : s = QueueKey(some, labelled, c) /\ t = QueueKey(some, labelled, d)
  OBVIOUS
<1>2. s \in Tuples(5) /\ s[1] = 0 /\ s[2] = 0
  BY <1>1, QueueKeyIs
<1>3. /\ t \in Tuples(5) /\ t[1] \in Nat /\ t[2] \in Nat
      /\ t[1] # 0 \/ t[2] # 0
  BY <1>1, QueueKeyIs
<1>4. DOMAIN s = 1 .. 5
  BY <1>2 DEF Tuples
<1>5. CASE t[1] # 0
  <2>1. 1 \in DOMAIN s /\ s[1] < t[1] /\ \A j \in 1 .. 1 - 1 : s[j] = t[j]
    BY <1>2, <1>3, <1>4, <1>5
  <2>2. Lower(s, t)
    BY <2>1 DEF Lower
  <2>3. QED BY <1>1, <2>2 DEF Precedes
<1>6. CASE t[1] = 0
  <2>1. 2 \in DOMAIN s /\ s[2] < t[2] /\ \A j \in 1 .. 2 - 1 : s[j] = t[j]
    <3>1. \A j \in 1 .. 2 - 1 : j = 1
      OBVIOUS
    <3>2. QED BY <1>2, <1>3, <1>4, <1>6, <3>1
  <2>2. Lower(s, t)
    BY <2>1 DEF Lower
  <2>3. QED BY <1>1, <2>2 DEF Precedes
<1>7. QED BY <1>5, <1>6

(* The first of a part of a queue *)
LEMMA FirstOfQueue ==
    ASSUME NEW some, NEW labelled, Drawable(some, labelled), NEW part \in SUBSET some,
           part # {}, \A c, d \in part : c.repo = d.repo
    PROVE  \E c \in part : \A d \in part \ {c} : Precedes(some, labelled, c, d)
<1>1. PICK key : key = [c \in part |-> QueueKey(some, labelled, c)]
  OBVIOUS
<1>2. key \in [part -> Tuples(5)]
  BY <1>1, QueueKeyIs
<1>3. \A c, d \in part : key[c] = key[d] => c = d
  BY <1>1, QueueTells
<1>4. IsFiniteSet(part)
  BY FS_Subset DEF Drawable
<1>5. \E c \in part : \A d \in part \ {c} : Lower(key[c], key[d])
  BY <1>2, <1>3, <1>4, LowestOf
<1>6. QED BY <1>1, <1>5 DEF Precedes

(* What may still be drawn *)
LEMMA OptionsAre ==
    ASSUME NEW some, NEW labelled, Drawable(some, labelled), NEW taken, NEW cap \in Nat
    PROVE  /\ Options(some, labelled, taken, cap) \in SUBSET (some \ Range(taken))
           /\ IsFiniteSet(Options(some, labelled, taken, cap))
           /\ \A c, d \in Options(some, labelled, taken, cap) : c.repo = d.repo => c = d
<1> DEFINE P == Options(some, labelled, taken, cap)
<1>1. P \in SUBSET (some \ Range(taken))
  BY DEF Options
<1>2. P \in SUBSET some
  BY <1>1
<1>3. IsFiniteSet(P)
  BY <1>2, FS_Subset DEF Drawable
<1>4. ASSUME NEW c \in P, NEW d \in P, c.repo = d.repo, c # d PROVE FALSE
  <2>1. c \in OfRepo(some, d) \ (Range(taken) \cup {d})
    BY <1>1, <1>4 DEF OfRepo
  <2>2. d \in OfRepo(some, c) \ (Range(taken) \cup {c})
    BY <1>1, <1>4 DEF OfRepo
  <2>3. Precedes(some, labelled, c, d) /\ Precedes(some, labelled, d, c)
    BY <2>1, <2>2 DEF Options
  <2>4. QED BY <1>2, <2>3, PrecedesOrders
<1>5. QED BY <1>1, <1>3, <1>4

(* While there is something to draw, one of it is drawn. *)
LEMMA FurtherIs ==
    ASSUME NEW some, NEW labelled, Drawable(some, labelled), NEW taken \in Seq(some),
           NEW cap \in Nat
    PROVE  \/ /\ Options(some, labelled, taken, cap) = {}
              /\ Further(some, labelled, taken, cap) = taken
           \/ \E c \in Options(some, labelled, taken, cap) :
                Further(some, labelled, taken, cap) = Append(taken, c)
<1> DEFINE P == Options(some, labelled, taken, cap)
           First(c) == \A d \in P \ {c} : Lower(TurnKey(taken, c), TurnKey(taken, d))
<1>1. CASE P = {}
  BY <1>1 DEF Further
<1>2. CASE P # {}
  <2>1. \E c \in P : First(c)
    <3>1. \A c \in P : TurnKey(taken, c) \in Tuples(3)
      <4> TAKE c \in P
      <4>1. c \in some
        BY OptionsAre
      <4>2. PathRank[c.file] \in Nat /\ Digest[c.repo] \in Nat
        BY <4>1 DEF Drawable
      <4>3. Cardinality(OfRepo(Range(taken), c)) \in Nat
        <5>1. Range(taken) \in SUBSET some
          BY DEF Range
        <5>2. OfRepo(Range(taken), c) \in SUBSET some
          BY <5>1 DEF OfRepo
        <5>3. IsFiniteSet(OfRepo(Range(taken), c))
          BY <5>2, FS_Subset DEF Drawable
        <5>4. QED BY <5>3, FS_CardinalityType
      <4>4. PICK n : n = Cardinality(OfRepo(Range(taken), c))
        OBVIOUS
      <4>5. TurnKey(taken, c) = <<PathRank[c.file], n, Digest[c.repo]>>
        BY <4>4 DEF TurnKey
      <4>6. QED BY <4>2, <4>3, <4>4, <4>5 DEF Tuples
    <3>2. \A c, d \in P : TurnKey(taken, c) = TurnKey(taken, d) => c = d
      <4>1. ASSUME NEW c \in P, NEW d \in P, TurnKey(taken, c) = TurnKey(taken, d)
            PROVE  c = d
        <5>1. PICK m, n : m = Cardinality(OfRepo(Range(taken), c))
                            /\ n = Cardinality(OfRepo(Range(taken), d))
          OBVIOUS
        <5>2. <<PathRank[c.file], m, Digest[c.repo]>> = <<PathRank[d.file], n, Digest[d.repo]>>
          BY <4>1, <5>1 DEF TurnKey
        <5>3. Digest[c.repo] = Digest[d.repo]
          BY <5>2
        <5>4. c \in some /\ d \in some
          BY OptionsAre
        <5>5. c.repo = d.repo
          BY <5>3, <5>4 DEF Drawable
        <5>6. QED BY <5>5, OptionsAre
      <4>2. QED BY <4>1
    <3>3. IsFiniteSet(P)
      BY OptionsAre
    <3> HIDE DEF P
    <3>4. PICK key : key = [c \in P |-> TurnKey(taken, c)]
      OBVIOUS
    <3>5. key \in [P -> Tuples(3)] /\ \A c, d \in P : key[c] = key[d] => c = d
      BY <3>1, <3>2, <3>4
    <3>6. \E c \in P : \A d \in P \ {c} : Lower(key[c], key[d])
      BY <1>2, <3>3, <3>5, LowestOf
    <3>7. QED BY <3>4, <3>6
  <2>2. PICK e : e = CHOOSE c \in P : First(c)
    OBVIOUS
  <2>3. e \in P
    <3> HIDE DEF P, First
    <3>1. QED BY <2>1, <2>2, Zenon
  <2>4. Further(some, labelled, taken, cap) = Append(taken, e)
    BY <1>2, <2>2 DEF Further
  <2>5. QED BY <2>3, <2>4
<1>3. QED BY <1>1, <1>2

(* What is drawn comes off the heads of the queues. *)
Drawn(some, labelled, taken, cap) ==
    /\ taken \in Seq(some)
    /\ \A i, j \in 1 .. Len(taken) : taken[i] = taken[j] => i = j
    /\ \A c \in some : Cardinality(OfRepo(Range(taken), c)) <= cap
    /\ \A c \in Range(taken) : \A d \in some \ Range(taken) :
            c.repo = d.repo => Precedes(some, labelled, c, d)

(* A sequence and one more. *)
LEMMA ExtensionIs ==
    ASSUME NEW S, NEW t \in Seq(S), NEW e \in S
    PROVE  /\ Append(t, e) \in Seq(S)
           /\ Len(Append(t, e)) = Len(t) + 1
           /\ \A i \in 1 .. Len(t) : Append(t, e)[i] = t[i]
           /\ Append(t, e)[Len(t) + 1] = e
           /\ Range(Append(t, e)) = Range(t) \cup {e}
           /\ Range(t) \subseteq S
           /\ Range(t) = {t[i] : i \in 1 .. Len(t)}
<1>1. PICK s : s = Append(t, e)
  OBVIOUS
<1>2. /\ s \in Seq(S) /\ Len(s) = Len(t) + 1 /\ Len(t) \in Nat
      /\ \A i \in 1 .. Len(t) : s[i] = t[i]
      /\ s[Len(t) + 1] = e
  BY <1>1
<1>3. DOMAIN s = 1 .. Len(s) /\ DOMAIN t = 1 .. Len(t) /\ t \in [1 .. Len(t) -> S]
  <2>1. DOMAIN s = 1 .. Len(s)
    BY <1>2, LenProperties
  <2>2. t \in [1 .. Len(t) -> S]
    BY LenProperties
  <2>3. QED BY <2>1, <2>2
<1>4. Range(t) = {t[i] : i \in 1 .. Len(t)} /\ Range(s) = {s[i] : i \in 1 .. Len(s)}
  BY <1>3 DEF Range
<1>5. Range(t) \subseteq S
  BY <1>3, <1>4
<1>6. Range(s) = Range(t) \cup {e}
  <2>1. ASSUME NEW i \in 1 .. Len(s) PROVE s[i] \in Range(t) \cup {e}
    <3>1. i \in 1 .. Len(t) \/ i = Len(t) + 1
      BY <1>2
    <3>2. QED BY <1>2, <1>4, <3>1
  <2>2. ASSUME NEW i \in 1 .. Len(t) PROVE t[i] \in Range(s)
    <3>1. i \in 1 .. Len(s) /\ s[i] = t[i]
      BY <1>2
    <3>2. QED BY <1>4, <3>1
  <2>3. e \in Range(s)
    <3>1. Len(t) + 1 \in 1 .. Len(s)
      BY <1>2
    <3>2. QED BY <1>2, <1>4, <3>1
  <2>4. QED BY <1>4, <2>1, <2>2, <2>3
<1>7. QED BY <1>1, <1>2, <1>4, <1>5, <1>6

(* Drawing the head of a queue keeps it so. *)
LEMMA DrawnStep ==
    ASSUME NEW some, NEW labelled, Drawable(some, labelled), NEW cap \in Nat, NEW taken,
           Drawn(some, labelled, taken, cap), NEW e \in Options(some, labelled, taken, cap)
    PROVE  Drawn(some, labelled, Append(taken, e), cap)
<1>1. /\ taken \in Seq(some)
      /\ \A i, j \in 1 .. Len(taken) : taken[i] = taken[j] => i = j
      /\ \A c \in some : Cardinality(OfRepo(Range(taken), c)) <= cap
      /\ \A c \in Range(taken) : \A d \in some \ Range(taken) :
            c.repo = d.repo => Precedes(some, labelled, c, d)
  BY DEF Drawn
<1>2. /\ e \in some /\ e \notin Range(taken)
      /\ Cardinality(OfRepo(Range(taken), e)) < cap
      /\ \A d \in OfRepo(some, e) \ (Range(taken) \cup {e}) : Precedes(some, labelled, e, d)
  BY DEF Options
<1>3. PICK s : s = Append(taken, e)
  OBVIOUS
<1>4. /\ s \in Seq(some) /\ Len(s) = Len(taken) + 1
      /\ \A i \in 1 .. Len(taken) : s[i] = taken[i]
      /\ s[Len(taken) + 1] = e
      /\ Range(s) = Range(taken) \cup {e}
      /\ Range(taken) \subseteq some
      /\ Range(taken) = {taken[i] : i \in 1 .. Len(taken)}
  BY <1>1, <1>2, <1>3, ExtensionIs
<1>5. ASSUME NEW i \in 1 .. Len(s), NEW j \in 1 .. Len(s), s[i] = s[j] PROVE i = j
  <2>1. \A k \in 1 .. Len(s) : k \in 1 .. Len(taken) \/ k = Len(taken) + 1
    <3>1. Len(taken) \in Nat
      BY <1>1
    <3>2. QED BY <1>4, <3>1
  <2>2. \A k \in 1 .. Len(taken) : s[k] # e
    BY <1>2, <1>4
  <2>3. QED BY <1>1, <1>4, <1>5, <2>1, <2>2
<1>6. ASSUME NEW c \in some PROVE Cardinality(OfRepo(Range(s), c)) <= cap
  <2>1. CASE c.repo = e.repo
    <3>1. PICK R : R = OfRepo(Range(taken), e)
      OBVIOUS
    <3>2. OfRepo(Range(s), c) = R \cup {e} /\ e \notin R
      BY <1>2, <1>4, <2>1, <3>1 DEF OfRepo
    <3>3. R \in SUBSET some /\ IsFiniteSet(some)
      BY <1>4, <3>1 DEF OfRepo, Drawable
    <3>4. IsFiniteSet(R)
      BY <3>3, FS_Subset
    <3>5. Cardinality(R \cup {e}) = Cardinality(R) + 1
      BY <3>2, <3>4, FS_AddElement
    <3>6. Cardinality(R) \in Nat /\ Cardinality(R) < cap
      BY <1>2, <3>1, <3>4, FS_CardinalityType
    <3>7. QED BY <3>2, <3>5, <3>6
  <2>2. CASE c.repo # e.repo
    <3>1. OfRepo(Range(s), c) = OfRepo(Range(taken), c)
      BY <1>4, <2>2 DEF OfRepo
    <3>2. QED BY <1>1, <3>1
  <2>3. QED BY <2>1, <2>2
<1>7. ASSUME NEW c \in Range(s), NEW d \in some \ Range(s), c.repo = d.repo
      PROVE  Precedes(some, labelled, c, d)
  <2>1. d \in some \ Range(taken) /\ d # e
    BY <1>4
  <2>2. CASE c \in Range(taken)
    BY <1>1, <1>7, <2>1, <2>2
  <2>3. CASE c = e
    <3>1. d \in OfRepo(some, e)
      BY <1>7, <2>3 DEF OfRepo
    <3>2. QED BY <1>2, <2>1, <2>3, <3>1
  <2>4. QED BY <1>4, <2>2, <2>3
<1>8. QED BY <1>3, <1>4, <1>5, <1>6, <1>7 DEF Drawn

(* The packet as far as it is filled: only a lack of candidates stops it. *)
Filled(some, labelled, taken, cap, i) ==
    /\ Drawn(some, labelled, taken, cap)
    /\ Len(taken) <= i
    /\ Len(taken) = i \/ Options(some, labelled, taken, cap) = {}

(* The packet is filled until it is full or nothing may be drawn. *)
LEMMA SelectedFills ==
    ASSUME NEW some, NEW labelled, Drawable(some, labelled), NEW cap \in Nat, NEW n \in Nat
    PROVE  Filled(some, labelled, Selected(some, labelled, n, cap), cap, n)
<1>1. PICK h : /\ Steps(h, n, some, labelled, cap)
               /\ Selected(some, labelled, n, cap) = h[n]
  BY SelectedIs
<1>2. Filled(some, labelled, h[0], cap, 0)
  <2>1. h[0] = <<>>
    BY <1>1 DEF Steps
  <2>2. <<>> \in Seq(some) /\ Len(<<>>) = 0 /\ Range(<<>>) = {}
    BY DEF Range
  <2>3. \A c : Cardinality(OfRepo({}, c)) = 0
    <3>1. \A c : OfRepo({}, c) = {}
      BY DEF OfRepo
    <3>2. QED BY <3>1, FS_EmptySet
  <2>4. \A i, j \in 1 .. 0 : i = j
    OBVIOUS
  <2>5. Drawn(some, labelled, <<>>, cap)
    BY <2>2, <2>3, <2>4 DEF Drawn
  <2>6. QED BY <2>1, <2>2, <2>5 DEF Filled
<1>3. ASSUME NEW i \in 1 .. n, Filled(some, labelled, h[i - 1], cap, i - 1)
      PROVE  Filled(some, labelled, h[i], cap, i)
  <2>1. h[i] = Further(some, labelled, h[i - 1], cap)
    BY <1>1 DEF Steps
  <2>2. PICK t : t = h[i - 1]
    OBVIOUS
  <2>3. /\ Drawn(some, labelled, t, cap) /\ Len(t) <= i - 1 /\ t \in Seq(some) /\ Len(t) \in Nat
        /\ Len(t) = i - 1 \/ Options(some, labelled, t, cap) = {}
    BY <1>3, <2>2 DEF Filled, Drawn
  <2>4. \/ Options(some, labelled, t, cap) = {} /\ h[i] = t
        \/ \E c \in Options(some, labelled, t, cap) : h[i] = Append(t, c)
    BY <2>1, <2>2, <2>3, FurtherIs
  <2>5. CASE Options(some, labelled, t, cap) = {} /\ h[i] = t
    <3>1. Len(t) <= i
      BY <2>3
    <3>2. QED BY <2>3, <2>5, <3>1 DEF Filled
  <2>6. ASSUME NEW c \in Options(some, labelled, t, cap), h[i] = Append(t, c)
        PROVE  Filled(some, labelled, h[i], cap, i)
    <3>1. Drawn(some, labelled, h[i], cap)
      BY <2>3, <2>6, DrawnStep
    <3>2. c \in some
      BY OptionsAre
    <3>3. Len(h[i]) = i
      BY <2>3, <2>6, <3>2, ExtensionIs
    <3>4. QED BY <3>1, <3>3 DEF Filled
  <2>7. QED BY <2>4, <2>5, <2>6
<1> DEFINE N == {i \in 0 .. n : ~Filled(some, labelled, h[i], cap, i)}
<1>4. N = {}
  <2> SUFFICES ASSUME N # {} PROVE FALSE
    OBVIOUS
  <2>1. N \subseteq Nat
    OBVIOUS
  <2>2. PICK m \in N : \A v \in N : m <= v
    <3> HIDE DEF N
    <3>1. QED BY <2>1, LeastIs
  <2>3. m \in 0 .. n /\ ~Filled(some, labelled, h[m], cap, m) /\ m # 0
    BY <1>2
  <2>4. m \in 1 .. n /\ m - 1 \in 0 .. n /\ ~(m <= m - 1)
    BY <2>3
  <2>5. m - 1 \notin N
    BY <2>2, <2>4
  <2>6. Filled(some, labelled, h[m - 1], cap, m - 1)
    BY <2>4, <2>5
  <2>7. QED BY <1>3, <2>3, <2>4, <2>6
<1>5. n \in 0 .. n
  OBVIOUS
<1>6. QED BY <1>1, <1>4, <1>5

Before(some, labelled, c) == {d \in some : Precedes(some, labelled, d, c)}

Allowed(some, labelled, cap) == {c \in some : Cardinality(Before(some, labelled, c)) < cap}

(* Finitely many come before a candidate. *)
LEMMA BeforeIs ==
    ASSUME NEW some, NEW labelled, Drawable(some, labelled), NEW c
    PROVE  /\ IsFiniteSet(Before(some, labelled, c))
           /\ Cardinality(Before(some, labelled, c)) \in Nat
<1>1. Before(some, labelled, c) \in SUBSET some
  BY DEF Before
<1>2. IsFiniteSet(Before(some, labelled, c))
  BY <1>1, FS_Subset DEF Drawable
<1>3. QED BY <1>2, FS_CardinalityType

(* Nothing is drawn beyond the first few of a queue, *)
LEMMA DrawnIsAllowed ==
    ASSUME NEW some, NEW labelled, Drawable(some, labelled), NEW cap \in Nat, NEW taken,
           Drawn(some, labelled, taken, cap)
    PROVE  Range(taken) \subseteq Allowed(some, labelled, cap)
<1>1. Range(taken) \subseteq some
  <2>1. taken \in [1 .. Len(taken) -> some]
    BY LenProperties DEF Drawn
  <2>2. QED BY <2>1 DEF Range
<1>2. ASSUME NEW c \in Range(taken) PROVE Cardinality(Before(some, labelled, c)) < cap
  <2>1. PICK B, R : B = Before(some, labelled, c) /\ R = OfRepo(Range(taken), c)
    OBVIOUS
  <2>2. c \in some /\ c \in R /\ c \notin B
    BY <1>1, <1>2, <2>1, PrecedesOrders DEF OfRepo, Before
  <2>3. B \subseteq R
    <3> SUFFICES ASSUME NEW d \in B PROVE d \in R
      OBVIOUS
    <3>1. d \in some /\ Precedes(some, labelled, d, c) /\ d.repo = c.repo
      BY <2>1 DEF Before, Precedes
    <3>2. d \in Range(taken)
      <4> SUFFICES ASSUME d \notin Range(taken) PROVE FALSE
        OBVIOUS
      <4>1. Precedes(some, labelled, c, d)
        BY <1>2, <3>1 DEF Drawn
      <4>2. QED BY <2>2, <3>1, <4>1, PrecedesOrders
    <3>3. QED BY <2>1, <3>1, <3>2 DEF OfRepo
  <2>4. R \in SUBSET some
    BY <1>1, <2>1 DEF OfRepo
  <2>5. IsFiniteSet(R)
    BY <2>4, FS_Subset DEF Drawable
  <2>6. Cardinality(B) \in Nat /\ Cardinality(R) \in Nat /\ Cardinality(B) < Cardinality(R)
    BY <2>2, <2>3, <2>5, Fewer
  <2>7. Cardinality(R) <= cap
    BY <2>1, <2>2 DEF Drawn
  <2>8. QED BY <2>1, <2>6, <2>7
<1>3. QED BY <1>1, <1>2 DEF Allowed

(* and when nothing can be drawn any more, all of these are. *)
LEMMA AllowedIsDrawn ==
    ASSUME NEW some, NEW labelled, Drawable(some, labelled), NEW cap \in Nat, NEW taken,
           Drawn(some, labelled, taken, cap), Options(some, labelled, taken, cap) = {}
    PROVE  Allowed(some, labelled, cap) \subseteq Range(taken)
<1> SUFFICES ASSUME NEW c \in Allowed(some, labelled, cap), c \notin Range(taken) PROVE FALSE
  OBVIOUS
<1>1. c \in some /\ Cardinality(Before(some, labelled, c)) < cap
  BY DEF Allowed
<1>2. PICK part : part = OfRepo(some, c) \ Range(taken)
  OBVIOUS
<1>3. part \in SUBSET some /\ part # {} /\ \A d \in part : d.repo = c.repo
  BY <1>1, <1>2 DEF OfRepo
<1>4. PICK x \in part : \A d \in part \ {x} : Precedes(some, labelled, x, d)
  BY <1>3, FirstOfQueue
<1>5. x \in some \ Range(taken) /\ x.repo = c.repo
  BY <1>2, <1>3
<1>6. OfRepo(some, x) \ (Range(taken) \cup {x}) = part \ {x}
  BY <1>2, <1>5 DEF OfRepo
<1>7. ~(Cardinality(OfRepo(Range(taken), x)) < cap)
  BY <1>4, <1>5, <1>6 DEF Options
<1>8. PICK B, R : B = Before(some, labelled, c) /\ R = OfRepo(Range(taken), x)
  OBVIOUS
<1>9. Range(taken) \subseteq some
  <2>1. taken \in [1 .. Len(taken) -> some]
    BY LenProperties DEF Drawn
  <2>2. QED BY <2>1 DEF Range
<1>10. R \in SUBSET B
  <2>1. ASSUME NEW d \in R PROVE d \in B
    <3>1. d \in Range(taken) /\ d.repo = c.repo /\ d \in some
      BY <1>5, <1>8, <1>9 DEF OfRepo
    <3>2. Precedes(some, labelled, d, c)
      BY <1>1, <3>1 DEF Drawn
    <3>3. QED BY <1>8, <3>1, <3>2 DEF Before
  <2>2. QED BY <2>1
<1>11. IsFiniteSet(B) /\ Cardinality(B) \in Nat
  BY <1>8, BeforeIs
<1>12. IsFiniteSet(R) /\ Cardinality(R) <= Cardinality(B)
  BY <1>10, <1>11, FS_Subset
<1>13. Cardinality(R) \in Nat
  BY <1>12, FS_CardinalityType
<1>14. ~(Cardinality(R) < cap) /\ Cardinality(B) < cap
  BY <1>1, <1>7, <1>8
<1>15. QED BY <1>11, <1>12, <1>13, <1>14

(* The packet asks as much as it may, each once. *)
Packed(some, labelled, cap, limit, t, b) ==
    /\ Drawn(some, labelled, t, cap)
    /\ Len(t) \in Nat /\ b \in Nat
    /\ Cardinality(Range(t)) = Len(t)
    /\ Range(t) \subseteq some
    /\ Len(t) <= b /\ Len(t) <= limit /\ (Len(t) = b \/ Len(t) = limit)
    /\ b <= Cardinality(some)

(* It takes the first few of every queue. *)
LEMMA PacketIsFull ==
    ASSUME NEW some, NEW labelled, Drawable(some, labelled), NEW cap \in Nat, NEW limit \in Nat,
           NEW t, t = Selected(some, labelled, limit, cap),
           NEW b, b = Balanced(some, labelled, cap)
    PROVE  Packed(some, labelled, cap, limit, t, b)
<1>1. PICK A : A = Allowed(some, labelled, cap)
  OBVIOUS
<1>2. Filled(some, labelled, t, cap, limit)
  BY SelectedFills
<1>3. /\ Drawn(some, labelled, t, cap) /\ Len(t) <= limit
      /\ Len(t) = limit \/ Options(some, labelled, t, cap) = {}
  BY <1>2 DEF Filled
<1>4. /\ t \in Seq(some) /\ Len(t) \in Nat
      /\ \A i, j \in 1 .. Len(t) : t[i] = t[j] => i = j
  BY <1>3 DEF Drawn
<1>5. t \in [1 .. Len(t) -> some] /\ DOMAIN t = 1 .. Len(t)
  BY <1>4, LenProperties
<1>6. Range(t) = {t[i] : i \in 1 .. Len(t)} /\ Range(t) \subseteq some
  BY <1>5 DEF Range
<1>7. IsFiniteSet(Range(t)) /\ Cardinality(Range(t)) = Len(t)
  <2>1. t \in Bijection(1 .. Len(t), Range(t))
    BY <1>4, <1>5, <1>6 DEF Bijection, Injection, Surjection, IsInjective
  <2>2. PICK n \in Nat : n = Len(t)
    BY <1>4
  <2>3. IsFiniteSet(1 .. n) /\ Cardinality(1 .. n) = n
    BY FS_Interval
  <2>4. ExistsBijection(1 .. n, Range(t))
    BY <2>1, <2>2 DEF ExistsBijection
  <2>5. QED BY <2>2, <2>3, <2>4, FS_Bijection
<1>8. b = Cardinality(A)
  BY <1>1 DEF Balanced, Allowed, Before
<1>9. A \in SUBSET some
  BY <1>1 DEF Allowed
<1>10. IsFiniteSet(some) /\ IsFiniteSet(A) /\ Cardinality(A) <= Cardinality(some)
  BY <1>9, FS_Subset DEF Drawable
<1>11. Cardinality(A) \in Nat
  BY <1>10, FS_CardinalityType
<1>12. Range(t) \in SUBSET A
  BY <1>1, <1>3, DrawnIsAllowed
<1>13. Cardinality(Range(t)) <= Cardinality(A)
  BY <1>10, <1>12, FS_Subset
<1>14. Len(t) = Cardinality(A) \/ Len(t) = limit
  <2>1. CASE Options(some, labelled, t, cap) = {}
    <3>1. A \subseteq Range(t)
      BY <1>1, <1>3, <2>1, AllowedIsDrawn
    <3>2. A = Range(t)
      BY <1>12, <3>1
    <3>3. QED BY <1>7, <3>2
  <2>2. QED BY <1>3, <2>1
<1>15. QED BY <1>1, <1>3, <1>4, <1>6, <1>7, <1>8, <1>10, <1>11, <1>13, <1>14 DEF Packed

(* Some candidate of each rule is the first of the first family. *)
LEMMA RulesBegin ==
    ASSUME NEW some, NEW labelled, Drawable(some, labelled), NEW d \in some
    PROVE  \E e \in OfRule(some, d) : Depth(some, e) = 0 /\ FamilyDepth(some, e) = 0
<1> DEFINE D == {FamilyDepth(some, x) : x \in OfRule(some, d)}
<1>1. OfRule(some, d) \subseteq some /\ d \in OfRule(some, d)
  BY DEF OfRule
<1>2. D \subseteq Nat /\ D # {}
  BY <1>1, FamilyDepthIs
<1>3. PICK m \in D : \A v \in D : m <= v
  <2> HIDE DEF D
  <2>1. QED BY <1>2, LeastIs
<1>4. PICK x \in OfRule(some, d) : m = FamilyDepth(some, x)
  OBVIOUS
<1>5. x \in some /\ x.repo = d.repo /\ x.rule = d.rule /\ OfRule(some, x) = OfRule(some, d)
  BY DEF OfRule
<1>6. FamilyDepth(some, x) = 0
  <2>1. ASSUME NEW e \in OfRule(some, x), Lower(FamilyKey(some, e), FamilyKey(some, x))
        PROVE  FALSE
    <3>1. e \in some /\ x.repo = e.repo /\ x.rule = e.rule
      BY <1>5, <2>1 DEF OfRule
    <3>2. FamilyDepth(some, e) < FamilyDepth(some, x)
      BY <1>5, <2>1, <3>1, FamilyDepthIs
    <3>3. FamilyDepth(some, x) <= FamilyDepth(some, e)
      BY <1>3, <1>4, <1>5
    <3>4. FamilyDepth(some, e) \in Nat /\ FamilyDepth(some, x) \in Nat
      BY <1>5, <3>1, FamilyDepthIs
    <3>5. QED BY <3>2, <3>3, <3>4
  <2>2. {FamilyOf(g) : g \in {e \in OfRule(some, x) :
                Lower(FamilyKey(some, e), FamilyKey(some, x))}} = {}
    BY <2>1
  <2>3. FamilyDepth(some, x) = Cardinality({})
    BY <2>2 DEF FamilyDepth
  <2>4. QED BY <2>3, FS_EmptySet
<1> DEFINE E == {Depth(some, y) : y \in OfFamily(some, x)}
<1>7. OfFamily(some, x) \subseteq some /\ x \in OfFamily(some, x)
  BY <1>5 DEF OfFamily
<1>8. E \subseteq Nat /\ E # {}
  BY <1>7, DepthIs
<1>9. PICK k \in E : \A v \in E : k <= v
  <2> HIDE DEF E
  <2>1. QED BY <1>8, LeastIs
<1>10. PICK y \in OfFamily(some, x) : k = Depth(some, y)
  OBVIOUS
<1>11. y \in some /\ FamilyOf(y) = FamilyOf(x)
  BY DEF OfFamily
<1>12. Depth(some, y) = 0
  <2>1. ASSUME NEW e \in some, FamilyOf(e) = FamilyOf(y), Ahead(e, y) PROVE FALSE
    <3>1. Depth(some, e) < Depth(some, y)
      BY <1>11, <2>1, DepthIs
    <3>2. e \in OfFamily(some, x)
      BY <1>11, <2>1 DEF OfFamily
    <3>3. Depth(some, y) <= Depth(some, e)
      BY <1>9, <1>10, <3>2
    <3>4. Depth(some, e) \in Nat /\ Depth(some, y) \in Nat
      BY <1>11, <2>1, DepthIs
    <3>5. QED BY <3>1, <3>3, <3>4
  <2>2. {e \in some : FamilyOf(e) = FamilyOf(y) /\ Ahead(e, y)} = {}
    BY <2>1
  <2>3. Depth(some, y) = Cardinality({})
    BY <2>2 DEF Depth
  <2>4. QED BY <2>3, FS_EmptySet
<1>13. y.repo = x.repo /\ y.rule = x.rule
  BY <1>11, FamilyIs
<1>14. FamilyDepth(some, y) = FamilyDepth(some, x)
  <2>1. OfRule(some, y) = OfRule(some, x)
    BY <1>13 DEF OfRule
  <2>2. FamilyKey(some, y) = FamilyKey(some, x)
    BY <1>5, <1>11, FamilyKeyIs
  <2>3. QED BY <2>1, <2>2 DEF FamilyDepth
<1>15. y \in OfRule(some, d)
  BY <1>5, <1>11, <1>13 DEF OfRule
<1>16. QED BY <1>6, <1>12, <1>14, <1>15

(* A set of more than one has two. *)
LEMMA TwoOf ==
    ASSUME NEW S, IsFiniteSet(S), Cardinality(S) > 1
    PROVE  \E x, y \in S : x # y
<1>1. S # {}
  BY FS_EmptySet
<1>2. PICK x \in S : TRUE
  BY <1>1
<1>3. Cardinality({x}) = 1
  BY FS_Singleton
<1>4. S # {x}
  BY <1>3
<1>5. QED BY <1>2, <1>4

(* No rule is asked about twice before each of its engagement is once. *)
LEMMA RulesTakeTurns ==
    ASSUME NEW some, NEW labelled, Drawable(some, labelled), NEW cap \in Nat, NEW taken,
           Drawn(some, labelled, taken, cap), Range(taken) \subseteq some,
           NEW c \in Range(taken), NEW d \in some,
           Cardinality(OfRule(Range(taken), c)) > 1, d.repo = c.repo
    PROVE  OfRule(Range(taken), d) # {}
<1>1. PICK R : R = OfRule(Range(taken), c)
  OBVIOUS
<1>2. R \in SUBSET some /\ \A x \in R : x \in Range(taken) /\ x.repo = c.repo /\ x.rule = c.rule
  BY <1>1 DEF OfRule
<1>3. IsFiniteSet(R)
  BY <1>2, FS_Subset DEF Drawable
<1>4. PICK x \in R, y \in R : x # y
  BY <1>1, <1>3, TwoOf
<1>5. ~(/\ Depth(some, x) = 0 /\ FamilyDepth(some, x) = 0
        /\ Depth(some, y) = 0 /\ FamilyDepth(some, y) = 0)
  <2> SUFFICES ASSUME Depth(some, x) = Depth(some, y), FamilyDepth(some, x) = FamilyDepth(some, y)
               PROVE  FALSE
    OBVIOUS
  <2>1. x \in some /\ y \in some /\ x.repo = y.repo /\ x.rule = y.rule
    BY <1>2
  <2>2. FamilyOf(x) = FamilyOf(y)
    BY <2>1, FamilyDepthTells
  <2>3. QED BY <1>4, <2>1, <2>2, DepthTells
<1>6. PICK z \in R : Depth(some, z) # 0 \/ FamilyDepth(some, z) # 0
  BY <1>4, <1>5
<1>7. PICK e \in OfRule(some, d) : Depth(some, e) = 0 /\ FamilyDepth(some, e) = 0
  BY RulesBegin
<1>8. e \in some /\ e.repo = d.repo /\ e.rule = d.rule /\ z \in some /\ z.repo = e.repo
  BY <1>2, <1>6, <1>7 DEF OfRule
<1>9. Precedes(some, labelled, e, z)
  BY <1>6, <1>7, <1>8, OnesPrecede
<1>10. e \in Range(taken)
  <2> SUFFICES ASSUME e \notin Range(taken) PROVE FALSE
    OBVIOUS
  <2>1. Precedes(some, labelled, z, e)
    BY <1>2, <1>6, <1>8 DEF Drawn
  <2>2. QED BY <1>8, <1>9, <2>1, PrecedesOrders
<1>11. e \in OfRule(Range(taken), d)
  BY <1>8, <1>10 DEF OfRule
<1>12. QED BY <1>11

(* What the funnel leaves repeats no evidence: *)
Funnelled(raw, pairs, once, exact, paths, capped) ==
    /\ once \in SUBSET raw /\ exact \in SUBSET once
    /\ paths \in SUBSET exact /\ capped \in SUBSET paths
    /\ \A c, d \in capped : c # d /\ Evidence(c) = Evidence(d) =>
            c.repo # d.repo /\ <<c.repo, d.repo>> \notin pairs

(* each stage is part of the one before, and two of one evidence do not stay. *)
LEMMA FunnelIs ==
    ASSUME NEW raw, NEW labelled, Drawable(raw, labelled), NEW pairs, NEW cap,
           NEW once, once = CollapsePrePost(raw, pairs),
           NEW exact, exact = CollapseExact(once),
           NEW paths, paths = InTiers(exact, FALSE),
           NEW capped, capped = CapFamilies(paths, cap)
    PROVE  Funnelled(raw, pairs, once, exact, paths, capped)
<1>1. once \in SUBSET raw /\ exact \in SUBSET once
  BY DEF CollapsePrePost, CollapseExact
<1>2. paths \in SUBSET exact /\ capped \in SUBSET paths
  BY DEF InTiers, CapFamilies
<1>3. ASSUME NEW c \in capped, NEW d \in capped, c # d, Evidence(c) = Evidence(d)
      PROVE  c.repo # d.repo /\ <<c.repo, d.repo>> \notin pairs
  <2>1. c \in exact /\ d \in exact /\ c \in once /\ d \in once /\ c \in raw /\ d \in raw
    BY <1>1, <1>2
  <2>2. <<c.repo, d.repo>> \notin pairs
    BY <1>3, <2>1 DEF CollapsePrePost
  <2>3. c.repo # d.repo
    <3> SUFFICES ASSUME c.repo = d.repo PROVE FALSE
      OBVIOUS
    <3>1. Exact(c) = Exact(d)
      BY <1>3 DEF Exact
    <3>2. Ahead(c, d) /\ Ahead(d, c)
      BY <1>3, <2>1, <3>1 DEF CollapseExact
    <3>3. QED BY <2>1, <3>2, AheadOrders
  <2>4. QED BY <2>2, <2>3
<1>4. \A c, d \in capped : c # d /\ Evidence(c) = Evidence(d) =>
            c.repo # d.repo /\ <<c.repo, d.repo>> \notin pairs
  BY ONLY <1>3
<1>5. QED BY ONLY <1>1, <1>2, <1>4 DEF Funnelled

(* The lesser of two numbers *)
LEMMA LesserIs ==
    ASSUME NEW l \in Nat, NEW m \in Nat, NEW n, n = l \/ n = m, n <= l, n <= m
    PROVE  n = Min({l, m})
<1>1. {l, m} \subseteq Nat /\ {l, m} # {}
  OBVIOUS
<1>2. PICK k : k = Min({l, m})
  OBVIOUS
<1>3. k \in {l, m} /\ \A v \in {l, m} : k <= v
  BY <1>1, <1>2, LeastIs
<1>4. k \in Nat /\ k <= l /\ k <= m /\ (k = l \/ k = m)
  BY <1>3
<1>5. n = k
  BY <1>4
<1>6. QED BY <1>2, <1>5

(* Every plan is fair. *)
LEMMA PlanIsFair ==
    ASSUME NEW raw, NEW labelled, Drawable(raw, labelled), NEW pairs, NEW limit \in Nat,
           NEW perFamily \in Nat, NEW perRepo \in Nat
    PROVE  FairPlan(raw, labelled, pairs, limit, perFamily, perRepo)
<1>1. PICK once, exact, paths, capped, entries, b :
            /\ once = CollapsePrePost(raw, pairs)
            /\ exact = CollapseExact(once)
            /\ paths = InTiers(exact, FALSE)
            /\ capped = CapFamilies(paths, perFamily)
            /\ entries = Selected(capped, labelled, limit, perRepo)
            /\ b = Balanced(capped, labelled, perRepo)
  OBVIOUS
<1>2. /\ once \in SUBSET raw /\ exact \in SUBSET once
      /\ paths \in SUBSET exact /\ capped \in SUBSET paths
      /\ \A c, d \in capped : c # d /\ Evidence(c) = Evidence(d) =>
            c.repo # d.repo /\ <<c.repo, d.repo>> \notin pairs
  <2>1. Funnelled(raw, pairs, once, exact, paths, capped)
    BY <1>1, FunnelIs
  <2>2. QED BY <2>1 DEF Funnelled
<1>3. Drawable(paths, labelled) /\ Drawable(capped, labelled)
  <2>1. paths \in SUBSET raw /\ capped \in SUBSET raw
    BY <1>2
  <2>2. QED BY <2>1, SomeDrawable
<1>4. /\ Drawn(capped, labelled, entries, perRepo)
      /\ Len(entries) \in Nat /\ b \in Nat
      /\ Cardinality(Range(entries)) = Len(entries)
      /\ Range(entries) \subseteq capped
      /\ Len(entries) <= b /\ Len(entries) <= limit
      /\ Len(entries) = b \/ Len(entries) = limit
      /\ b <= Cardinality(capped)
  <2>1. Packed(capped, labelled, perRepo, limit, entries, b)
    BY <1>1, <1>3, PacketIsFull
  <2>2. QED BY <2>1 DEF Packed
<1>5. PICK f : f = <<Cardinality(raw), Cardinality(once), Cardinality(exact),
                     Cardinality(paths), Cardinality(capped), b, Len(entries)>>
  OBVIOUS
<1>6. \A i \in 1 .. 6 : f[i] >= f[i + 1]
  <2>1. IsFiniteSet(raw) /\ Cardinality(raw) \in Nat
    BY FS_CardinalityType DEF Drawable
  <2>2. IsFiniteSet(once) /\ Cardinality(once) <= Cardinality(raw)
    BY <1>2, <2>1, FS_Subset
  <2>3. IsFiniteSet(exact) /\ Cardinality(exact) <= Cardinality(once)
    BY <1>2, <2>2, FS_Subset
  <2>4. IsFiniteSet(paths) /\ Cardinality(paths) <= Cardinality(exact)
    BY <1>2, <2>3, FS_Subset
  <2>5. IsFiniteSet(capped) /\ Cardinality(capped) <= Cardinality(paths)
    BY <1>2, <2>4, FS_Subset
  <2>6. /\ Cardinality(once) \in Nat /\ Cardinality(exact) \in Nat
        /\ Cardinality(paths) \in Nat /\ Cardinality(capped) \in Nat
    BY <2>2, <2>3, <2>4, <2>5, FS_CardinalityType
  <2>7. PICK u, v, w, x, y, z : /\ u = Cardinality(raw) /\ v = Cardinality(once)
                                /\ w = Cardinality(exact) /\ x = Cardinality(paths)
                                /\ y = Cardinality(capped) /\ z = Len(entries)
    OBVIOUS
  <2>8. /\ {u, v, w, x, y, z, b} \subseteq Nat
        /\ u >= v /\ v >= w /\ w >= x /\ x >= y /\ y >= b /\ b >= z
    BY <1>4, <2>1, <2>2, <2>3, <2>4, <2>5, <2>6, <2>7
  <2>9. f = <<u, v, w, x, y, b, z>>
    BY <1>5, <2>7
  <2>10. QED BY ONLY <2>8, <2>9
<1>7. f[6] = b
  BY <1>5
<1>8. Len(entries) = Min({limit, b})
  BY <1>4, LesserIs
<1>9. PICK asked : asked = Range(entries)
  OBVIOUS
<1>10. \A c, d \in asked : c # d /\ Evidence(c) = Evidence(d) =>
            c.repo # d.repo /\ <<c.repo, d.repo>> \notin pairs
  BY <1>2, <1>4, <1>9
<1>11. \A c \in asked : /\ Cardinality(OfFamily(asked, c)) <= perFamily
                        /\ Cardinality(OfRepo(asked, c)) <= perRepo
  <2> TAKE c \in asked
  <2>1. asked \in SUBSET CapFamilies(paths, perFamily)
    BY <1>1, <1>4, <1>9
  <2>2. Cardinality(OfFamily(asked, c)) <= perFamily
    BY <1>3, <2>1, FamiliesAreCapped
  <2>3. c \in capped
    BY <1>4, <1>9
  <2>4. Cardinality(OfRepo(asked, c)) <= perRepo
    BY <1>4, <1>9, <2>3 DEF Drawn
  <2>5. QED BY <2>2, <2>4
<1>12. \A c \in asked, d \in capped :
            Cardinality(OfRule(asked, c)) > 1 /\ d.repo = c.repo => OfRule(asked, d) # {}
  <2> SUFFICES ASSUME NEW c \in asked, NEW d \in capped,
                      Cardinality(OfRule(asked, c)) > 1, d.repo = c.repo
               PROVE  OfRule(asked, d) # {}
    OBVIOUS
  <2>1. QED BY <1>3, <1>4, <1>9, RulesTakeTurns
<1>13. PICK made : made = Plan(raw, labelled, pairs, FALSE, limit, perFamily, perRepo)
  OBVIOUS
<1>14. made.entries = entries /\ made.pool = capped /\ made.funnel = f
  BY <1>1, <1>5, <1>13 DEF Plan
<1>15. QED BY <1>4, <1>6, <1>7, <1>8, <1>9, <1>10, <1>11, <1>12, <1>13, <1>14 DEF FairPlan

(* So is every plan that may be asked for. *)
LEMMA PlansAreAlwaysFair == PlansAreFair
<1> SUFFICES ASSUME NEW d \in Drafts
             PROVE  FairPlan(d.raw, d.labelled, d.pairs, d.limit, d.perFamily, d.perRepo)
  BY DEF PlansAreFair
<1>1. /\ IsFiniteSet(d.raw)
      /\ {d.limit, d.perFamily, d.perRepo} \subseteq Nat \ {0}
      /\ \A c \in d.raw :
            /\ {c.finding, c.hash, d.labelled[c.rule]} \subseteq Nat
            /\ PathRank[c.file] \in 0 .. 5
            /\ \A k \in {"repo", "producer", "rule", "sink"} : Digest[c[k]] \in Nat
            /\ \A e \in d.raw :
                /\ c.finding = e.finding => c = e
                /\ \A k \in {"repo", "producer", "rule", "sink"} :
                        Digest[c[k]] = Digest[e[k]] => c[k] = e[k]
  BY DraftsAssumption
<1>2. Drawable(d.raw, d.labelled)
  BY <1>1 DEF Drawable
<1>3. d.limit \in Nat /\ d.perFamily \in Nat /\ d.perRepo \in Nat
  BY <1>1
<1>4. QED BY <1>2, <1>3, PlanIsFair

(* What analysts are asked is fair, whatever candidates a plan is made of and
   whatever its options: the funnel decreases, the packet is as full as the caps
   allow, no evidence is asked twice, and no rule is asked about again before
   every rule of its engagement was (build_review_acquisition_plan).  And it is
   shown as a label would be about it. *)
THEOREM PacketsAreFair == RunsSpec => []PacketsAreSound
<1>1. PacketIsOfEvidence => PacketsAreSound
  BY PlansAreAlwaysFair DEF PacketsAreSound
<1>2. QED BY <1>1, PacketsAreOfEvidence, PTL

===============================================================================
