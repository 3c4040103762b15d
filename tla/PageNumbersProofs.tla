-------------------------- MODULE PageNumbersProofs --------------------------
(***************************************************************************)
(* Facts about page numbers, for every number and every first number.      *)
(***************************************************************************)
EXTENDS PageNumbers, TLAPS

\* Dividing by two, as as_double_page_number does: the provers know \div and % only
\* through a quotient.
LEMMA Halves ==
  ASSUME NEW n \in Nat
  PROVE  \E k \in Nat : n = 2 * k \/ n = 2 * k + 1
<1>1. n \div 2 \in Nat /\ n = 2 * (n \div 2) + (n % 2) /\ n % 2 \in {0, 1}
  OBVIOUS
<1> QED BY <1>1

\* Python's division and remainder round down below zero, like TLA+'s.
LEMMA BelowZero == (0 - 1) \div 2 = 0 - 1 /\ (0 - 1) % 2 = 1
<1>1. ASSUME NEW a \in Int, a = 0 - 1
      PROVE  a \div 2 = 0 - 1 /\ a % 2 = 1
  <2>1. PICK q \in Int : q = a \div 2
    OBVIOUS
  <2>2. PICK r \in Int : r = a % 2
    OBVIOUS
  <2>3. 2 * q <= a /\ a < 2 * q + 2 /\ a = 2 * q + r
    BY <2>1, <2>2
  <2>4. q = 0 - 1 /\ r = 1
    BY <1>1, <2>3
  <2> QED BY <2>1, <2>2, <2>4
<1>2. 0 - 1 \in Int
  OBVIOUS
<1> QED BY <1>1, <1>2

\* PageNumber.__init__ keeps what __int__ gives: a number is rebuilt from its
\* integer and its first number.
LEMMA Renumbered ==
  ASSUME NEW n \in Nat, NEW start \in Nat
  PROVE  NumberedFrom(n + start, start) = [number |-> n, offset |-> start]
BY DEF NumberedFrom

\* PageNumber.next is never refused and counts the page up by one.
LEMMA NextIsPage ==
  ASSUME NEW p \in PageNumber
  PROVE  NextPage(p) = [number |-> p.number + 1, offset |-> p.offset]
BY DEF NextPage, NumberedFrom, IntOf, PageNumber

\* as_double_page_number: the cover is alone, then odd pages open a spread
\* and even ones close it.
LEMMA DoubleOfPage ==
  ASSUME NEW k \in Nat, NEW start \in Nat
  PROVE  /\ AsDouble([number |-> 0, offset |-> start])
              = [number |-> 0, index |-> 0, offset |-> start]
         /\ AsDouble([number |-> 2 * k + 1, offset |-> start])
              = [number |-> k + 1, index |-> 0, offset |-> start]
         /\ AsDouble([number |-> 2 * k + 2, offset |-> start])
              = [number |-> k + 1, index |-> 1, offset |-> start]
<1>1. (0 - 1) \div 2 + 1 = 0
  BY BelowZero
<1>2. (2 * k + 1 - 1) \div 2 + 1 = k + 1 /\ (2 * k + 1 + 1) % 2 = 0
  OBVIOUS
<1>3. (2 * k + 2 - 1) \div 2 + 1 = k + 1 /\ (2 * k + 2 + 1) % 2 = 1
  OBVIOUS
<1> QED BY <1>1, <1>2, <1>3 DEF AsDouble, Double

\* Every page is the cover, opens a spread or closes one.
LEMMA PageCases ==
  ASSUME NEW p \in PageNumber
  PROVE  \/ p = [number |-> 0, offset |-> p.offset]
         \/ \E k \in Nat : p = [number |-> 2 * k + 1, offset |-> p.offset]
         \/ \E k \in Nat : p = [number |-> 2 * k + 2, offset |-> p.offset]
<1>1. p = [number |-> p.number, offset |-> p.offset] /\ p.number \in Nat /\ p.offset \in Nat
  BY DEF PageNumber
<1>2. CASE p.number = 0
  BY <1>1, <1>2
<1>3. CASE p.number # 0
  <2>1. PICK k \in Nat : p.number - 1 = 2 * k \/ p.number - 1 = 2 * k + 1
    <3>1. p.number - 1 \in Nat
      BY <1>1, <1>3
    <3> QED BY <3>1, Halves
  <2>2. p.number = 2 * k + 1 \/ p.number = 2 * k + 2
    BY <1>1, <2>1
  <2> QED BY <1>1, <2>2
<1> QED BY <1>2, <1>3

\* as_page_number on each kind of double page.
LEMMA PageOfDouble ==
  ASSUME NEW k \in Nat, NEW start \in Nat
  PROVE  /\ AsPage([number |-> 0, index |-> 0, offset |-> start])
              = [number |-> 0, offset |-> start]
         /\ AsPage([number |-> k + 1, index |-> 0, offset |-> start])
              = [number |-> 2 * k + 1, offset |-> start]
         /\ AsPage([number |-> k + 1, index |-> 1, offset |-> start])
              = [number |-> 2 * k + 2, offset |-> start]
<1>1. (k + 1) * 2 - 1 + 0 = 2 * k + 1 /\ (k + 1) * 2 - 1 + 1 = 2 * k + 2 /\ k + 1 # 0
  OBVIOUS
<1>2. 2 * k + 1 \in Nat /\ 2 * k + 2 \in Nat /\ 0 \in Nat
  OBVIOUS
<1> QED BY <1>1, <1>2, Renumbered DEF AsPage

\* A page number survives the way to the double page and back, whatever number the
\* provider gives its first page: the image fetched is the page that is saved.
THEOREM PageThereAndBack ==
  ASSUME NEW p \in PageNumber
  PROVE  AsPage(AsDouble(p)) = p
<1> DEFINE start == p.offset
<1>0. start \in Nat /\ 0 \in Nat
  BY DEF PageNumber
<1> HIDE DEF start
<1>1. AsPage(AsDouble([number |-> 0, offset |-> start])) = [number |-> 0, offset |-> start]
  BY <1>0, DoubleOfPage, PageOfDouble
<1>2. ASSUME NEW k \in Nat
      PROVE  /\ AsPage(AsDouble([number |-> 2 * k + 1, offset |-> start]))
                  = [number |-> 2 * k + 1, offset |-> start]
             /\ AsPage(AsDouble([number |-> 2 * k + 2, offset |-> start]))
                  = [number |-> 2 * k + 2, offset |-> start]
  BY <1>0, DoubleOfPage, PageOfDouble
<1> QED BY <1>1, <1>2, PageCases DEF start

\* And so does a double page number: no two pages share a side of a spread, and
\* every side of every spread is a page.
THEOREM DoubleThereAndBack ==
  ASSUME NEW d \in DoublePageNumber
  PROVE  AsPage(d) \in PageNumber /\ AsDouble(AsPage(d)) = d
<1>1. /\ d.number \in Nat /\ d.index \in {0, 1} /\ d.offset \in Nat
      /\ d.number = 0 => d.index = 0
      /\ d = [number |-> d.number, index |-> d.index, offset |-> d.offset]
  BY DEF DoublePageNumber
<1>2. CASE d.number = 0
  <2>1. d = [number |-> 0, index |-> 0, offset |-> d.offset]
    BY <1>1, <1>2
  <2>2. AsPage(d) = [number |-> 0, offset |-> d.offset]
    BY <1>1, <2>1, PageOfDouble
  <2>3. AsDouble([number |-> 0, offset |-> d.offset])
          = [number |-> 0, index |-> 0, offset |-> d.offset]
    BY <1>1, DoubleOfPage
  <2> QED BY <1>1, <2>1, <2>2, <2>3 DEF PageNumber
<1>3. CASE d.number # 0
  <2>1. PICK k \in Nat : d.number = k + 1
    <3>1. d.number - 1 \in Nat /\ d.number = (d.number - 1) + 1
      BY <1>1, <1>3
    <3> QED BY <3>1
  <2>2. \/ d = [number |-> k + 1, index |-> 0, offset |-> d.offset]
        \/ d = [number |-> k + 1, index |-> 1, offset |-> d.offset]
    BY <1>1, <2>1
  <2>3. 2 * k + 1 \in Nat /\ 2 * k + 2 \in Nat
    OBVIOUS
  <2>4. CASE d = [number |-> k + 1, index |-> 0, offset |-> d.offset]
    <3>1. AsPage(d) = [number |-> 2 * k + 1, offset |-> d.offset]
      BY <1>1, <2>4, PageOfDouble
    <3>2. AsDouble(AsPage(d)) = [number |-> k + 1, index |-> 0, offset |-> d.offset]
      BY <1>1, <3>1, DoubleOfPage
    <3> QED BY <1>1, <2>3, <2>4, <3>1, <3>2 DEF PageNumber
  <2>5. CASE d = [number |-> k + 1, index |-> 1, offset |-> d.offset]
    <3>1. AsPage(d) = [number |-> 2 * k + 2, offset |-> d.offset]
      BY <1>1, <2>5, PageOfDouble
    <3>2. AsDouble(AsPage(d)) = [number |-> k + 1, index |-> 1, offset |-> d.offset]
      BY <1>1, <3>1, DoubleOfPage
    <3> QED BY <1>1, <2>3, <2>5, <3>1, <3>2 DEF PageNumber
  <2> QED BY <2>2, <2>4, <2>5
<1> QED BY <1>2, <1>3

\* The double pages are turned as the pages are: next and prev agree on both kinds,
\* over the cover and the fold alike.
THEOREM TurningAgrees ==
  ASSUME NEW p \in PageNumber
  PROVE  /\ NextDouble(AsDouble(p)) = AsDouble(NextPage(p))
         /\ PrevDouble(AsDouble(NextPage(p))) = AsDouble(p)
<1> DEFINE start == p.offset
<1>0. start \in Nat /\ NextPage(p) = [number |-> p.number + 1, offset |-> start]
  BY NextIsPage DEF PageNumber
<1>1. CASE p = [number |-> 0, offset |-> start]
  <2>1. p.number + 1 = 2 * 0 + 1 /\ 0 \in Nat /\ 0 + 1 = 1
    BY <1>1
  <2>2. AsDouble(p) = [number |-> 0, index |-> 0, offset |-> start]
    BY <1>0, <1>1, DoubleOfPage
  <2>3. AsDouble(NextPage(p)) = [number |-> 0 + 1, index |-> 0, offset |-> start]
    BY <1>0, <2>1, DoubleOfPage
  <2>4. 0 % 2 = 0 /\ (0 - 1) % 2 = 1 /\ 1 - 1 = 0
    BY BelowZero
  <2> HIDE DEF start
  <2> QED BY <2>1, <2>2, <2>3, <2>4 DEF NextDouble, PrevDouble, Double
<1>2. ASSUME NEW k \in Nat, p = [number |-> 2 * k + 1, offset |-> start]
      PROVE  /\ NextDouble(AsDouble(p)) = AsDouble(NextPage(p))
             /\ PrevDouble(AsDouble(NextPage(p))) = AsDouble(p)
  <2>1. p.number + 1 = 2 * k + 2
    BY <1>2
  <2>2. AsDouble(p) = [number |-> k + 1, index |-> 0, offset |-> start]
    BY <1>0, <1>2, DoubleOfPage
  <2>3. AsDouble(NextPage(p)) = [number |-> k + 1, index |-> 1, offset |-> start]
    BY <1>0, <2>1, DoubleOfPage
  <2>4. k + 1 # 0 /\ (0 + 1) % 2 = 1 /\ 1 % 2 = 1 /\ (1 - 1) % 2 = 0 /\ 0 % 2 = 0
    OBVIOUS
  <2>5. k + 1 + 0 = k + 1 /\ k + 1 - 0 = k + 1
    OBVIOUS
  <2> HIDE DEF start
  <2> QED BY <2>2, <2>3, <2>4, <2>5 DEF NextDouble, PrevDouble, Double
<1>3. ASSUME NEW k \in Nat, p = [number |-> 2 * k + 2, offset |-> start]
      PROVE  /\ NextDouble(AsDouble(p)) = AsDouble(NextPage(p))
             /\ PrevDouble(AsDouble(NextPage(p))) = AsDouble(p)
  <2>1. p.number + 1 = 2 * (k + 1) + 1 /\ k + 1 \in Nat
    BY <1>3
  <2>2. AsDouble(p) = [number |-> k + 1, index |-> 1, offset |-> start]
    BY <1>0, <1>3, DoubleOfPage
  <2>3. AsDouble(NextPage(p)) = [number |-> (k + 1) + 1, index |-> 0, offset |-> start]
    <3> DEFINE m == k + 1
    <3>1. NextPage(p) = [number |-> 2 * m + 1, offset |-> start] /\ m \in Nat
      BY <1>0, <2>1
    <3> HIDE DEF m
    <3>2. AsDouble(NextPage(p)) = [number |-> m + 1, index |-> 0, offset |-> start]
      BY <1>0, <3>1, DoubleOfPage
    <3> QED BY <3>2 DEF m
  <2>4. /\ k + 1 # 0 /\ (k + 1) + 1 # 0 /\ (k + 1) + 1 - 1 = k + 1
        /\ (1 + 1) % 2 = 0 /\ 0 % 2 = 0 /\ (0 - 1) % 2 = 1 /\ 1 % 2 = 1
    BY BelowZero
  <2> HIDE DEF start
  <2> QED BY <2>2, <2>3, <2>4 DEF NextDouble, PrevDouble, Double
<1> QED BY <1>1, <1>2, <1>3, PageCases

\* Adding a page to a double page turns it, and subtracting one turns it back.
THEOREM CountingAgrees ==
  ASSUME NEW p \in PageNumber
  PROVE  /\ DoublePlus(AsDouble(p), 1) = AsDouble(NextPage(p))
         /\ DoublePlus(AsDouble(NextPage(p)), 0 - 1) = AsDouble(p)
<1>1. p.number \in Nat /\ p.offset \in Nat /\ p = [number |-> p.number, offset |-> p.offset]
  BY DEF PageNumber
<1>2. NextPage(p) \in PageNumber /\ NextPage(p) # NoPage /\ p # NoPage
  BY <1>1, NextIsPage, NoPageAssumption DEF PageNumber
<1>3. PagePlus(p, 1) = NextPage(p)
  BY <1>1 DEF PagePlus, NextPage, NumberedFrom, IntOf
<1>4. PagePlus(NextPage(p), 0 - 1) = p
  BY <1>1, NextIsPage DEF PagePlus, NumberedFrom
<1>5. AsPage(AsDouble(p)) = p /\ AsPage(AsDouble(NextPage(p))) = NextPage(p)
  BY <1>2, PageThereAndBack
<1> QED BY <1>2, <1>3, <1>4, <1>5 DEF DoublePlus

=============================================================================
