----------------------------- MODULE PageNumbers -----------------------------
(***************************************************************************)
(* The arithmetic of utils/page_numbers.py.  A page number counts pages    *)
(* from 0 and remembers the number the provider gives its first page; a    *)
(* double page number names the spread a page lies on and its side there.  *)
(* Spread 0 is the cover, which has one side only.                         *)
(***************************************************************************)
EXTENDS Integers

CONSTANT NoPage   \* None, and the ValueError of a number below the first one

PageNumber == [number : Nat, offset : Nat]
DoublePageNumber == {d \in [number : Nat, index : {0, 1}, offset : Nat] :
                       d.number = 0 => d.index = 0}

ASSUME NoPageAssumption == NoPage \notin PageNumber \cup DoublePageNumber

\* PageNumber.__init__ and __int__: start is the number of the first page.
NumberedFrom(n, start) ==
  IF n < start THEN NoPage ELSE [number |-> n - start, offset |-> start]

IntOf(p) == p.number + p.offset

\* PageNumber.next and prev
NextPage(p) == NumberedFrom(IntOf(p) + 1, p.offset)
PrevPage(p) == IF p.number = 0 THEN NoPage ELSE NumberedFrom(IntOf(p) - 1, p.offset)

\* DoublePageNumber.__init__: the cover has no second side.
Double(n, index, start) ==
  [number |-> n, index |-> IF n = 0 THEN 0 ELSE index % 2, offset |-> start]

\* Mutant: the cover is taken for a spread of two pages.
AsDoubleEven(p) == Double(p.number \div 2, p.number % 2, p.offset)

AsDouble(p) ==
  Double((p.number - 1) \div 2 + 1,
         IF p.number # 0 THEN (p.number + 1) % 2 ELSE 0, p.offset)

AsPage(d) ==
  NumberedFrom((IF d.number = 0 THEN 0 ELSE d.number * 2 - 1 + d.index) + d.offset,
               d.offset)

\* Mutant: the spread is left with either side.
NextDoubleEager(d) == Double(d.number + 1, (d.index + 1) % 2, d.offset)

\* DoublePageNumber.next and prev
NextDouble(d) ==
  IF d.number = 0 THEN Double(1, 0, d.offset)
  ELSE Double(d.number + d.index, (d.index + 1) % 2, d.offset)

PrevDouble(d) ==
  IF d.number = 0 THEN NoPage
  ELSE LET side == (d.index - 1) % 2 IN Double(d.number - side, side, d.offset)

\* Adding or subtracting k pages (k may be negative), on either kind.
PagePlus(p, k) == NumberedFrom(p.number + k + p.offset, p.offset)
DoublePlus(d, k) ==
  LET q == PagePlus(AsPage(d), k) IN IF q = NoPage THEN NoPage ELSE AsDouble(q)

=============================================================================
