----------------------- MODULE ProviderWindowsProofs -----------------------
(***************************************************************************)
(* What holds of the provider classes' windows in every calendar, for      *)
(* every day and for two fetches in a row.                                 *)
(***************************************************************************)
EXTENDS ProviderWindows, TLAPS

Calendars == [first : 0 .. 6, leap : BOOLEAN]

LEMMA WeekdayType ==
  ASSUME calendar \in Calendars, NEW d \in Int
  PROVE  Weekday(d) \in 0 .. 6
BY DEF Calendars, Weekday

\* A week begins on Monday, on which its weekdays are counted, and has its day in it.
LEMMA MondayWindow ==
  ASSUME calendar \in Calendars, NEW d \in Int
  PROVE  /\ MondayOf(d) \in Int
         /\ MondayOf(d) <= d /\ d < MondayOf(d) + 7
         /\ Weekday(MondayOf(d)) = 0
<1>1. PICK f \in 0 .. 6 : f = calendar.first
  BY DEF Calendars
<1>2. Weekday(d) \in 0 .. 6 /\ (f + (d - ((f + d) % 7))) % 7 = 0
  BY <1>1, WeekdayType
<1> QED
  BY <1>1, <1>2 DEF MondayOf, Weekday

\* The catalogs that change on Wednesday.
LEMMA WednesdayWindow ==
  ASSUME calendar \in Calendars, NEW d \in Int
  PROVE  /\ WednesdayOf(d) \in Int
         /\ WednesdayOf(d) <= d /\ d < WednesdayOf(d) + 7
BY WeekdayType DEF WednesdayOf, Wednesday

LEMMA NewYearBefore ==
  ASSUME calendar \in Calendars, NEW d \in 0 .. 729
  PROVE  NewYear(d) \in Int /\ 0 <= NewYear(d) /\ NewYear(d) <= d
BY DEF Calendars, NewYear, YearLength

\* A well-formed window.
Window(i) == i.since \in Int /\ i.until \in Int /\ i.since < i.until
Holds(i, d) == d \in i.since .. (i.until - 1)

LEMMA WeekIssueHolds ==
  ASSUME calendar \in Calendars, NEW d \in Int, NEW address
  PROVE  Window(WeekIssue(d, address)) /\ Holds(WeekIssue(d, address), d)
BY MondayWindow DEF WeekIssue, Issue, Window, Holds

LEMMA ActionHolds ==
  ASSUME calendar \in Calendars, NEW d \in Int
  PROVE  Window(Action(d)) /\ Holds(Action(d), d)
BY WednesdayWindow DEF Action, Issue, Window, Holds

\* Hofer's window is past from Friday to Sunday.
LEMMA HoferHolds ==
  ASSUME calendar \in Calendars, NEW d \in Int
  PROVE  Window(Hofer(d)) /\ (Holds(Hofer(d), d) <=> Weekday(d) < Friday)
BY WeekdayType DEF Hofer, Issue, Window, Holds, Friday

\* Kik's window is the first four weeks of the year, all year long.
LEMMA KikHolds ==
  ASSUME calendar \in Calendars, NEW d \in 0 .. 729
  PROVE  Window(Kik(d)) /\ (Holds(Kik(d), d) <=> d - MondayOf(NewYear(d)) < 28)
<1>1. NewYear(d) \in Int /\ NewYear(d) <= d
  BY NewYearBefore
<1>2. MondayOf(NewYear(d)) \in Int /\ MondayOf(NewYear(d)) <= NewYear(d)
  BY <1>1, MondayWindow
<1> QED
  BY <1>1, <1>2 DEF Kik, Issue, Window, Holds

\* Every class, on every day it may be fetched on.
LEMMA IssueHolds ==
  ASSUME calendar \in Calendars, NEW u \in AllUids, NEW d \in 7 .. 700
  PROVE  /\ Window(IssueOf(u, d))
         /\ Holds(IssueOf(u, d), DescribedDay(u, d)) <=> ~Misses(u, d)
<1> USE DEF AllUids, CurrentWeek, NextWeek, SecondNextWeek
<1> DEFINE Right == /\ Window(IssueOf(u, d))
                    /\ Holds(IssueOf(u, d), DescribedDay(u, d)) <=> ~Misses(u, d)
<1>0. /\ d \in Int /\ d + 7 \in Int /\ d + 14 \in Int /\ d - 7 \in Int
      /\ d + (7 * 0) = d /\ d + (7 * 1) = d + 7 /\ d + (7 * 2) = d + 14
  OBVIOUS
<1>1. CASE u = "action-de"
  BY <1>0, <1>1, ActionHolds DEF IssueOf, DescribedDay, Misses
<1>2. CASE u \in {"aldi-nord-de", "aldi-sued-de", "edeka-markt-de", "metro-de", "netto-de",
                  "norma-de", "penny-de", "rewe-de", "rossmann-beilage-de",
                  "rossmann-aktion-de"}
  BY <1>0, <1>2, WeekIssueHolds
     DEF IssueOf, DescribedDay, Misses, AldiNord, AldiSued, EdekaMarkt, MetroWochenangebote,
         Netto, Norma, Penny, Rewe, RossmannBeilage, RossmannAktion
<1>3. CASE u \in {"kaufland-de", "kaufland-sonder-de", "lidl-de", "lidl-it"}
  BY <1>0, <1>3, WeekIssueHolds
     DEF IssueOf, DescribedDay, Misses, KauflandWoche, KauflandSonder, LidlDeutschland,
         LidlItalia, Flyer
<1>4. CASE u \in {"aldi-nord-de-preview", "aldi-sued-de-preview", "metro-de-preview",
                  "netto-de-preview", "norma-de-preview", "penny-de-preview",
                  "rewe-de-preview"}
  BY <1>0, <1>4, WeekIssueHolds
     DEF IssueOf, DescribedDay, Misses, AldiNordPreview, AldiNord, AldiSuedPreview, AldiSued,
         MetroWochenangebotePreview, MetroWochenangebote, NettoPreview, Netto, NormaPreview,
         Norma, PennyPreview, Penny, RewePreview, Rewe
<1>5. CASE u \in {"kaufland-de-preview", "lidl-de-preview", "lidl-de-preview-2"}
  BY <1>0, <1>5, WeekIssueHolds
     DEF IssueOf, DescribedDay, Misses, KauflandWochePreview, LidlDeutschlandPreview,
         LidlDeutschlandPrepreview, Flyer
<1>6. CASE u \in {"aldi-sued-de-preview-2", "norma-de-preview-2", "norma-de-retrospect"}
  BY <1>0, <1>6, WeekIssueHolds
     DEF IssueOf, DescribedDay, Misses, AldiSuedPrepreview, AldiSued, NormaPrepreview,
         NormaRetrospect, Norma
<1>7. CASE u = "norma-de-retrospect-2"
  <2>1. MondayOf(d + 14) \in Int /\ d + 14 < MondayOf(d + 14) + 7
    BY <1>0, MondayWindow
  <2>2. IssueOf(u, d) = WeekIssue(d + 14, <<YearOf(d + 14), Week(d + 14)>>)
    BY <1>7 DEF IssueOf, NormaRetrospect2, Norma
  <2>3. DescribedDay(u, d) = d - 14 /\ Misses(u, d)
    BY <1>7 DEF DescribedDay, Misses
  <2> QED
    BY <1>0, <2>1, <2>2, <2>3, WeekIssueHolds DEF WeekIssue, Issue, Window, Holds
<1>8. CASE u \in {"hofer-au", "hofer-au-preview"}
  <2>1. Weekday(d + 7) = Weekday(d)
    BY DEF Weekday, Calendars
  <2>2. Weekday(d) \in Int
    BY <1>0, WeekdayType
  <2>3. CASE u = "hofer-au"
    BY <1>0, <2>2, <2>3, HoferHolds DEF IssueOf, DescribedDay, Misses, Friday
  <2>4. CASE u = "hofer-au-preview"
    BY <1>0, <2>1, <2>2, <2>4, HoferHolds
       DEF IssueOf, DescribedDay, Misses, HoferPreview, Friday
  <2> QED
    BY <1>8, <2>3, <2>4
<1>9. CASE u = "kik-de"
  <2>1. d \in 0 .. 729 /\ NewYear(d) \in Int
    BY NewYearBefore
  <2>2. MondayOf(NewYear(d)) \in Int
    BY <2>1, MondayWindow
  <2>3. IssueOf(u, d) = Kik(d) /\ DescribedDay(u, d) = d
    BY <1>9 DEF IssueOf, DescribedDay
  <2>4. Misses(u, d) <=> ~(d - MondayOf(NewYear(d)) < 28)
    BY <1>9, <2>1, <2>2 DEF Misses
  <2> QED
    BY <2>1, <2>3, <2>4, KikHolds
<1> QED
  BY <1>1, <1>2, <1>3, <1>4, <1>5, <1>6, <1>7, <1>8, <1>9

-----------------------------------------------------------------------------

WindowsInv == TypeOK /\ WindowsHoldTheDay

LEMMA WindowsInit == Init => WindowsInv
BY WindowsAssumption DEF Init, WindowsInv, TypeOK, WindowsHoldTheDay

LEMMA WindowsStep == WindowsInv /\ [Next]_vars => WindowsInv'
<1> SUFFICES ASSUME WindowsInv, [Next]_vars PROVE WindowsInv'
  OBVIOUS
<1> USE DEF WindowsInv
<1>1. CASE NextDay
  <2>1. TypeOK'
    BY <1>1, WindowsAssumption DEF NextDay, TypeOK
  <2>2. WindowsHoldTheDay'
    BY <1>1 DEF NextDay, WindowsHoldTheDay, HoldsDescribedDay, Misses, Weekday, MondayOf,
                NewYear, YearLength
  <2> QED
    BY <2>1, <2>2
<1>2. CASE FetchCatalog
  <2>1. calendar \in Calendars /\ uid \in AllUids /\ today \in 7 .. 700
    BY WindowsAssumption, UidsAssumption DEF TypeOK, Calendars
  <2>2. PICK u \in AllUids, d \in 7 .. 700 : u = uid /\ d = today
    BY <2>1
  <2>3. /\ Window(IssueOf(u, d))
        /\ Holds(IssueOf(u, d), DescribedDay(u, d)) <=> ~Misses(u, d)
    BY <2>1, IssueHolds
  <2>4. fetched' = [day |-> d, issue |-> IssueOf(u, d)] /\ UNCHANGED <<calendar, uid, today>>
    BY <1>2, <2>2 DEF FetchCatalog
  <2>5. TypeOK'
    BY <2>2, <2>3, <2>4 DEF TypeOK, Window
  <2>6. fetched'.day = d /\ fetched'.issue = IssueOf(u, d)
    BY <2>4
  <2>7. Misses(u, d) <=> Misses(u, d)'
    BY <2>4 DEF Misses, Weekday, MondayOf, NewYear, YearLength
  <2>8. WindowsHoldTheDay'
    BY <2>2, <2>3, <2>4, <2>6, <2>7 DEF WindowsHoldTheDay, HoldsDescribedDay, Holds
  <2> QED
    BY <2>5, <2>8
<1>3. CASE UNCHANGED vars
  BY <1>3 DEF vars, TypeOK, WindowsHoldTheDay, HoldsDescribedDay, Misses, Weekday,
              MondayOf, NewYear, YearLength
<1> QED
  BY <1>1, <1>2, <1>3 DEF Next

\* Type correctness: every stored window is a window.
THEOREM WindowsTypeCorrect == Spec => []TypeOK
<1> QED
  BY WindowsInit, WindowsStep, PTL DEF Spec, WindowsInv

\* In every calendar and on every day, all classes but the second retrospect, Hofer from
\* Friday on and Kik after four weeks store a window with the day their docstring names.
THEOREM WindowsAlwaysHoldTheDay == Spec => []WindowsHoldTheDay
<1> QED
  BY WindowsInit, WindowsStep, PTL DEF Spec, WindowsInv

-----------------------------------------------------------------------------

\* Days count their weekdays on from January 1: its weekday f, the day n of the year, its
\* weekday w and the number k of turns of the week are related.
LEMMA TurnsOfTheWeek ==
  ASSUME NEW a \in Int, NEW n \in Nat
  PROVE  \E k \in Int : n - ((a + n) % 7) = (7 * k) - (a % 7)
<1>1. PICK q \in Int, r \in 0 .. 6 : a = (7 * q) + r /\ a % 7 = r
  OBVIOUS
<1>2. PICK p \in Int, w \in 0 .. 6 : a + n = (7 * p) + w /\ (a + n) % 7 = w
  OBVIOUS
<1>3. n - w = (7 * (p - q)) - r
  BY <1>1, <1>2
<1> QED
  BY <1>1, <1>2, <1>3

LEMMA DividingTurns ==
  ASSUME NEW k \in Int, NEW f \in 0 .. 6
  PROVE  /\ (((7 * k) - f) + 7) \div 7 = k + (IF f = 0 THEN 1 ELSE 0)
         /\ (((7 * k) - f) + 3) \div 7 = k - (IF f > 3 THEN 1 ELSE 0)
OBVIOUS

LEMMA WeekIsTurn ==
  ASSUME calendar \in Calendars, NEW d \in 0 .. 729
  PROVE  WeekAgainstCalendarOn(d)
<1> DEFINE y == NewYear(d)
           n == d - y
           f == Weekday(y)
           w == Weekday(d)
<1>1. y \in Int /\ n \in Nat /\ d = y + n
  BY NewYearBefore
<1>2. f \in 0 .. 6 /\ w \in 0 .. 6
  BY <1>1, WeekdayType
<1>3. calendar.first + y \in Int /\ (calendar.first + y) + n = calendar.first + d
  BY <1>1 DEF Calendars
<1>4. PICK k \in Int : n - w = (7 * k) - f
  BY <1>1, <1>3, TurnsOfTheWeek DEF Weekday
<1>5. MondaysSoFar(d) = k + (IF f = 0 THEN 1 ELSE 0)
  <2>1. MondaysSoFar(d) = (((7 * k) - f) + 7) \div 7
    BY <1>1, <1>2, <1>4 DEF MondaysSoFar
  <2> QED
    BY <1>2, <2>1, DividingTurns
<1>6. NewYear(y) = y
  BY <1>1 DEF NewYear, YearLength, Calendars
<1>7. MondaysSoFar(y) = (IF f = 0 THEN 1 ELSE 0)
  BY <1>1, <1>2, <1>6 DEF MondaysSoFar
<1>8. Week(d) = k + 1
  BY <1>2, <1>5, <1>7 DEF Week
<1>9. ASSUME ThursdayInYear(d)
      PROVE  IsoWeek(d) = (k - (IF f > 3 THEN 1 ELSE 0)) + 1
  <2>1. NewYear((d - w) + 3) = y /\ MondayOf(d) + 3 = (d - w) + 3
    BY <1>9 DEF ThursdayInYear, YearOf, NewYear, MondayOf
  <2>2. ((d - w) + 3) - y = ((7 * k) - f) + 3
    BY <1>1, <1>2, <1>4
  <2> QED
    BY <1>2, <2>1, <2>2, DividingTurns DEF IsoWeek
<1> QED
  BY <1>2, <1>8, <1>9 DEF WeekAgainstCalendarOn

\* The week numbers of the addresses are those of the printed calendar in years that
\* begin on Monday to Thursday, and one too high in the others.
THEOREM WeeksAlwaysAgainstCalendar == Spec => []WeekAgainstCalendar
<1>1. TypeOK => WeekAgainstCalendar
  BY WeekIsTurn, WindowsAssumption DEF TypeOK, Calendars, WeekAgainstCalendar
<1> QED
  BY <1>1, WindowsTypeCorrect, PTL

-----------------------------------------------------------------------------
\* Two fetches of a class that are at most a week apart.

\* The days on which fetches happen, and those that classes ask for.
FetchDays == 7 .. 700
AskDays == 0 .. 729

\* The day whose week a class asks for, as YearTurned takes it.
Ask(u, d) == CASE u = "norma-de-retrospect-2" -> d + 14 [] OTHER -> DescribedDay(u, d)

HoferUids == {"hofer-au", "hofer-au-preview"}
DatedByYear ==
  {"aldi-sued-de", "aldi-sued-de-preview", "aldi-sued-de-preview-2", "norma-de",
   "norma-de-preview", "norma-de-preview-2", "norma-de-retrospect", "norma-de-retrospect-2",
   "rewe-de", "rewe-de-preview", "rossmann-beilage-de", "rossmann-aktion-de"}
DatedByMonday == {"aldi-nord-de", "aldi-nord-de-preview"}
DatedByWeek == {"netto-de", "netto-de-preview"}
Metros == {"metro-de", "metro-de-preview"}

\* All the classes ask for a day of the two years, no later than the next but one week.
LEMMA AskType ==
  ASSUME NEW u \in AllUids
  PROVE  /\ \A d \in FetchDays : Ask(u, d) \in AskDays
         /\ \E s \in {-7, 0, 7, 14} : \A d \in FetchDays : Ask(u, d) = d + s
<1> USE DEF Ask, DescribedDay
<1>1. CASE u \in NextWeek
  <2>1. u \notin SecondNextWeek \cup {"norma-de-retrospect", "norma-de-retrospect-2"}
    BY <1>1 DEF NextWeek, SecondNextWeek
  <2>2. ASSUME NEW d \in FetchDays PROVE Ask(u, d) = d + 7
    <3>1. Ask(u, d) = DescribedDay(u, d)
      BY <2>1 DEF Ask
    <3> QED BY <1>1, <2>1, <3>1 DEF DescribedDay
  <2> QED BY <2>2 DEF FetchDays, AskDays
<1>2. CASE u \in SecondNextWeek \cup {"norma-de-retrospect-2"}
  <2>1. \A d \in FetchDays : Ask(u, d) = d + 14
    BY <1>2 DEF NextWeek, SecondNextWeek
  <2> QED BY <2>1 DEF FetchDays, AskDays
<1>3. CASE u = "norma-de-retrospect"
  <2>1. \A d \in FetchDays : Ask(u, d) = d - 7
    BY <1>3 DEF NextWeek, SecondNextWeek
  <2>2. \A d \in FetchDays : Ask(u, d) = d + (-7)
    BY <2>1
  <2> QED BY <2>1, <2>2 DEF FetchDays, AskDays
<1>4. CASE u \in CurrentWeek
  <2>1. \A d \in FetchDays : Ask(u, d) = d
    BY <1>4 DEF CurrentWeek, NextWeek, SecondNextWeek
  <2>2. \A d \in FetchDays : Ask(u, d) = d + 0
    BY <2>1 DEF FetchDays, AskDays
  <2> QED BY <2>1, <2>2 DEF FetchDays, AskDays
<1> QED BY <1>1, <1>2, <1>3, <1>4 DEF AllUids

LEMMA AskWeek ==
  ASSUME NEW u \in AllUids, NEW d \in FetchDays, NEW e \in FetchDays, d <= e, e <= d + 7
  PROVE  /\ Ask(u, d) \in AskDays /\ Ask(u, e) \in AskDays
         /\ Ask(u, d) <= Ask(u, e) /\ Ask(u, e) <= Ask(u, d) + 7
<1>1. PICK s \in {-7, 0, 7, 14} : \A c \in FetchDays : Ask(u, c) = c + s
  BY AskType
<1>2. Ask(u, d) = d + s /\ Ask(u, e) = e + s
  BY <1>1
<1>3. d + s \in AskDays /\ e + s \in AskDays /\ d + s <= e + s /\ e + s <= (d + s) + 7
  BY DEF FetchDays, AskDays
<1> QED BY <1>2, <1>3

\* What the issues of the classes have in common.
Shape(u, d) ==
  /\ IssueOf(u, d).until = IssueOf(u, d).since + 7
  /\ IssueOf(u, d).since = IF u = "action-de" THEN WednesdayOf(d)
                           ELSE IF u \in HoferUids THEN MondayOf(Ask(u, d)) - 3
                           ELSE MondayOf(Ask(u, d))
  /\ u = "action-de" =>
       IssueOf(u, d).address = <<YearOf(WednesdayOf(d)), Week(WednesdayOf(d))>>
  /\ u \in DatedByYear =>
       IssueOf(u, d).address = <<YearOf(Ask(u, d)), Week(Ask(u, d))>>
  /\ u \in DatedByMonday =>
       IssueOf(u, d).address = <<MondayOf(Ask(u, d)), Week(Ask(u, d))>>
  /\ u \in DatedByWeek => IssueOf(u, d).address = <<Week(Ask(u, d))>>
  /\ u \in Metros =>
       IssueOf(u, d).address = <<MondayOf(Ask(u, d)), (MondayOf(Ask(u, d)) + 7) - 3>>

LEMMA IssueShape ==
  ASSUME calendar \in Calendars, NEW u \in AllUids \ {"kik-de"}, NEW d \in FetchDays
  PROVE  /\ Shape(u, d)
         /\ u \in {"action-de"} \cup HoferUids \cup Undated \cup DatedByYear \cup DatedByMonday
                  \cup DatedByWeek \cup Metros
<1> USE DEF Shape, AllUids, CurrentWeek, NextWeek, SecondNextWeek
<1>0. /\ d \in Int /\ d + 7 \in Int /\ d + 14 \in Int /\ d - 7 \in Int
      /\ d + (7 * 0) = d /\ d + (7 * 1) = d + 7 /\ d + (7 * 2) = d + 14
  BY DEF FetchDays, AskDays
<1>1. u \in {"action-de"} \cup HoferUids \cup Undated \cup DatedByYear \cup DatedByMonday
            \cup DatedByWeek \cup Metros
  BY DEF HoferUids, Undated, DatedByYear, DatedByMonday, DatedByWeek, Metros
<1>2. /\ "action-de" \notin HoferUids \cup DatedByYear \cup DatedByMonday \cup DatedByWeek \cup Metros
      /\ HoferUids \cap (DatedByYear \cup DatedByMonday \cup DatedByWeek \cup Metros) = {}
      /\ Undated \cap ({"action-de"} \cup HoferUids \cup DatedByYear \cup DatedByMonday
                       \cup DatedByWeek \cup Metros) = {}
      /\ DatedByYear \cap (DatedByMonday \cup DatedByWeek \cup Metros) = {}
      /\ DatedByMonday \cap (DatedByWeek \cup Metros) = {} /\ DatedByWeek \cap Metros = {}
  BY DEF HoferUids, Undated, DatedByYear, DatedByMonday, DatedByWeek, Metros
<1>3. CASE u = "action-de"
  BY <1>2, <1>3 DEF IssueOf, Action, Issue
<1>4. CASE u \in HoferUids
  <2>1. IssueOf(u, d) = Hofer(Ask(u, d)) /\ Ask(u, d) \in Int
    BY <1>0, <1>4 DEF HoferUids, IssueOf, HoferPreview, Ask, DescribedDay
  <2>2. Weekday(Ask(u, d)) \in 0 .. 6
    BY <2>1, WeekdayType
  <2>3. Hofer(Ask(u, d)).since = MondayOf(Ask(u, d)) - 3
        /\ Hofer(Ask(u, d)).until = Hofer(Ask(u, d)).since + 7
    BY <2>1, <2>2 DEF Hofer, Issue, MondayOf, Friday
  <2> QED BY <1>2, <1>4, <2>1, <2>3 DEF HoferUids
<1>5. CASE u \in Undated
  <2>1. IssueOf(u, d) = WeekIssue(Ask(u, d), <<>>)
    BY <1>0, <1>5 DEF Undated, IssueOf, Ask, DescribedDay, EdekaMarkt, KauflandWoche,
       KauflandWochePreview, KauflandSonder, LidlDeutschland, LidlDeutschlandPreview,
       LidlDeutschlandPrepreview, LidlItalia, Flyer, Penny, PennyPreview
  <2> QED BY <1>2, <1>5, <2>1 DEF WeekIssue, Issue
<1>6. CASE u \in DatedByYear
  <2>1. IssueOf(u, d) = WeekIssue(Ask(u, d), <<YearOf(Ask(u, d)), Week(Ask(u, d))>>)
    BY <1>6 DEF DatedByYear, IssueOf, Ask, DescribedDay, AldiSued, AldiSuedPreview,
       AldiSuedPrepreview, Norma, NormaPreview, NormaPrepreview, NormaRetrospect,
       NormaRetrospect2, Rewe, RewePreview, RossmannBeilage, RossmannAktion
  <2> QED BY <1>2, <1>6, <2>1 DEF WeekIssue, Issue
<1>7. CASE u \in DatedByMonday
  <2>1. IssueOf(u, d) = WeekIssue(Ask(u, d), <<MondayOf(Ask(u, d)), Week(Ask(u, d))>>)
    BY <1>7 DEF DatedByMonday, IssueOf, Ask, DescribedDay, AldiNord, AldiNordPreview
  <2> QED BY <1>2, <1>7, <2>1 DEF WeekIssue, Issue
<1>8. CASE u \in DatedByWeek
  <2>1. IssueOf(u, d) = WeekIssue(Ask(u, d), <<Week(Ask(u, d))>>)
    BY <1>8 DEF DatedByWeek, IssueOf, Ask, DescribedDay, Netto, NettoPreview
  <2> QED BY <1>2, <1>8, <2>1 DEF WeekIssue, Issue
<1>9. CASE u \in Metros
  <2>1. IssueOf(u, d) = WeekIssue(Ask(u, d), <<MondayOf(Ask(u, d)), (MondayOf(Ask(u, d)) + 7) - 3>>)
    BY <1>9 DEF Metros, IssueOf, Ask, DescribedDay, MetroWochenangebote, MetroWochenangebotePreview
  <2> QED BY <1>2, <1>9, <2>1 DEF WeekIssue, Issue
<1> QED BY <1>1, <1>3, <1>4, <1>5, <1>6, <1>7, <1>8, <1>9

\* From one day to another at most a week later, the week is the same or the next.
LEMMA NextMonday ==
  ASSUME calendar \in Calendars, NEW d \in Int, NEW e \in d .. d + 7
  PROVE  MondayOf(e) \in {MondayOf(d), MondayOf(d) + 7}
<1>1. PICK f \in 0 .. 6 : f = calendar.first
  BY DEF Calendars
<1>2. PICK p \in Int, w \in 0 .. 6 : f + d = (7 * p) + w /\ (f + d) % 7 = w
  OBVIOUS
<1>3. PICK q \in Int, v \in 0 .. 6 : f + e = (7 * q) + v /\ (f + e) % 7 = v
  OBVIOUS
<1>4. f + d = (7 * p) + w /\ f + e = (7 * q) + v
  BY <1>2, <1>3
<1>5. MondayOf(d) = d - w /\ MondayOf(e) = e - v
  BY <1>1, <1>2, <1>3 DEF MondayOf, Weekday
<1>6. q \in {p, p + 1}
  BY <1>1, <1>4
<1> QED BY <1>1, <1>4, <1>5, <1>6

LEMMA NextWednesday ==
  ASSUME calendar \in Calendars, NEW d \in Int, NEW e \in d .. d + 7
  PROVE  WednesdayOf(e) \in {WednesdayOf(d), WednesdayOf(d) + 7}
<1>1. MondayOf(d) \in Int /\ MondayOf(e) \in Int
  BY MondayWindow
<1>2. ASSUME NEW b \in Int PROVE WednesdayOf(b) = MondayOf(b - 2) + 2
  <2>1. PICK f \in 0 .. 6 : f = calendar.first
    BY DEF Calendars
  <2>2. PICK p \in Int, w \in 0 .. 6 : f + b = (7 * p) + w /\ (f + b) % 7 = w
    OBVIOUS
  <2>3. (f + (b - 2)) % 7 = (w - 2) % 7
    <3>1. CASE w >= 2
      <4>1. f + (b - 2) = (7 * p) + (w - 2) /\ w - 2 \in 0 .. 6
        BY <2>1, <2>2, <3>1
      <4> QED BY <4>1
    <3>2. CASE w < 2
      <4>1. f + (b - 2) = (7 * (p - 1)) + (w + 5) /\ w + 5 \in 0 .. 6
        BY <2>1, <2>2, <3>2
      <4>2. (w - 2) % 7 = w + 5
        BY <2>2, <3>2
      <4> QED BY <4>1, <4>2
    <3> QED BY <3>1, <3>2
  <2>4. WednesdayOf(b) = b - ((w - 2) % 7)
    BY <2>1, <2>2 DEF WednesdayOf, Weekday, Wednesday
  <2>5. MondayOf(b - 2) = (b - 2) - ((f + (b - 2)) % 7)
    BY <2>1 DEF MondayOf, Weekday
  <2> QED BY <2>1, <2>2, <2>3, <2>4, <2>5
<1>3. MondayOf(e - 2) \in {MondayOf(d - 2), MondayOf(d - 2) + 7}
  BY NextMonday
<1>4. MondayOf(d - 2) \in Int
  BY MondayWindow
<1> QED BY <1>2, <1>3, <1>4

\* The number of a week counts the Mondays since that of the week of January 1.
LEMMA WeekMonday ==
  ASSUME calendar \in Calendars, NEW d \in AskDays
  PROVE  /\ Week(d) \in Int /\ MondayOf(NewYear(d)) \in Int
         /\ MondayOf(d) = MondayOf(NewYear(d)) + (7 * (Week(d) - 1))
<1> DEFINE y == NewYear(d)
           n == d - y
           f == Weekday(y)
           w == Weekday(d)
<1>1. y \in Int /\ n \in Nat /\ d = y + n
  BY NewYearBefore DEF FetchDays, AskDays
<1>2. f \in 0 .. 6 /\ w \in 0 .. 6
  BY <1>1, WeekdayType
<1>3. calendar.first + y \in Int /\ (calendar.first + y) + n = calendar.first + d
  BY <1>1 DEF Calendars
<1>4. PICK k \in Int : n - w = (7 * k) - f
  BY <1>1, <1>3, TurnsOfTheWeek DEF Weekday
<1>5. MondaysSoFar(d) = k + (IF f = 0 THEN 1 ELSE 0)
  <2>1. MondaysSoFar(d) = (((7 * k) - f) + 7) \div 7
    BY <1>1, <1>2, <1>4 DEF MondaysSoFar
  <2> QED
    BY <1>2, <2>1, DividingTurns
<1>6. NewYear(y) = y
  BY <1>1 DEF NewYear, YearLength, Calendars
<1>7. MondaysSoFar(y) = (IF f = 0 THEN 1 ELSE 0)
  BY <1>1, <1>2, <1>6 DEF MondaysSoFar
<1>8. Week(d) = k + 1
  BY <1>2, <1>5, <1>7 DEF Week
<1>9. MondayOf(d) = (7 * k) + MondayOf(y) /\ MondayOf(y) \in Int
  <2>1. MondayOf(d) = d - w /\ MondayOf(y) = y - f
    BY DEF MondayOf
  <2> HIDE DEF y, n, f, w
  <2>2. d - w = (7 * k) + (y - f)
    <3>1. n = d - y
      BY DEF n
    <3> QED BY <1>1, <1>2, <1>4, <3>1
  <2> QED BY <1>1, <1>2, <2>1, <2>2
<1> QED BY <1>8, <1>9

\* Of two days at most a week apart, the week numbers are the same exactly in one week of
\* one year: the last week of a year does not have the number of the first of the next.
LEMMA WeekTells ==
  ASSUME calendar \in Calendars, NEW d \in AskDays, NEW e \in AskDays, d <= e, e <= d + 7
  PROVE  Week(d) = Week(e) <=> MondayOf(d) = MondayOf(e) /\ YearOf(d) = YearOf(e)
<1>1. PICK y \in {365, 366} : y = YearLength
  BY DEF Calendars, YearLength
<1>2. /\ NewYear(d) = (IF d < y THEN 0 ELSE y) /\ NewYear(e) = (IF e < y THEN 0 ELSE y)
      /\ YearOf(d) = (IF d < y THEN 1 ELSE 2) /\ YearOf(e) = (IF e < y THEN 1 ELSE 2)
  BY <1>1 DEF NewYear, YearOf
<1>3. /\ Week(d) \in Int /\ Week(e) \in Int
      /\ MondayOf(d) = MondayOf(NewYear(d)) + (7 * (Week(d) - 1))
      /\ MondayOf(e) = MondayOf(NewYear(e)) + (7 * (Week(e) - 1))
  BY WeekMonday
<1>4. \A b \in {d, e, 0, y} : /\ MondayOf(b) \in Int
                              /\ MondayOf(b) <= b /\ b < MondayOf(b) + 7
  BY <1>1, MondayWindow DEF FetchDays, AskDays
<1>5. CASE YearOf(d) = YearOf(e)
  <2>1. NewYear(d) = NewYear(e) /\ MondayOf(NewYear(d)) \in Int
    BY <1>1, <1>2, <1>4, <1>5
  <2> QED BY <1>3, <1>5, <2>1
<1>6. CASE YearOf(d) # YearOf(e)
  <2>1. NewYear(d) = 0 /\ NewYear(e) = y /\ d < y /\ e >= y
    BY <1>1, <1>2, <1>6 DEF FetchDays, AskDays
  <2>2. Week(d) > 50
    BY <1>1, <1>3, <1>4, <2>1 DEF FetchDays, AskDays
  <2>3. Week(e) < 4
    BY <1>1, <1>3, <1>4, <2>1 DEF FetchDays, AskDays
  <2> QED BY <1>3, <1>6, <2>2, <2>3
<1> QED BY <1>5, <1>6

\* A class asks for the same on a day whenever it is asked.
LEMMA IssueFixed ==
  ASSUME UNCHANGED calendar, NEW u, NEW d
  PROVE  IssueOf(u, d)' = IssueOf(u, d)
BY DEF IssueOf, AldiNordPreview, AldiSuedPreview, AldiSuedPrepreview, HoferPreview,
   KauflandWoche, KauflandWochePreview, KauflandSonder, LidlDeutschland,
   LidlDeutschlandPreview, LidlDeutschlandPrepreview, LidlItalia,
   MetroWochenangebotePreview, NettoPreview, NormaPreview, NormaPrepreview,
   NormaRetrospect, NormaRetrospect2, PennyPreview, RewePreview, RossmannAktion,
   Action, Hofer, Kik, WeekIssue, Issue, MetroWochenangebote, AldiNord, AldiSued,
   EdekaMarkt, Netto, Norma, Penny, Rewe, RossmannBeilage, Flyer,
   Week, MondaysSoFar, NewYear, YearLength, YearOf, Weekday, MondayOf, WednesdayOf

\* The last fetch is at most MaxGap days ago and has what its class then asked for.
FetchedInv ==
  fetched # None =>
    /\ fetched.day \in FetchDays
    /\ today \in fetched.day .. fetched.day + MaxGap
    /\ fetched.issue = IssueOf(uid, fetched.day)

LEMMA FetchedStep == TypeOK /\ FetchedInv /\ [Next]_vars => FetchedInv'
<1> SUFFICES ASSUME TypeOK, FetchedInv, [Next]_vars PROVE FetchedInv'
  OBVIOUS
<1>1. today \in FetchDays /\ MaxGap \in Nat
  BY WindowsAssumption DEF TypeOK, FetchDays, AskDays
<1>2. PICK u : u = uid
  OBVIOUS
<1>3. UNCHANGED <<calendar, uid>> /\ \A d : IssueOf(u, d)' = IssueOf(u, d)
  <2>1. UNCHANGED <<calendar, uid>>
    BY DEF Next, NextDay, FetchCatalog, vars
  <2> QED BY <2>1, IssueFixed
<1>4. CASE FetchCatalog
  <2>1. fetched' = [day |-> today, issue |-> IssueOf(u, today)] /\ today' = today
    BY <1>2, <1>4 DEF FetchCatalog
  <2>2. PICK d : d = today
    OBVIOUS
  <2>3. fetched'.day = d /\ fetched'.issue = IssueOf(u, d)'
    BY <1>3, <2>1, <2>2
  <2>4. uid' = u
    BY <1>2, <1>3
  <2> QED BY <1>1, <2>1, <2>2, <2>3, <2>4 DEF FetchedInv, FetchDays, AskDays
<1>5. CASE NextDay \/ UNCHANGED vars
  <2>1. fetched' = fetched /\ (today' = today \/ (today' = today + 1 /\ (fetched # None => today < fetched.day + MaxGap)))
    BY <1>5 DEF NextDay, vars
  <2>2. PICK d : d = fetched.day
    OBVIOUS
  <2>3. fetched # None => fetched'.issue = IssueOf(u, d)'
    BY <1>2, <1>3, <2>1, <2>2 DEF FetchedInv
  <2>4. uid' = u /\ fetched'.day = d
    BY <1>2, <1>3, <2>1, <2>2
  <2> QED BY <1>1, <2>1, <2>2, <2>3, <2>4 DEF FetchedInv, FetchDays, AskDays
<1> QED BY <1>4, <1>5 DEF Next

\* What two issues in a row have to do with one another.
Tile(i, j) == j.since \in {i.since, i.until}

LEMMA IssuesTile ==
  ASSUME calendar \in Calendars, NEW u \in AllUids \ {"kik-de"},
         NEW d \in FetchDays, NEW e \in FetchDays, d <= e, e <= d + 7
  PROVE  Tile(IssueOf(u, d), IssueOf(u, e))
<1>1. PICK a \in AskDays, b \in AskDays :
        a = Ask(u, d) /\ b = Ask(u, e) /\ a <= b /\ b <= a + 7
  <2>1. u \in AllUids
    OBVIOUS
  <2>2. /\ Ask(u, d) \in AskDays /\ Ask(u, e) \in AskDays
        /\ Ask(u, d) <= Ask(u, e) /\ Ask(u, e) <= Ask(u, d) + 7
    BY <2>1, AskWeek
  <2> QED BY <2>2
<1>2. MondayOf(b) \in {MondayOf(a), MondayOf(a) + 7} /\ MondayOf(a) \in Int
  BY <1>1, NextMonday, MondayWindow DEF FetchDays, AskDays
<1>w. WednesdayOf(e) \in {WednesdayOf(d), WednesdayOf(d) + 7} /\ WednesdayOf(d) \in Int
  BY NextWednesday, WednesdayWindow DEF FetchDays, AskDays
<1>s. Shape(u, d) /\ Shape(u, e)
  BY IssueShape
<1>3. CASE u = "action-de"
  BY <1>w, <1>3, <1>s DEF Tile, Shape
<1>4. CASE u # "action-de" /\ u \in HoferUids
  BY <1>1, <1>2, <1>4, <1>s DEF Tile, Shape
<1>5. CASE u # "action-de" /\ u \notin HoferUids
  BY <1>1, <1>2, <1>5, <1>s DEF Tile, Shape
<1> QED BY <1>3, <1>4, <1>5

\* The addresses of two issues in a row are the same exactly if their windows are and no
\* year has turned.
LEMMA IssuesTell ==
  ASSUME calendar \in Calendars,
         NEW u \in AllUids \ (Undated \cup {"hofer-au", "hofer-au-preview", "kik-de"}),
         NEW d \in FetchDays, NEW e \in FetchDays, d <= e, e <= d + 7
  PROVE  IssueOf(u, e).address = IssueOf(u, d).address
           <=> IssueOf(u, e).since = IssueOf(u, d).since /\ ~YearTurned(u, d, e)
<1>1. PICK a \in AskDays, b \in AskDays :
        a = Ask(u, d) /\ b = Ask(u, e) /\ a <= b /\ b <= a + 7
  <2>1. u \in AllUids
    OBVIOUS
  <2>2. /\ Ask(u, d) \in AskDays /\ Ask(u, e) \in AskDays
        /\ Ask(u, d) <= Ask(u, e) /\ Ask(u, e) <= Ask(u, d) + 7
    BY <2>1, AskWeek
  <2> QED BY <2>2
<1>2. Week(a) = Week(b) <=> MondayOf(a) = MondayOf(b) /\ YearOf(a) = YearOf(b)
  <2>1. a <= b /\ b <= a + 7
    BY <1>1
  <2> QED BY <2>1, WeekTells
<1>s. Shape(u, d) /\ Shape(u, e)
  BY IssueShape
<1>i. MondayOf(a) \in Int /\ MondayOf(b) \in Int
  BY MondayWindow DEF FetchDays, AskDays
<1>3. YearTurned(u, d, e) <=> u \notin DatedByWindow /\ YearOf(a) # YearOf(b)
  BY <1>1 DEF YearTurned, Ask
<1>4. u \notin HoferUids /\ u \notin Undated
  BY DEF HoferUids
<1>5. /\ "action-de" \in DatedByWindow /\ Metros \subseteq DatedByWindow
      /\ (DatedByYear \cup DatedByMonday \cup DatedByWeek) \cap DatedByWindow = {}
      /\ "action-de" \notin Metros
  BY DEF DatedByWindow, DatedByYear, DatedByMonday, DatedByWeek, Metros
<1>6. CASE u = "action-de"
  <2>1. PICK v \in AskDays, w \in AskDays :
          v = WednesdayOf(d) /\ w = WednesdayOf(e) /\ w \in {v, v + 7}
    <3>1. PICK v \in Int, w \in Int :
            /\ v = WednesdayOf(d) /\ v <= d /\ d < v + 7
            /\ w = WednesdayOf(e) /\ w <= e /\ e < w + 7
      BY WednesdayWindow DEF FetchDays, AskDays
    <3>2. w \in {v, v + 7}
      BY <3>1, NextWednesday DEF FetchDays, AskDays
    <3>d. ASSUME NEW c \in FetchDays, NEW x \in Int, x <= c, c < x + 7 PROVE x \in AskDays
      BY <3>d DEF FetchDays, AskDays
    <3>3. v \in AskDays /\ w \in AskDays
      BY <3>1, <3>d
    <3> QED BY <3>1, <3>2, <3>3
  <2>2. Week(v) = Week(w) => MondayOf(v) = MondayOf(w)
    <3>1. v <= w /\ w <= v + 7
      BY <2>1 DEF FetchDays, AskDays
    <3> QED BY <3>1, WeekTells
  <2>3. w = v + 7 => MondayOf(w) = MondayOf(v) + 7 /\ MondayOf(v) \in Int
    <3>1. Weekday(v + 7) = Weekday(v) /\ Weekday(v) \in Int
      BY WeekdayType DEF Weekday, Calendars, FetchDays, AskDays
    <3> QED BY <3>1 DEF MondayOf
  <2>4. IssueOf(u, d).address = <<YearOf(v), Week(v)>> /\ IssueOf(u, d).since = v
        /\ IssueOf(u, e).address = <<YearOf(w), Week(w)>> /\ IssueOf(u, e).since = w
    BY <1>6, <1>s, <2>1 DEF Shape
  <2>5. IssueOf(u, e).address = IssueOf(u, d).address <=> v = w
    <3>1. v = w \/ Week(v) # Week(w)
      BY <2>1, <2>2, <2>3
    <3> QED BY <2>4, <3>1
  <2> QED BY <1>3, <1>5, <1>6, <2>4, <2>5
<1>7. CASE u \in DatedByYear
  BY <1>1, <1>2, <1>3, <1>4, <1>5, <1>7, <1>i, <1>s DEF Shape
<1>8. CASE u \in DatedByMonday
  BY <1>1, <1>2, <1>3, <1>4, <1>5, <1>8, <1>i, <1>s DEF Shape
<1>9. CASE u \in DatedByWeek
  BY <1>1, <1>2, <1>3, <1>4, <1>5, <1>9, <1>i, <1>s DEF Shape
<1>10. CASE u \in Metros
  BY <1>1, <1>3, <1>4, <1>5, <1>10, <1>i, <1>s DEF Shape
<1> QED BY <1>4, <1>6, <1>7, <1>8, <1>9, <1>10, IssueShape

\* What is common to two fetches in a row, of a provider that is fetched every week.
LEMMA NextFetch ==
  ASSUME MaxGap <= 7, TypeOK, FetchedInv, [Next]_vars, fetched # None, fetched' # fetched
  PROVE  /\ calendar \in Calendars
         /\ \E u \in AllUids, d \in FetchDays, e \in FetchDays :
              /\ d <= e /\ e <= d + 7 /\ u = uid
              /\ fetched.day = d /\ fetched.issue = IssueOf(u, d)
              /\ fetched'.day = e /\ fetched'.issue = IssueOf(u, e)
<1>1. FetchCatalog
  BY DEF Next, NextDay, vars
<1>2. PICK e : e = today
  OBVIOUS
<1>3. PICK u : u = uid
  OBVIOUS
<1>4. fetched' = [day |-> e, issue |-> IssueOf(u, e)]
  BY <1>1, <1>2, <1>3 DEF FetchCatalog
<1>5. fetched'.day = e /\ fetched'.issue = IssueOf(u, e)
  BY <1>4
<1>6. PICK d : d = fetched.day
  OBVIOUS
<1>7. d \in FetchDays /\ e \in d .. d + MaxGap /\ fetched.issue = IssueOf(u, d)
  BY <1>2, <1>3, <1>6 DEF FetchedInv, FetchDays
<1>8. u \in AllUids /\ e \in FetchDays /\ calendar \in Calendars
  BY <1>2, <1>3, UidsAssumption, WindowsAssumption DEF TypeOK, FetchDays, Calendars
<1>9. d <= e /\ e <= d + 7
  BY <1>7, WindowsAssumption DEF FetchDays
<1> QED BY <1>3, <1>5, <1>6, <1>7, <1>8, <1>9

LEMMA FetchedHolds == Spec => [](TypeOK /\ FetchedInv)
<1>1. Init => FetchedInv
  BY DEF Init, FetchedInv
<1> QED BY <1>1, FetchedStep, WindowsTypeCorrect, PTL DEF Spec

\* A provider that is fetched at least once a week stores windows that follow one another
\* without gaps and overlaps, over the turn of the year too (but for Kik).
THEOREM WindowsAlwaysTile ==
  ASSUME MaxGap <= 7
  PROVE  Spec => WindowsTile
<1>1. TypeOK /\ FetchedInv /\ [Next]_vars =>
        [fetched # None /\ fetched' # fetched /\ uid # "kik-de" =>
           fetched'.issue.since \in {fetched.issue.since, fetched.issue.until}]_vars
  <2> SUFFICES ASSUME TypeOK, FetchedInv, [Next]_vars, fetched # None, fetched' # fetched,
                      uid # "kik-de"
               PROVE  fetched'.issue.since \in {fetched.issue.since, fetched.issue.until}
    OBVIOUS
  <2>1. PICK u \in AllUids, d \in FetchDays, e \in FetchDays :
          /\ d <= e /\ e <= d + 7 /\ u = uid
          /\ fetched.day = d /\ fetched.issue = IssueOf(u, d)
          /\ fetched'.day = e /\ fetched'.issue = IssueOf(u, e)
    BY NextFetch
  <2>2. calendar \in Calendars /\ u \in AllUids \ {"kik-de"}
    BY <2>1, NextFetch
  <2>3. Tile(IssueOf(u, d), IssueOf(u, e))
    BY <2>1, <2>2, IssuesTile
  <2> QED BY <2>1, <2>3 DEF Tile
<1> QED BY <1>1, FetchedHolds, PTL DEF Spec, WindowsTile

\* As long as a provider is fetched at least once a week, its address is another one
\* exactly when the window is another one, or the year has turned in a week whose address
\* has the number of the day's week.
THEOREM AddressAlwaysTellsWindow ==
  ASSUME MaxGap <= 7
  PROVE  Spec => AddressTellsWindow
<1>1. TypeOK /\ FetchedInv /\ [Next]_vars =>
        [fetched # None /\ fetched' # fetched =>
           \/ uid \in Undated \cup {"hofer-au", "hofer-au-preview", "kik-de"}
           \/ fetched'.issue.address = fetched.issue.address
                <=> /\ fetched'.issue.since = fetched.issue.since
                    /\ ~YearTurned(uid, fetched.day, fetched'.day)]_vars
  <2> SUFFICES ASSUME TypeOK, FetchedInv, [Next]_vars, fetched # None, fetched' # fetched,
                      uid \notin Undated \cup {"hofer-au", "hofer-au-preview", "kik-de"}
               PROVE  fetched'.issue.address = fetched.issue.address
                        <=> /\ fetched'.issue.since = fetched.issue.since
                            /\ ~YearTurned(uid, fetched.day, fetched'.day)
    OBVIOUS
  <2>1. PICK u \in AllUids, d \in FetchDays, e \in FetchDays :
          /\ d <= e /\ e <= d + 7 /\ u = uid
          /\ fetched.day = d /\ fetched.issue = IssueOf(u, d)
          /\ fetched'.day = e /\ fetched'.issue = IssueOf(u, e)
    BY NextFetch
  <2>2. calendar \in Calendars
        /\ u \in AllUids \ (Undated \cup {"hofer-au", "hofer-au-preview", "kik-de"})
    BY <2>1, NextFetch
  <2>3. IssueOf(u, e).address = IssueOf(u, d).address
           <=> IssueOf(u, e).since = IssueOf(u, d).since /\ ~YearTurned(u, d, e)
    BY <2>1, <2>2, IssuesTell
  <2>4. YearTurned(uid, fetched.day, fetched'.day) <=> YearTurned(u, d, e)
    BY <2>1
  <2> QED BY <2>1, <2>3, <2>4
<1> QED BY <1>1, FetchedHolds, PTL DEF Spec, AddressTellsWindow

=============================================================================
