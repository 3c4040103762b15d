-------------------------- MODULE ProviderWindows --------------------------
(***************************************************************************)
(* The date arithmetic of the provider classes: for which days a fetched   *)
(* catalog is stored as valid, and which dates are in the address it is    *)
(* fetched from.                                                           *)
(*                                                                         *)
(* Days are numbered from January 1 of a first year, which is day 0; a     *)
(* second year follows.  A class is an operator from the day it is asked   *)
(* on to the issue it fetches.                                             *)
(***************************************************************************)
EXTENDS Integers

CONSTANTS FirstDay, LastDay,  \* bound: the days on which fetches happen
          MaxGap,             \* bound: days from one fetch to the next
          Uids,               \* the classes that are looked at
          None

ASSUME WindowsAssumption ==
  /\ FirstDay \in 7 .. 700 /\ LastDay \in FirstDay .. 700
  /\ MaxGap \in Nat

VARIABLES calendar,  \* [first: the weekday of day 0, leap: is the first year one]
          uid,       \* the class of the provider
          today,
          fetched    \* the last issue fetched and its day, or None

vars == <<calendar, uid, today, fetched>>

-----------------------------------------------------------------------------
\* Calendar: calendar.Day, datetime.date and utils/dates.py.  Monday is 0.

Wednesday == 2
Friday == 4

Weekday(d) == (calendar.first + d) % 7
YearLength == IF calendar.leap THEN 366 ELSE 365
YearOf(d) == IF d < YearLength THEN 1 ELSE 2
NewYear(d) == IF d < YearLength THEN 0 ELSE YearLength

\* strftime("%W"): Mondays so far in the year.
MondaysSoFar(d) == (((d - NewYear(d)) + 7) - Weekday(d)) \div 7

\* Mutant: the days before the first Monday are in week 0.
WeekFromZero(d) == MondaysSoFar(d)

Week(d) == MondaysSoFar(d) + (IF MondaysSoFar(NewYear(d)) = 0 THEN 1 ELSE 0)

MondayOf(d) == d - Weekday(d)

\* Mutant: the difference of weekdays without the modulus.
WednesdayOfWeek(d) == d - (Weekday(d) - Wednesday)

WednesdayOf(d) == d - ((Weekday(d) - Wednesday) % 7)

-----------------------------------------------------------------------------
\* Issues: the window [since, until) and the dates in the address.

\* Mutant: the last day of the window is its end.
IssueToSunday(since, days, address) ==
  [since |-> since, until |-> (since + days) - 1, address |-> address]

\* Mutant: the ends of the window are swapped.
IssueSwapped(since, days, address) ==
  [since |-> since + days, until |-> since, address |-> address]

Issue(since, days, address) ==
  [since |-> since, until |-> since + days, address |-> address]

\* The week r lies in, from Monday on, under an address.
WeekIssue(r, address) == Issue(MondayOf(r), 7, address)

\* Mutant: the address is that of the day of the fetch, like the other classes'.
ActionByDay(r) == Issue(WednesdayOf(r), 7, <<YearOf(r), Week(r)>>)

Action(r) ==
  LET since == WednesdayOf(r)
  IN  Issue(since, 7, <<YearOf(since), Week(since)>>)

AldiNord(r) == WeekIssue(r, <<MondayOf(r), Week(r)>>)
AldiNordPreview(d) == AldiNord(d + 7)

AldiSued(r) == WeekIssue(r, <<YearOf(r), Week(r)>>)
AldiSuedPreview(d) == AldiSued(d + 7)
AldiSuedPrepreview(d) == AldiSued(d + 14)

EdekaMarkt(r) == WeekIssue(r, <<>>)

\* From Friday on the next catalog, but the weekdays are not subtracted modulo 7.
Hofer(r) ==
  LET ahead == IF Weekday(r) >= Friday THEN 1 ELSE 0
  IN  Issue(r - ((Weekday(r) - Friday) + 7), 7, <<YearOf(r), Week(r) + ahead>>)
HoferPreview(d) == Hofer(d + 7)

\* The number of days added to January 1 is the week divided by 4 ** 28, which is 0.
Kik(r) == Issue(MondayOf(NewYear(r)), 28, <<YearOf(r), Week(r) \div 4>>)

\* Kaufland and Lidl take the window from the index-th flyer of a list the shop
\* keeps: the running week's and those of the weeks to come.
Flyer(d, index) == WeekIssue(d + (7 * index), <<>>)

KauflandWoche(d) == Flyer(d, 0)
KauflandWochePreview(d) == Flyer(d, 1)
KauflandSonder(d) == Flyer(d, 0)

LidlDeutschland(d) == Flyer(d, 0)
LidlDeutschlandPreview(d) == Flyer(d, 1)
LidlDeutschlandPrepreview(d) == Flyer(d, 2)
LidlItalia(d) == LidlDeutschland(d)

\* From Monday to Friday, in the address.
MetroWochenangebote(r) ==
  LET since == MondayOf(r) IN WeekIssue(r, <<since, (since + 7) - 3>>)
MetroWochenangebotePreview(d) == MetroWochenangebote(d + 7)

Netto(r) == WeekIssue(r, <<Week(r)>>)
NettoPreview(d) == Netto(d + 7)

Norma(r) == WeekIssue(r, <<YearOf(r), Week(r)>>)
NormaPreview(d) == Norma(d + 7)
NormaPrepreview(d) == Norma(d + 14)
NormaRetrospect(d) == Norma(d - 7)
NormaRetrospect2(d) == Norma(d + 14)

\* The market's entry names the catalog, of this week or of the next.
Penny(r) == WeekIssue(r, <<>>)
PennyPreview(d) == Penny(d + 7)

Rewe(r) == WeekIssue(r, <<YearOf(r), Week(r)>>)
RewePreview(d) == Rewe(d + 7)

RossmannBeilage(r) == WeekIssue(r, <<YearOf(r), Week(r)>>)
RossmannAktion(r) == RossmannBeilage(r)

\* get_class: the class of a uid.
IssueOf(u, d) ==
  CASE u = "action-de" -> Action(d)
    [] u = "aldi-nord-de" -> AldiNord(d)
    [] u = "aldi-nord-de-preview" -> AldiNordPreview(d)
    [] u = "aldi-sued-de" -> AldiSued(d)
    [] u = "aldi-sued-de-preview" -> AldiSuedPreview(d)
    [] u = "aldi-sued-de-preview-2" -> AldiSuedPrepreview(d)
    [] u = "edeka-markt-de" -> EdekaMarkt(d)
    [] u = "hofer-au" -> Hofer(d)
    [] u = "hofer-au-preview" -> HoferPreview(d)
    [] u = "kaufland-de" -> KauflandWoche(d)
    [] u = "kaufland-de-preview" -> KauflandWochePreview(d)
    [] u = "kaufland-sonder-de" -> KauflandSonder(d)
    [] u = "kik-de" -> Kik(d)
    [] u = "lidl-de" -> LidlDeutschland(d)
    [] u = "lidl-de-preview" -> LidlDeutschlandPreview(d)
    [] u = "lidl-de-preview-2" -> LidlDeutschlandPrepreview(d)
    [] u = "lidl-it" -> LidlItalia(d)
    [] u = "metro-de" -> MetroWochenangebote(d)
    [] u = "metro-de-preview" -> MetroWochenangebotePreview(d)
    [] u = "netto-de" -> Netto(d)
    [] u = "netto-de-preview" -> NettoPreview(d)
    [] u = "norma-de" -> Norma(d)
    [] u = "norma-de-preview" -> NormaPreview(d)
    [] u = "norma-de-preview-2" -> NormaPrepreview(d)
    [] u = "norma-de-retrospect" -> NormaRetrospect(d)
    [] u = "norma-de-retrospect-2" -> NormaRetrospect2(d)
    [] u = "penny-de" -> Penny(d)
    [] u = "penny-de-preview" -> PennyPreview(d)
    [] u = "rewe-de" -> Rewe(d)
    [] u = "rewe-de-preview" -> RewePreview(d)
    [] u = "rossmann-beilage-de" -> RossmannBeilage(d)
    [] u = "rossmann-aktion-de" -> RossmannAktion(d)

\* What the class docstrings say a class is for: the current week if not one of these.
NextWeek ==
  {"aldi-nord-de-preview", "aldi-sued-de-preview", "hofer-au-preview",
   "kaufland-de-preview", "lidl-de-preview", "metro-de-preview", "netto-de-preview",
   "norma-de-preview", "penny-de-preview", "rewe-de-preview"}
SecondNextWeek == {"aldi-sued-de-preview-2", "lidl-de-preview-2", "norma-de-preview-2"}

DescribedDay(u, d) ==
  CASE u \in NextWeek -> d + 7
    [] u \in SecondNextWeek -> d + 14
    [] u = "norma-de-retrospect" -> d - 7
    [] u = "norma-de-retrospect-2" -> d - 14
    [] OTHER -> d

CurrentWeek ==
  {"action-de", "aldi-nord-de", "aldi-sued-de", "edeka-markt-de", "hofer-au",
   "kaufland-de", "kaufland-sonder-de", "kik-de", "lidl-de", "lidl-it", "metro-de",
   "netto-de", "norma-de", "penny-de", "rewe-de", "rossmann-beilage-de",
   "rossmann-aktion-de"}
AllUids ==
  CurrentWeek \cup NextWeek \cup SecondNextWeek
    \cup {"norma-de-retrospect", "norma-de-retrospect-2"}

ASSUME UidsAssumption == Uids \subseteq AllUids

-----------------------------------------------------------------------------
\* Days pass, and on some of them the provider is fetched.

Init ==
  /\ calendar \in [first : 0 .. 6, leap : BOOLEAN]
  /\ uid \in Uids
  /\ today = FirstDay
  /\ fetched = None

NextDay ==
  /\ today < LastDay
  /\ fetched # None => today < fetched.day + MaxGap
  /\ today' = today + 1
  /\ UNCHANGED <<calendar, uid, fetched>>

FetchCatalog ==
  /\ fetched' = [day |-> today, issue |-> IssueOf(uid, today)]
  /\ UNCHANGED <<calendar, uid, today>>

Next == NextDay \/ FetchCatalog

Spec == Init /\ [][Next]_vars

-----------------------------------------------------------------------------

\* Types; a window ends after it has begun.
TypeOK ==
  /\ calendar \in [first : 0 .. 6, leap : BOOLEAN]
  /\ uid \in Uids
  /\ today \in FirstDay .. LastDay
  /\ fetched # None =>
       /\ fetched.day \in FirstDay .. today
       /\ fetched.issue.since \in Int /\ fetched.issue.until \in Int
       /\ fetched.issue.since < fetched.issue.until

\* The day the class docstring names ("current", "next week", "last week", ...), when
\* class u is asked on day d, is in the window of the issue.
HoldsDescribedDay(issue, u, d) ==
  DescribedDay(u, d) \in issue.since .. (issue.until - 1)

\* The fetches of which no claim is made, see WindowsAsDocumented.
Misses(u, d) ==
  \/ u = "norma-de-retrospect-2"
  \/ u \in {"hofer-au", "hofer-au-preview"} /\ Weekday(d) >= Friday
  \/ u = "kik-de" /\ d - MondayOf(NewYear(d)) >= 28

\* A catalog is stored as valid on the day its class is for, whatever weekday the year
\* begins on, leap year or not.
WindowsHoldTheDay ==
  fetched # None /\ ~Misses(uid, fetched.day) =>
    HoldsDescribedDay(fetched.issue, uid, fetched.day)

\* The week of the German calendar (ISO 8601): that of its Thursday.
IsoWeek(d) ==
  LET thursday == MondayOf(d) + 3 IN ((thursday - NewYear(thursday)) \div 7) + 1

ThursdayInYear(d) ==
  LET thursday == MondayOf(d) + 3
  IN  thursday >= 0 /\ YearOf(thursday) = YearOf(d)

WeekAgainstCalendarOn(d) ==
  ThursdayInYear(d) =>
    Week(d) = IsoWeek(d) + (IF Weekday(NewYear(d)) > 3 THEN 1 ELSE 0)

\* get_calendar_week_number is the printed calendar week as long as the year begins
\* on Monday to Thursday and the week's Thursday is of the same year.  If the year begins
\* on Friday to Sunday it is one too high in every week after the first days.
WeekAgainstCalendar == WeekAgainstCalendarOn(today)

Undated == {"edeka-markt-de", "kaufland-de", "kaufland-de-preview", "kaufland-sonder-de",
            "lidl-de", "lidl-de-preview", "lidl-de-preview-2", "lidl-it",
            "penny-de", "penny-de-preview"}
DatedByWindow == {"action-de", "metro-de", "metro-de-preview"}

\* The year of the day the class asks for changed between the two fetches.
YearTurned(u, d1, d2) ==
  LET ask(d) == CASE u = "norma-de-retrospect-2" -> d + 14 [] OTHER -> DescribedDay(u, d)
  IN  u \notin DatedByWindow /\ YearOf(ask(d1)) # YearOf(ask(d2))

\* Two fetches in a row, at most MaxGap days apart, ask for the same address exactly if
\* they store the same window: pages of one week's catalog are not stored as another
\* week's.  Where the address has the number of the day's week instead of the window's, a
\* week over New Year has two addresses.  Hofer and Kik, whose windows are off, are the exceptions.
AddressTellsWindow ==
  [][fetched # None /\ fetched' # fetched =>
       \/ uid \in Undated \cup {"hofer-au", "hofer-au-preview", "kik-de"}
       \/ fetched'.issue.address = fetched.issue.address
            <=> /\ fetched'.issue.since = fetched.issue.since
                /\ ~YearTurned(uid, fetched.day, fetched'.day)]_vars

\* A provider that is fetched at least every MaxGap days stores windows that follow one
\* another without gaps and overlaps (but for Kik, whose window is the year's first).
WindowsTile ==
  [][fetched # None /\ fetched' # fetched /\ uid # "kik-de" =>
       fetched'.issue.since \in {fetched.issue.since, fetched.issue.until}]_vars

-----------------------------------------------------------------------------
(* What the repository says of the program and the code does not do.       *)

\* The docstrings of the classes with how-to-add-provider.rst, by which the window begins
\* at "the moment that the flyer became valid": what a class stores is valid on the day it
\* is for.  Stated as weakly as can be, that on a day of a fetch at least one of Uids does
\* so; with only those that have exceptions in Misses, one day refutes them all.
WindowsAsDocumented ==
  fetched # None =>
    \E u \in Uids : HoldsDescribedDay(IssueOf(u, fetched.day), u, fetched.day)

=============================================================================
