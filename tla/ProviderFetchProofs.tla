------------------------- MODULE ProviderFetchProofs -------------------------
(***************************************************************************)
(* What holds of every fetch, however many images the catalog has.         *)
(***************************************************************************)
EXTENDS ProviderFetch, PageNumbersProofs

\* The strengthening: the iteration has yielded as many pages as it has counted,
\* and up to the step that ends the fetch every answer was good.
Counted ==
  /\ page.offset = class.first
  /\ page.number = Len(pages)
  /\ page.number <= images

AllGood == \A h \in answers : h[3] = "ok"

IInv ==
  /\ TypeOK
  /\ Counted
  /\ PagesInOrder
  /\ pc # "done" => AllGood
  /\ pc # "done" => outcome = None

LEMMA ClassFacts ==
  ASSUME class \in Class
  PROVE  /\ class.layout \in {"address", "list", "spreads", "document"}
         /\ class.first = IF class.layout = "address" THEN 1 ELSE 0
         /\ class.preview \in BOOLEAN /\ class.picky \in BOOLEAN
         /\ class.picky => class.layout = "address" /\ class.preview = FALSE
BY DEF Class

\* The address, the index in a list and the side of a spread name the same image:
\* that of the page's place in the catalog.
LEMMA ImageIsPage ==
  ASSUME class \in Class, page \in PageNumber, page.offset = class.first
  PROVE  Image = page.number /\ (OnFirst <=> page.number = 0)
<1>1. page.number \in Nat /\ page.offset \in Nat
  BY DEF PageNumber
<1>2. OnFirst <=> page.number = 0
  BY <1>1 DEF OnFirst, IntOf
<1> SUFFICES Image = page.number
  BY <1>2
<1>3. CASE class.layout = "address"
  BY <1>1, <1>3 DEF Image, AddressImage, IntOf
<1>4. CASE class.layout \in {"list", "document"}
  <2>1. class.first = 0
    BY <1>4, ClassFacts
  <2> QED BY <1>1, <1>4, <2>1 DEF Image, IntOf
<1>5. CASE class.layout = "spreads"
  <2> DEFINE start == page.offset
  <2>1. ASSUME page = [number |-> 0, offset |-> start]
        PROVE  SpreadImage = page.number
    <3>1. AsDouble([number |-> 0, offset |-> start])
            = [number |-> 0, index |-> 0, offset |-> start]
      <4>1. 0 \in Nat
        OBVIOUS
      <4> QED BY <1>1, <4>1, DoubleOfPage
    <3>2. AsDouble(page).number = 0 /\ page.number = 0
      BY <2>1, <3>1
    <3> QED BY <3>2 DEF SpreadImage
  <2>2. ASSUME NEW k \in Nat, page = [number |-> 2 * k + 1, offset |-> start]
        PROVE  SpreadImage = page.number
    <3>1. AsDouble(page) = [number |-> k + 1, index |-> 0, offset |-> start]
      BY <1>1, <2>2, DoubleOfPage
    <3>2. k + 1 # 0 /\ 2 * (k + 1) - 1 + 0 = 2 * k + 1 /\ page.number = 2 * k + 1
      BY <2>2
    <3> QED BY <3>1, <3>2 DEF SpreadImage
  <2>3. ASSUME NEW k \in Nat, page = [number |-> 2 * k + 2, offset |-> start]
        PROVE  SpreadImage = page.number
    <3>1. AsDouble(page) = [number |-> k + 1, index |-> 1, offset |-> start]
      BY <1>1, <2>3, DoubleOfPage
    <3>2. k + 1 # 0 /\ 2 * (k + 1) - 1 + 1 = 2 * k + 2 /\ page.number = 2 * k + 2
      BY <2>3
    <3> QED BY <3>1, <3>2 DEF SpreadImage
  <2> HIDE DEF start
  <2>4. CASE SpreadImage = page.number
    BY <1>5, <2>4 DEF Image
  <2> QED BY <2>1, <2>2, <2>3, <2>4, PageCases DEF start
<1> QED BY <1>3, <1>4, <1>5, ClassFacts

\* What the catalog data may raise leaves get_catalog_data as one of the warnings
\* or the NetworkError.
LEMMA DataErrors ==
  ASSUME class \in Class
  PROVE  /\ DataError(Raised(Unavailable, "IndexError")).name = Unavailable
         /\ \A a \in StatusErrors :
              DataError(RawError(a)).name =
                IF class.preview THEN Unavailable ELSE MisconfiguredOrBroken
         /\ DataError(RawError("disconnected")).name = Network
         /\ DataError(RawError("garbled")).name = Broken
BY ClassFacts
   DEF DataError, BaseDataError, RawError, Raised, Translated, StatusErrors, ProviderWarnings,
       Unavailable, Broken, Misconfigured, MisconfiguredOrBroken, Network, HTTPStatusError

\* What get_page makes of each failure, on the first page and on a later one.
LEMMA PageErrors ==
  ASSUME class \in Class
  PROVE  /\ PageError(Raised(Exhausted, "IndexError")).name =
              IF OnFirst THEN MisconfiguredOrBroken ELSE Exhausted
         /\ \A a \in StatusErrors :
              PageError(RawError(a)).name =
                IF ~OnFirst THEN Exhausted
                ELSE IF class.preview THEN Unavailable ELSE MisconfiguredOrBroken
         /\ OnFirst => PageError(Raised(Unavailable, HTTPStatusError)).name = Unavailable
         /\ PageError(RawError("disconnected")).name = Network
         /\ PageError(RawError("garbled")).name = Broken
<1> USE ClassFacts
    DEF PageError, BasePageError, RawError, Raised, Translated, StatusErrors,
        ProviderWarnings, Unavailable, Broken, Misconfigured, MisconfiguredOrBroken,
        Network, HTTPStatusError, Exhausted
<1>1. PageError(Raised(Exhausted, "IndexError")).name =
        IF OnFirst THEN MisconfiguredOrBroken ELSE Exhausted
  OBVIOUS
<1>2. ASSUME NEW a \in StatusErrors
      PROVE  PageError(RawError(a)).name =
               IF ~OnFirst THEN Exhausted
               ELSE IF class.preview THEN Unavailable ELSE MisconfiguredOrBroken
  OBVIOUS
<1>3. OnFirst => PageError(Raised(Unavailable, HTTPStatusError)).name = Unavailable
  OBVIOUS
<1>4. PageError(RawError("disconnected")).name = Network
  OBVIOUS
<1>5. PageError(RawError("garbled")).name = Broken
  OBVIOUS
<1> QED BY <1>1, <1>2, <1>3, <1>4, <1>5

-----------------------------------------------------------------------------
LEMMA InitIInv == Init => IInv
<1> SUFFICES ASSUME Init PROVE IInv
  OBVIOUS
<1>1. class \in Class /\ class.first \in Nat
  BY ClassFacts DEF Init
<1>2. page = [number |-> 0, offset |-> class.first]
  BY <1>1 DEF Init, NumberedFrom
<1>3. page \in PageNumber /\ page.number = 0 /\ page.offset = class.first
  BY <1>1, <1>2 DEF PageNumber
<1>4. pages \in Seq((0 .. MaxImages) \X (0 .. MaxImages)) /\ Len(pages) = 0
  BY DEF Init
<1>5. TypeOK
  BY <1>1, <1>3, <1>4 DEF Init, TypeOK
<1>6. Counted /\ PagesInOrder /\ AllGood
  BY <1>3, <1>4, FetchAssumption DEF Init, Counted, PagesInOrder, AllGood
<1> QED BY <1>5, <1>6 DEF Init, IInv

\* The page the iteration is at is counted in the catalog's own numbers.
LEMMA PageInRange ==
  ASSUME IInv
  PROVE  /\ page.number \in 0 .. MaxImages
         /\ Image = page.number /\ (OnFirst <=> page.number = 0)
<1>1. class \in Class /\ page \in PageNumber /\ images \in 0 .. MaxImages
  BY DEF IInv, TypeOK
<1>2. page.number \in Nat
  BY <1>1 DEF PageNumber
<1>3. page.number \in 0 .. MaxImages
  BY <1>1, <1>2, FetchAssumption DEF IInv, Counted
<1> QED BY <1>1, <1>3, ImageIsPage DEF IInv, Counted

\* What a failing page does: the fetch ends with the catalog's or the provider's
\* status, and nothing that was fetched is touched.
LEMMA FailureEnds ==
  ASSUME class \in Class, NEW e, PageFailed(e),
         PageError(e).name \in ProviderWarnings \cup {Network, Exhausted}
  PROVE  /\ pc' = "done" /\ UNCHANGED <<class, images, page, pages>>
         /\ outcome' = IF PageError(e).name = Exhausted THEN "healthy" ELSE PageError(e).name
         /\ outcome' \in ProviderWarnings \cup {"healthy", Network}
BY DEF PageFailed, End, ProviderWarnings, Unavailable, Broken, Misconfigured,
       MisconfiguredOrBroken, Network, Exhausted

\* The refusals that RefusedPage hands to PageFailed.
Refused(a) ==
  IF class.picky /\ OnFirst /\ a = "not found"
  THEN Raised(Unavailable, HTTPStatusError) ELSE RawError(a)

LEMMA RefusedErrors ==
  ASSUME class \in Class, NEW a \in Failures
  PROVE  /\ PageError(Refused(a)).name \in ProviderWarnings \cup {Network, Exhausted}
         /\ PageError(Refused(a)).name = Network <=> a = "disconnected"
         /\ PageError(Refused(a)).name = Exhausted <=> ~OnFirst /\ a \in StatusErrors
         /\ OnFirst /\ a \in StatusErrors =>
              PageError(Refused(a)).name =
                IF class.preview \/ (class.picky /\ a = "not found")
                THEN Unavailable ELSE MisconfiguredOrBroken
<1> USE DEF ProviderWarnings, Unavailable, Broken, Misconfigured, MisconfiguredOrBroken,
            Network, Exhausted
<1>1. CASE a \in StatusErrors
  <2>1. a # "disconnected"
    BY <1>1 DEF StatusErrors
  <2>2. CASE class.picky /\ OnFirst /\ a = "not found"
    BY <1>1, <2>1, <2>2, PageErrors DEF Refused
  <2>3. CASE ~(class.picky /\ OnFirst /\ a = "not found")
    <3>1. Refused(a) = RawError(a)
      BY <2>3 DEF Refused
    <3> QED BY <1>1, <2>1, <2>3, <3>1, PageErrors
  <2> QED BY <2>2, <2>3
<1>2. CASE a = "disconnected"
  BY <1>2, PageErrors DEF Refused, StatusErrors
<1>3. CASE a = "garbled"
  BY <1>3, PageErrors DEF Refused, StatusErrors
<1> QED BY <1>1, <1>2, <1>3 DEF Failures

-----------------------------------------------------------------------------
\* How a fetch can go from one state to the next: it goes on with a good answer
\* at most, or ends with what the last answer stands for.
GoesOn ==
  /\ pc # "done" /\ pc' \in {"loading", "dating", "paging"}
  /\ UNCHANGED <<class, images, outcome>>
  /\ answers' = answers \/ Heard("ok")

Ends ==
  /\ pc # "done" /\ pc' = "done"
  /\ UNCHANGED <<class, images, page, pages>>
  /\ \/ /\ answers' = answers \/ Heard("ok") \/ Heard("unreadable")
        /\ outcome' \in ProviderWarnings \cup {"healthy"}
        /\ outcome' = "healthy" =>
             /\ pages # <<>>
             /\ Len(pages) = images \/ (page.number > 0 /\ Heard("unreadable"))
     \/ \E a \in Failures :
          /\ Heard(a)
          /\ outcome' \in ProviderWarnings \cup {"healthy", Network}
          /\ outcome' = Network <=> a = "disconnected"
          /\ outcome' = "healthy" => page.number > 0 /\ a \in StatusErrors
          /\ page.number = 0 /\ a \in StatusErrors =>
               outcome' = IF class.preview \/ (class.picky /\ a = "not found")
                          THEN Unavailable ELSE MisconfiguredOrBroken

\* Every step but GotPage, which alone turns the page, is one or the other.
LEMMA StepShape ==
  ASSUME IInv, Next
  PROVE  \/ GotPage
         \/ GoesOn /\ UNCHANGED <<page, pages>>
         \/ Ends
<1> USE DEF IInv, TypeOK
<1>1. ProviderWarnings = {Unavailable, Broken, Misconfigured, MisconfiguredOrBroken}
      /\ \A w \in ProviderWarnings : w # Network /\ w # "healthy" /\ w # Exhausted
      /\ Exhausted # Network /\ "healthy" # Network
  BY DEF ProviderWarnings, Unavailable, Broken, Misconfigured, MisconfiguredOrBroken,
         Network, Exhausted
<1>2. CASE Construct
  BY <1>1, <1>2 DEF Construct, End, GoesOn, Ends
<1>3. CASE GetValidity
  BY <1>1, <1>3 DEF GetValidity, End, GoesOn, Ends
<1>4. CASE GetCatalogData
  <2> USE <1>4 DEF GetCatalogData
  <2>1. CASE pc' = "dating"
    BY <1>1, <2>1 DEF End, GoesOn, Heard
  <2>2. CASE Heard("ok") /\ End(DataError(Raised(Unavailable, "IndexError")).name)
    BY <1>1, <2>2, DataErrors DEF End, Ends
  <2>3. ASSUME NEW a \in Failures, Heard(a), End(DataError(RawError(a)).name),
               class.layout # "address"
        PROVE  Ends
    <3>1. /\ pc # "done" /\ pc' = "done" /\ outcome' = DataError(RawError(a)).name
          /\ UNCHANGED <<class, images, page, pages>> /\ ~class.picky
      BY <2>3, ClassFacts DEF End
    <3>2. CASE a \in StatusErrors
      <4>1. a # "disconnected"
        BY <3>2 DEF StatusErrors
      <4> QED BY <1>1, <2>3, <3>1, <3>2, <4>1, DataErrors DEF Ends
    <3>3. CASE a \in {"disconnected", "garbled"}
      <4>1. a \notin StatusErrors
        BY <3>3 DEF StatusErrors
      <4> QED BY <1>1, <2>3, <3>1, <3>3, <4>1, DataErrors DEF Ends
    <3> QED BY <3>2, <3>3 DEF Failures
  <2> QED BY <2>1, <2>2, <2>3 DEF End
<1>5. CASE RunOut
  <2> DEFINE e == Raised(Exhausted, "IndexError")
  <2>1. PageError(e).name = IF OnFirst THEN MisconfiguredOrBroken ELSE Exhausted
    BY PageErrors
  <2>2. pc # "done" /\ PageFailed(e)
    BY <1>5 DEF RunOut
  <2> HIDE DEF e
  <2>3. /\ pc' = "done" /\ UNCHANGED <<class, images, page, pages>>
        /\ outcome' = IF OnFirst THEN MisconfiguredOrBroken ELSE "healthy"
    BY <1>1, <2>1, <2>2, FailureEnds
  <2>4. pages # <<>> \/ page.number = 0
    BY DEF Counted
  <2>5. /\ page.number \in Nat /\ images \in Nat /\ page.number = Len(pages)
        /\ page.number <= images
    BY PageInRange, FetchAssumption DEF Counted
  <2>6. outcome' \in ProviderWarnings \cup {"healthy"}
    BY <1>1, <2>3
  <2>7. outcome' = "healthy" => pages # <<>> /\ page.number > 0
    <3>1. MisconfiguredOrBroken # "healthy"
      BY <1>1
    <3>2. OnFirst <=> page.number = 0
      BY PageInRange
    <3> QED BY <2>3, <2>4, <2>5, <3>1, <3>2
  <2>8. ASSUME ~Listed, UNCHANGED answers
        PROVE  Ends
    <3>1. Len(pages) = images
      <4>1. ~(page.number < images)
        BY <2>8, PageInRange DEF Listed
      <4> QED BY <2>5, <4>1
    <3> QED BY <2>2, <2>3, <2>6, <2>7, <2>8, <3>1 DEF Ends
  <2>9. ASSUME Heard("unreadable")
        PROVE  Ends
    BY <2>2, <2>3, <2>6, <2>7, <2>9 DEF Ends
  <2> QED BY <1>5, <2>8, <2>9 DEF RunOut
<1>6. ASSUME NEW a \in Failures, RefusedPage(a)
      PROVE  Ends
  <2>1. pc # "done" /\ Heard(a) /\ PageFailed(Refused(a))
    BY <1>6 DEF RefusedPage, Refused
  <2>2. /\ pc' = "done" /\ UNCHANGED <<class, images, page, pages>>
        /\ outcome' = IF PageError(Refused(a)).name = Exhausted THEN "healthy"
                      ELSE PageError(Refused(a)).name
        /\ outcome' \in ProviderWarnings \cup {"healthy", Network}
    BY <2>1, FailureEnds, RefusedErrors
  <2>3. page.number \in Nat /\ (OnFirst <=> page.number = 0)
    BY PageInRange
  <2>4. a \in StatusErrors => a # "disconnected"
    BY DEF StatusErrors
  <2>5. outcome' = Network <=> a = "disconnected"
    BY <1>1, <2>2, <2>4, RefusedErrors
  <2>6. outcome' = "healthy" => page.number > 0 /\ a \in StatusErrors
    <3>1. outcome' = "healthy" => PageError(Refused(a)).name = Exhausted
      BY <1>1, <2>2, RefusedErrors
    <3>2. outcome' = "healthy" => ~OnFirst /\ a \in StatusErrors
      BY <3>1, RefusedErrors
    <3>3. page.number # 0 => page.number > 0
      BY <2>3
    <3> QED BY <2>3, <3>2, <3>3
  <2>7. page.number = 0 /\ a \in StatusErrors =>
          outcome' = IF class.preview \/ (class.picky /\ a = "not found")
                     THEN Unavailable ELSE MisconfiguredOrBroken
    BY <1>1, <2>2, <2>3, RefusedErrors
  <2> QED BY <2>1, <2>2, <2>5, <2>6, <2>7 DEF Ends
<1>7. CASE GotPage
  BY <1>7
<1> QED BY <1>2, <1>3, <1>4, <1>5, <1>6, <1>7 DEF Next

LEMMA GotPageTurns ==
  ASSUME IInv, GotPage
  PROVE  /\ GoesOn
         /\ page.number < images
         /\ pages' = Append(pages, <<page.number, page.number>>)
         /\ page' = [number |-> page.number + 1, offset |-> page.offset]
<1>1. Image = page.number /\ page \in PageNumber
  BY PageInRange DEF IInv, TypeOK
<1>2. page' = [number |-> page.number + 1, offset |-> page.offset]
  BY <1>1, NextIsPage DEF GotPage
<1>3. GoesOn
  BY DEF GotPage, GoesOn
<1> QED BY <1>1, <1>2, <1>3 DEF GotPage

\* The answers heard stay within their type: a request is made while loading or paging.
LEMMA HeardType ==
  ASSUME IInv, Next, NEW a \in Answers, Heard(a)
  PROVE  answers' \subseteq {"loading", "paging"} \X (0 .. MaxImages) \X Answers
<1>1. pc \in {"loading", "paging"} \/ UNCHANGED answers
  BY DEF Next, Construct, GetCatalogData, GetValidity, GotPage, RunOut, RefusedPage
<1>2. page.number \in 0 .. MaxImages
  BY PageInRange
<1>3. answers \subseteq {"loading", "paging"} \X (0 .. MaxImages) \X Answers
  BY DEF IInv, TypeOK
<1>4. CASE UNCHANGED answers
  BY <1>3, <1>4
<1>5. CASE pc \in {"loading", "paging"}
  <2>1. <<pc, page.number, a>> \in {"loading", "paging"} \X (0 .. MaxImages) \X Answers
    BY <1>2, <1>5
  <2> QED BY <1>3, <2>1 DEF Heard
<1> QED BY <1>1, <1>4, <1>5

LEMMA NextIInv == IInv /\ [Next]_vars => IInv'
<1>1. ASSUME IInv, UNCHANGED vars
      PROVE  IInv'
  BY <1>1 DEF vars, IInv, TypeOK, Counted, PagesInOrder, AllGood
<1>2. ASSUME IInv, Next
      PROVE  IInv'
  <2> USE <1>2
  <2>0. /\ class \in Class /\ images \in 0 .. MaxImages /\ page \in PageNumber
        /\ pages \in Seq((0 .. MaxImages) \X (0 .. MaxImages))
        /\ answers \subseteq {"loading", "paging"} \X (0 .. MaxImages) \X Answers
        /\ page.number \in Nat /\ page.offset \in Nat
        /\ page.number = Len(pages) /\ page.offset = class.first /\ page.number <= images
        /\ page.number \in 0 .. MaxImages
    BY PageInRange DEF IInv, TypeOK, Counted, PageNumber
  <2>1. {"ok", "unreadable"} \cup Failures = Answers
    BY DEF Answers
  <2>2. CASE GoesOn
    <3>1. /\ pc # "done" /\ pc' \in {"loading", "dating", "paging"}
          /\ UNCHANGED <<class, images, outcome>>
          /\ answers' = answers \/ Heard("ok")
      BY <2>2 DEF GoesOn
    <3>2. answers' \subseteq {"loading", "paging"} \X (0 .. MaxImages) \X Answers
      BY <2>0, <2>1, <3>1, HeardType
    <3>3. outcome' = None /\ AllGood
      BY <3>1 DEF IInv
    <3>4. AllGood'
      BY <3>1, <3>3 DEF AllGood, Heard
    <3>5. CASE UNCHANGED <<page, pages>>
      <4>1. TypeOK'
        BY <2>0, <3>1, <3>2, <3>3, <3>5 DEF TypeOK
      <4>2. Counted' /\ PagesInOrder'
        BY <3>1, <3>5 DEF IInv, Counted, PagesInOrder
      <4> QED BY <3>3, <3>4, <4>1, <4>2 DEF IInv
    <3>6. CASE GotPage
      <4>1. /\ page.number < images
            /\ pages' = Append(pages, <<page.number, page.number>>)
            /\ page' = [number |-> page.number + 1, offset |-> page.offset]
        BY <3>6, GotPageTurns
      <4>2. /\ pages' \in Seq((0 .. MaxImages) \X (0 .. MaxImages))
            /\ Len(pages') = page.number + 1
            /\ page' \in PageNumber
        BY <2>0, <4>1 DEF PageNumber
      <4>3. TypeOK'
        BY <2>0, <3>1, <3>2, <3>3, <4>2 DEF TypeOK
      <4>4. Counted'
        BY <2>0, <3>1, <4>1, <4>2 DEF Counted
      <4>5. PagesInOrder'
        <5> SUFFICES ASSUME NEW i \in 1 .. Len(pages')
                     PROVE  pages'[i] = <<i - 1, i - 1>>
          BY DEF PagesInOrder
        <5>1. CASE i = page.number + 1
          BY <2>0, <4>1, <5>1
        <5>2. CASE i # page.number + 1
          <6>1. i \in 1 .. Len(pages)
            BY <2>0, <4>2, <5>2
          <6>2. pages'[i] = pages[i]
            BY <2>0, <4>1, <6>1
          <6> QED BY <6>1, <6>2 DEF IInv, PagesInOrder
        <5> QED BY <5>1, <5>2
      <4> QED BY <3>3, <3>4, <4>3, <4>4, <4>5 DEF IInv
    <3> QED BY <2>2, <3>1, <3>5, <3>6, StepShape DEF Ends
  <2>3. CASE Ends
    <3>1. pc' = "done" /\ UNCHANGED <<class, images, page, pages>>
          /\ outcome' \in ProviderWarnings \cup {"healthy", Network}
      BY <2>3 DEF Ends
    <3>2. answers' \subseteq {"loading", "paging"} \X (0 .. MaxImages) \X Answers
      BY <2>0, <2>1, <2>3, HeardType DEF Ends
    <3>3. TypeOK'
      BY <2>0, <3>1, <3>2 DEF TypeOK
    <3>4. Counted' /\ PagesInOrder'
      BY <3>1 DEF IInv, Counted, PagesInOrder
    <3> QED BY <3>1, <3>3, <3>4 DEF IInv
  <2> QED BY <2>2, <2>3, StepShape, GotPageTurns
<1> QED BY <1>1, <1>2

LEMMA AlwaysIInv == Spec => []IInv
BY InitIInv, NextIInv, PTL DEF Spec

\* Type correctness of every fetch, of a catalog of any length.
THEOREM FetchTypeCorrect == Spec => []TypeOK
<1>1. IInv => TypeOK
  BY DEF IInv
<1> QED BY <1>1, AlwaysIInv, PTL

\* Address, list, document and spreads yield the pages in their order and without a
\* gap, whatever the number of the first page: the translations of page numbers
\* in the provider classes never fetch the wrong image.
THEOREM PagesAlwaysInOrder == Spec => []PagesInOrder
<1>1. IInv => PagesInOrder
  BY DEF IInv
<1> QED BY <1>1, AlwaysIInv, PTL

-----------------------------------------------------------------------------
\* What the outcome says about the answers, in one formula.
OutcomesTold == HealthyIsComplete /\ NetworkErrorsSurface /\ FirstRefusalTold

\* Before its last step a fetch has heard good answers only, so the last answer
\* is the one the outcome is about.
LEMMA LastAnswer ==
  ASSUME IInv, Ends
  PROVE  OutcomesTold'
<1>1. /\ AllGood /\ pc' = "done" /\ pages' = pages /\ images' = images /\ class' = class
  BY DEF IInv, Ends
<1>2. Network \notin ProviderWarnings \cup {"healthy"}
  BY DEF Network, ProviderWarnings, Unavailable, Broken, Misconfigured, MisconfiguredOrBroken
<1>3. CASE /\ answers' = answers \/ Heard("ok") \/ Heard("unreadable")
           /\ outcome' \in ProviderWarnings \cup {"healthy"}
           /\ outcome' = "healthy" =>
                /\ pages # <<>>
                /\ Len(pages) = images \/ (page.number > 0 /\ Heard("unreadable"))
  <2>1. \A h \in answers' : h[3] \in {"ok", "unreadable"}
    BY <1>1, <1>3 DEF AllGood, Heard
  <2>2. HealthyIsComplete'
    <3>1. ASSUME page.number > 0, Heard("unreadable")
          PROVE  \E h \in answers' : h[2] > 0 /\ h[3] \in StatusErrors \cup {"unreadable"}
      <4>1. <<pc, page.number, "unreadable">> \in answers'
        BY <3>1 DEF Heard
      <4> QED BY <3>1, <4>1
    <3> QED BY <1>1, <1>3, <3>1 DEF HealthyIsComplete
  <2>3. NetworkErrorsSurface'
    BY <1>2, <1>3, <2>1 DEF NetworkErrorsSurface
  <2>4. FirstRefusalTold'
    BY <2>1 DEF FirstRefusalTold, Refusals, StatusErrors
  <2> QED BY <2>2, <2>3, <2>4 DEF OutcomesTold
<1>4. ASSUME NEW a \in Failures, Heard(a),
             outcome' \in ProviderWarnings \cup {"healthy", Network},
             outcome' = Network <=> a = "disconnected",
             outcome' = "healthy" => page.number > 0 /\ a \in StatusErrors,
             page.number = 0 /\ a \in StatusErrors =>
               outcome' = IF class.preview \/ (class.picky /\ a = "not found")
                          THEN Unavailable ELSE MisconfiguredOrBroken
      PROVE  OutcomesTold'
  <2> DEFINE last == <<pc, page.number, a>>
  <2>1. last \in answers' /\ \A h \in answers' : h = last \/ h[3] = "ok"
    BY <1>1, <1>4 DEF AllGood, Heard
  <2>2. last[2] = page.number /\ last[3] = a
    OBVIOUS
  <2> HIDE DEF last
  <2>3. HealthyIsComplete'
    <3>1. outcome' = "healthy" => page.number = Len(pages) /\ page.number > 0
      BY <1>4 DEF IInv, Counted
    <3>2. outcome' = "healthy" => pages # <<>>
      BY <3>1
    <3> QED BY <1>1, <1>4, <2>1, <2>2, <3>2 DEF HealthyIsComplete
  <2>4. NetworkErrorsSurface'
    BY <1>4, <2>1, <2>2 DEF NetworkErrorsSurface
  <2>5. Refusals' = IF page.number = 0 /\ a \in StatusErrors THEN {last} ELSE {}
    BY <2>1, <2>2 DEF Refusals, StatusErrors
  <2>6. FirstRefusalTold'
    BY <1>1, <1>4, <2>2, <2>5 DEF FirstRefusalTold
  <2> QED BY <2>3, <2>4, <2>6 DEF OutcomesTold
<1> QED BY <1>3, <1>4 DEF Ends

LEMMA NextOutcomes == IInv /\ OutcomesTold /\ [Next]_vars => OutcomesTold'
<1>1. ASSUME OutcomesTold, UNCHANGED vars
      PROVE  OutcomesTold'
  BY <1>1 DEF vars, OutcomesTold, HealthyIsComplete, NetworkErrorsSurface,
              FirstRefusalTold, Refusals
<1>2. ASSUME IInv, GoesOn
      PROVE  OutcomesTold'
  <2>1. outcome' # "healthy" /\ pc' # "done"
    BY <1>2, FetchAssumption DEF IInv, GoesOn
  <2> QED BY <2>1 DEF OutcomesTold, HealthyIsComplete, NetworkErrorsSurface, FirstRefusalTold
<1> QED BY <1>1, <1>2, StepShape, GotPageTurns, LastAnswer

LEMMA AlwaysOutcomes == Spec => []OutcomesTold
<1>1. Init => OutcomesTold
  BY FetchAssumption
     DEF Init, OutcomesTold, HealthyIsComplete, NetworkErrorsSurface, FirstRefusalTold
<1> QED BY <1>1, NextOutcomes, AlwaysIInv, PTL DEF Spec

\* A catalog is saved as healthy with all its pages, or a page after the first was
\* refused with an error status or missing in the document.
THEOREM HealthyAlwaysComplete == Spec => []HealthyIsComplete
<1>1. OutcomesTold => HealthyIsComplete
  BY DEF OutcomesTold
<1> QED BY <1>1, AlwaysOutcomes, PTL

\* The scheduler retries a fetch exactly when a request failed in transport.
THEOREM NetworkErrorsAlwaysSurface == Spec => []NetworkErrorsSurface
<1>1. OutcomesTold => NetworkErrorsSurface
  BY DEF OutcomesTold
<1> QED BY <1>1, AlwaysOutcomes, PTL

\* The first refusal decides between a preview that is not out yet and a provider
\* that is misconfigured or broken.
THEOREM FirstRefusalAlwaysTold == Spec => []FirstRefusalTold
<1>1. OutcomesTold => FirstRefusalTold
  BY DEF OutcomesTold
<1> QED BY <1>1, AlwaysOutcomes, PTL

\* Pages and double pages stay the same pages while the iteration turns them.
THEOREM NumberingAlwaysAgrees == Spec => []NumberingAgrees
<1>1. IInv => NumberingAgrees
  BY PageThereAndBack, TurningAgrees, CountingAgrees DEF IInv, TypeOK, NumberingAgrees
<1> QED BY <1>1, AlwaysIInv, PTL

=============================================================================
