---------------------------- MODULE ProviderFetch ----------------------------
(***************************************************************************)
(* One fetch of a provider's catalog: the constructor and the error        *)
(* handling of providers/base.py around the three ways the provider        *)
(* classes find their pages, as Provider.fetch_catalog drives it.          *)
(*                                                                         *)
(* The shop's server has the images 0 .. images - 1.  Any request may be   *)
(* refused with an error status, fail in transport, or come back as        *)
(* something the class cannot read.                                        *)
(***************************************************************************)
EXTENDS PageNumbers, Sequences

CONSTANTS MaxImages,  \* bound: images of a catalog
          None        \* no status yet

ASSUME FetchAssumption ==
  /\ MaxImages \in Nat
  /\ None # "healthy"

\* The provider classes.  "address": the page number is part of the address
\* (Aldi-Nord, Edeka, Norma, Rossmann).  The other classes load catalog data first:
\* a "list" of page addresses (Kaufland, Lidl, Netto), of "spreads" (Action,
\* Aldi-Sued, Hofer, Kik, Metro, Rewe), or the "document" itself (Penny).  A picky
\* class takes a missing first page for a catalog that is not out (Rossmann).
Class ==
  [layout : {"address"}, first : {1}, preview : BOOLEAN, picky : {FALSE}]
    \cup [layout : {"address"}, first : {1}, preview : {FALSE}, picky : {TRUE}]
    \cup [layout : {"list", "spreads", "document"}, first : {0},
          preview : BOOLEAN, picky : {FALSE}]

VARIABLES
  class,     \* the provider class
  images,    \* the number of images the server has
  pc,        \* "constructing", "loading", "dating", "paging", "done"
  page,      \* the page number iter_catalog_pages is at
  pages,     \* the pages yielded: <<normalized number, image>>
  outcome,   \* the status fetch_catalog saves, or "network": it reraises
  answers    \* history: <<pc, number of the page, answer>> of each request

vars == <<class, images, pc, page, pages, outcome, answers>>

Init ==
  /\ class \in Class
  /\ images \in 0 .. MaxImages
  /\ pc = "constructing"
  /\ page = NumberedFrom(class.first, class.first)
  /\ pages = <<>>
  /\ outcome = None
  /\ answers = {}

-----------------------------------------------------------------------------
\* Exceptions, with the __cause__ that is looked at later.

Raised(name, cause) == [name |-> name, cause |-> cause]

Unavailable == "unavailable"
Broken == "broken"
Misconfigured == "misconfigured"
MisconfiguredOrBroken == "misconfigured or broken"
ProviderWarnings == {Unavailable, Broken, Misconfigured, MisconfiguredOrBroken}
Network == "network"
Exhausted == "pages exhausted"

\* What a request ends with: an error status (404 or another), a TransportError, or
\* something that cannot be read (a redirect loop, a missing key, a page that does
\* not render).  "unreadable" is a page pdfium finds no page in.
StatusErrors == {"not found", "refused"}
Failures == StatusErrors \cup {"disconnected", "garbled"}
Answers == Failures \cup {"ok", "unreadable"}
HTTPStatusError == "HTTPStatusError"

\* What each failure raises in the provider class.
RawError(a) ==
  CASE a \in StatusErrors    -> Raised(HTTPStatusError, "none")
    [] a = "disconnected"    -> Raised("TransportError", "none")
    [] a = "garbled"         -> Raised("Exception", "none")

\* Mutant: a TransportError is an exception like any other.
TranslatedBroken(e) ==
  IF e.name = HTTPStatusError THEN Raised(MisconfiguredOrBroken, e.name)
  ELSE Raised(Broken, e.name)

\* The clauses get_catalog_data and get_page have in common.
Translated(e) ==
  CASE e.name = "TransportError" -> Raised(Network, e.name)
    [] e.name = HTTPStatusError  -> Raised(MisconfiguredOrBroken, e.name)
    [] OTHER                     -> Raised(Broken, e.name)

\* get_catalog_data of the base class, then of Preview.
BaseDataError(e) == IF e.name = Unavailable THEN e ELSE Translated(e)

\* Mutant: Preview does not wrap get_catalog_data.
DataErrorPlain(e) == BaseDataError(e)

DataError(e) ==
  LET base == BaseDataError(e)
  IN  IF class.preview /\ base.name \in ProviderWarnings /\ base.cause = HTTPStatusError
      THEN Raised(Unavailable, base.cause) ELSE base

OnFirst == IntOf(page) = class.first

\* Mutant: a refused page is the end of the catalog, the first one too.
BasePageErrorAny(e) ==
  IF e.name = HTTPStatusError THEN Raised(Exhausted, e.name)
  ELSE IF e.name \in {Exhausted, Unavailable} THEN e ELSE Translated(e)

\* get_page of the base class, then of Preview.
BasePageError(e) ==
  CASE e.name = Exhausted ->
         IF OnFirst THEN Raised(MisconfiguredOrBroken, e.cause) ELSE e
    [] e.name = Unavailable ->
         IF OnFirst THEN e ELSE Raised(MisconfiguredOrBroken, e.cause)
    [] e.name = HTTPStatusError /\ ~OnFirst -> Raised(Exhausted, e.name)
    [] OTHER -> Translated(e)

PageError(e) ==
  LET base == BasePageError(e)
  IN  IF /\ class.preview /\ OnFirst
         /\ base.name \in ProviderWarnings /\ base.cause = HTTPStatusError
      THEN Raised(Unavailable, base.cause) ELSE base

-----------------------------------------------------------------------------
End(result) == pc' = "done" /\ outcome' = result
Heard(a) == answers' = answers \cup {<<pc, page.number, a>>}

\* get_provider_class and __init__ up to the client: an unknown class, an
\* invalid configuration, or a preview timedelta that raises.
Construct ==
  /\ pc = "constructing"
  /\ \/ pc' = "loading" /\ UNCHANGED outcome
     \/ End(Misconfigured)
     \/ class.preview /\ End(Broken)
  /\ UNCHANGED <<class, images, page, pages, answers>>

\* _get_catalog_data: nothing for an address, requests for the others.  A list may
\* lack the catalog: CatalogUnavailableWarning, from an IndexError (Kaufland, Lidl).
GetCatalogData ==
  /\ pc = "loading"
  /\ \/ /\ pc' = "dating"
        /\ IF class.layout = "address" THEN UNCHANGED answers ELSE Heard("ok")
        /\ UNCHANGED outcome
     \/ /\ class.layout = "list"
        /\ Heard("ok")
        /\ End(DataError(Raised(Unavailable, "IndexError")).name)
     \/ /\ class.layout # "address"
        /\ \E a \in Failures : Heard(a) /\ End(DataError(RawError(a)).name)
  /\ UNCHANGED <<class, images, page, pages>>

\* get_valid_since and get_valid_until
GetValidity ==
  /\ pc = "dating"
  /\ \/ pc' = "paging" /\ UNCHANGED outcome
     \/ End(Broken)
  /\ UNCHANGED <<class, images, page, pages, answers>>

\* The image of a page number.  The first spread is the cover; the spreads after it
\* hold two images each, but the last, which may lack its second one.
SpreadImage ==
  LET d == AsDouble(page)
  IN  IF d.number = 0 THEN 0 ELSE 2 * d.number - 1 + d.index

\* A shop counts the pages in its addresses from the class's first page number.
AddressImage == IntOf(page) - class.first

Image == CASE class.layout = "address"             -> AddressImage
           [] class.layout \in {"list", "document"} -> IntOf(page)
           [] class.layout = "spreads"             -> SpreadImage

\* Whether a class finds what to fetch: an address can always be formed.
Listed == class.layout = "address" \/ Image < images

\* One round of iter_catalog_pages, and page_numbering's next number.
GotPage ==
  /\ pc = "paging"
  /\ Image < images
  /\ Heard("ok")
  /\ pages' = Append(pages, <<page.number, Image>>)
  /\ page' = NextPage(page)
  /\ UNCHANGED <<class, images, pc, outcome>>

\* Mutant: PagesExhausted is not caught.
PageFailedEscapes(e) ==
  End(PageError(e).name) /\ UNCHANGED <<class, images, page, pages>>

\* Mutant: the iteration skips the page that is missing and goes on.
PageFailedSkips(e) ==
  LET failure == PageError(e)
  IN  /\ UNCHANGED <<class, images, pages>>
      /\ IF failure.name = Exhausted
         THEN /\ page' = IF page.number < MaxImages THEN NextPage(page) ELSE page
              /\ UNCHANGED <<pc, outcome>>
         ELSE End(failure.name) /\ UNCHANGED page

\* iter_catalog_pages ends with PagesExhausted; all else goes up.
PageFailed(e) ==
  LET failure == PageError(e)
  IN  /\ End(IF failure.name = Exhausted THEN "healthy" ELSE failure.name)
      /\ UNCHANGED <<class, images, page, pages>>

\* The catalog data ends (IndexError), or pdfium gives no page (PdfiumError).
RunOut ==
  /\ pc = "paging"
  /\ \/ ~Listed /\ UNCHANGED answers
     \/ Listed /\ class.layout = "document" /\ Heard("unreadable")
  /\ PageFailed(Raised(Exhausted, "IndexError"))

\* A page that cannot be had, be it there or past the last image.  A document needs no
\* request any more.
RefusedPage(a) ==
  /\ pc = "paging"
  /\ Listed
  /\ class.layout = "document" => a = "garbled"
  /\ Heard(a)
  /\ PageFailed(IF class.picky /\ OnFirst /\ a = "not found"
                THEN Raised(Unavailable, HTTPStatusError) ELSE RawError(a))

Next ==
  \/ Construct
  \/ GetCatalogData
  \/ GetValidity
  \/ GotPage
  \/ RunOut
  \/ \E a \in Failures : RefusedPage(a)

\* A fetch that is under way goes on: every request ends by its timeout at last.
Spec == Init /\ [][Next]_vars /\ WF_vars(Next)

-----------------------------------------------------------------------------
TypeOK ==
  /\ class \in Class
  /\ images \in 0 .. MaxImages
  /\ pc \in {"constructing", "loading", "dating", "paging", "done"}
  /\ page \in PageNumber
  /\ pages \in Seq((0 .. MaxImages) \X (0 .. MaxImages))
  /\ outcome \in ProviderWarnings \cup {"healthy", Network, None}
  /\ answers \subseteq
       {"loading", "paging"} \X (0 .. MaxImages) \X Answers

\* Whatever the numbering and layout of a class, the pages come out numbered
\* from 0 without a gap, each with the image of that place in the catalog.
PagesInOrder == \A i \in 1 .. Len(pages) : pages[i] = <<i - 1, i - 1>>

\* A catalog is saved as healthy only with a page, and with all of them unless a
\* later page was refused with an error status or missing in the document: an error
\* in transport or in reading a page never passes for the end of the catalog.
HealthyIsComplete ==
  outcome = "healthy" =>
    /\ pages # <<>>
    /\ \/ Len(pages) = images
       \/ \E h \in answers : h[2] > 0 /\ h[3] \in StatusErrors \cup {"unreadable"}

\* A fetch ends with the NetworkError that makes the scheduler retry it exactly
\* when a request failed in transport, at whatever step and for previews too.
NetworkErrorsSurface ==
  pc = "done" =>
    (outcome = Network <=> \E h \in answers : h[3] = "disconnected")

\* A preview whose catalog is not there yet, because the first thing it asks for
\* is refused, is unavailable, and never makes the provider look broken; the same
\* refusal of a current catalog does.
Refusals == {h \in answers : h[2] = 0 /\ h[3] \in StatusErrors}

FirstRefusalTold ==
  pc = "done" /\ Refusals # {} =>
    outcome = IF class.preview \/ (class.picky /\ \E h \in Refusals : h[3] = "not found")
              THEN Unavailable ELSE MisconfiguredOrBroken

\* Page and double page stay the same page, wherever the iteration is, and turning
\* or counting double pages is turning or counting pages.
NumberingAgrees ==
  /\ AsPage(AsDouble(page)) = page
  /\ NextDouble(AsDouble(page)) = AsDouble(NextPage(page))
  /\ PrevDouble(AsDouble(NextPage(page))) = AsDouble(page)
  /\ DoublePlus(AsDouble(page), 1) = NextDouble(AsDouble(page))
  /\ DoublePlus(AsDouble(NextPage(page)), 0 - 1) = AsDouble(page)

\* Every fetch ends, although iter_catalog_pages itself never stops counting.
FetchEnds == <>(pc = "done")

=============================================================================
