---------------------------- MODULE CatalogReads ----------------------------
(***************************************************************************)
(* What the GET handlers of the REST API and the OPDS feeds read from the  *)
(* catalogs, while providers and catalogs come and go.                     *)
(*                                                                         *)
(* The catalogs change as CatalogService promises.  A handler makes        *)
(* several queries and reads files; nothing holds the catalogs still in    *)
(* between, since each SELECT sees the database of its own moment: not     *)
(* even between the count of a list and the items of a page of it.         *)
(***************************************************************************)
EXTENDS CatalogService, Sequences, FiniteSets

CONSTANTS Windows,   \* the [since, until) a catalog may be valid in
          MaxNow,    \* bound of the clock
          PageSize,  \* catalogs on a page of a paginated list
          Foreign    \* the content of a page of another catalog

ASSUME ReadsAssumption ==
  /\ Windows \subseteq [since : Nat, until : Nat]
  /\ \A w \in Windows : w.since < w.until
  /\ MaxNow \in Nat /\ PageSize \in Nat \ {0} /\ MaxPages \in Nat
  /\ Foreign \notin Content
  /\ IsFiniteSet(CatalogId) /\ CatalogId # {}
  /\ None \notin Nat /\ None \notin CatalogId /\ None \notin Windows
  /\ None \notin [provider : ProviderId, leaves : Leaves]

VARIABLES
  newer,    \* created_at: <<c, d>> where c was created after d
  window,   \* catalog -> [since, until], or None
  now,
  classes,  \* the providers whose class is in the registry
  request   \* the GET under way or just answered, or None

readVars == <<registered, shelf, old, newer, window, now, classes, request>>
catalogs == <<registered, shelf, old, newer, window, now, classes>>

ReadsInit ==
  /\ Init
  /\ newer = {}
  /\ window = [c \in CatalogId |-> None]
  /\ now = 0
  /\ classes = ProviderId
  /\ request = None

ProviderOf(c) == shelf[c].provider
ShelvedOf(p) == {c \in Shelved : ProviderOf(c) = p}

-----------------------------------------------------------------------------
\* The lists of api/v1/catalogs.py.

Newer(c, d) == <<c, d>> \in newer

\* The place of c among S, and S as a list, by created_at.desc().
Rank(S, c) == Cardinality({d \in S : d = c \/ Newer(d, c)})
NewestFirst(S) == [i \in 1 .. Cardinality(S) |-> CHOOSE c \in S : Rank(S, c) = i]

ListCatalogs == NewestFirst(Shelved)

\* Mutant: the partition counts from the oldest.
RowNumberAscending(c) ==
  Cardinality({d \in ShelvedOf(ProviderOf(c)) : d = c \/ Newer(c, d)})

\* row_number() over (partition by provider_id order by created_at desc).
RowNumber(c) == Rank(ShelvedOf(ProviderOf(c)), c)

ListLatest == {c \in Shelved : RowNumber(c) = 1}
ListPreviews == {c \in Shelved : window[c].since >= now}

\* Mutant: the end of the validity is not looked at.
ListCurrentEndless == {c \in Shelved : window[c].since <= now}

ListCurrent == {c \in Shelved : window[c].since <= now /\ window[c].until > now}
ListOutdated == {c \in Shelved : window[c].until < now}

\* The lists of api/v1/providers.py.
ProviderCatalogs(p) == NewestFirst(ShelvedOf(p))
ProviderCurrent(p) == {c \in ShelvedOf(p) : window[c].since <= now /\ window[c].until > now}
ProviderPreviews(p) == {c \in ShelvedOf(p) : window[c].since >= now}
ProviderOutdated(p) == {c \in ShelvedOf(p) : window[c].until < now}

\* order_by(created_at.desc()).first(), and the subquery of utils/queries.py.
ProviderLatest(p) == IF ShelvedOf(p) = {} THEN None ELSE ProviderCatalogs(p)[1]
LatestId(p) ==
  IF ShelvedOf(p) = {} THEN None
  ELSE CHOOSE c \in ShelvedOf(p) : \A d \in ShelvedOf(p) \ {c} : Newer(c, d)

\* The lists of pages: of all, of a catalog, and of the latest catalog of a provider.
ListPages ==
  {leaf \in Shelved \X (0 .. MaxPages - 1) : leaf[2] \in DOMAIN shelf[leaf[1]].leaves}
CatalogPages(c) == {k \in 0 .. MaxPages - 1 : <<c, k>> \in ListPages}
LatestPages(p) == CatalogPages(LatestId(p))

\* The feeds of opds.py.
FeedLatest == {c \in Shelved : RowNumber(c) = 1}
FeedAll == Shelved
FeedPreviews == {c \in Shelved : window[c].since >= now}
FeedOutdated == {c \in Shelved : window[c].until < now}
FeedCurrent == {c \in Shelved : window[c].since <= now /\ window[c].until > now}
FeedProvider(p) == {c \in Shelved : ProviderOf(c) = p}
FeedProviders == registered

FeedNames == {"latest", "all", "previews", "outdated", "current"}
Feed(f) ==
  CASE f = "latest"   -> FeedLatest
    [] f = "all"      -> FeedAll
    [] f = "previews" -> FeedPreviews
    [] f = "outdated" -> FeedOutdated
    [] f = "current"  -> FeedCurrent
    [] OTHER          -> FeedProvider(f)

-----------------------------------------------------------------------------
\* Requests.  All have a kind, a status (None before the answer) and "torn", a history
\* variable: has some of what the request is about been taken away since it was looked up?

Free == request = None
Answered(status) == request # None /\ request.status = status

Answer(status) == [request EXCEPT !.status = status]

\* A document is a catalog as JSON, PDF or EPUB, or the file of one of its pages.
\* "leaves" is history: what was asked for.
Document(kind, step, c, leaves, left) ==
  [kind |-> kind, status |-> None, torn |-> FALSE, step |-> step, catalog |-> c,
   provider |-> ProviderOf(c), leaves |-> leaves, left |-> left, got |-> {}]
NotFound(kind) == [kind |-> kind, status |-> 404, torn |-> FALSE]

\* get_catalog, download_catalog, embed_catalog, get_catalog_epub: the catalog's row.
AskCatalog(kind, c) ==
  /\ Free
  /\ request' = IF c \in Shelved THEN Document(kind, "pages", c, shelf[c].leaves, {})
                ELSE NotFound(kind)
  /\ UNCHANGED catalogs

\* The same of the latest catalog of a provider, if there is one.
AskLatest(kind, p) == AskCatalog(kind, ProviderLatest(p))

\* The row of a page with the path of its file.
PageDocument(c, k) ==
  IF c \in Shelved /\ k \in DOMAIN shelf[c].leaves
  THEN Document("file", "files", c, [i \in {k} |-> shelf[c].leaves[i]], {k})
  ELSE NotFound("file")
AskPage(c, k) ==
  /\ Free
  /\ request' = PageDocument(c, k)
  /\ UNCHANGED catalogs
AskLatestPage(p, k) == AskPage(LatestId(p), k)

Reading(step) ==
  /\ request # None /\ request.status = None
  /\ request.kind \in {"json", "pdf", "epub", "file"} /\ request.step = step

\* An empty list of pages is an IndexError for the PDF; the EPUB comes to it later.
Loaded(left, empty) ==
  [request EXCEPT !.left = left, !.step = IF request.kind = "epub" THEN "class" ELSE "files",
                  !.status = IF ~empty \/ request.kind = "epub" THEN None
                             ELSE IF request.kind = "pdf" THEN 500 ELSE 200]
LeavesNow == IF request.catalog \in Shelved THEN DOMAIN shelf[request.catalog].leaves ELSE {}

\* Mutant: as_pdf starts from page_images[1].
LoadPagesFromOne ==
  /\ Reading("pages")
  /\ request' = Loaded(LeavesNow, LeavesNow \subseteq (IF request.kind = "pdf" THEN {0} ELSE {}))
  /\ UNCHANGED catalogs

\* selectinload(Catalog.pages).
LoadPages ==
  /\ Reading("pages")
  /\ request' = Loaded(LeavesNow, LeavesNow = {})
  /\ UNCHANGED catalogs

\* Mutant: as_epub does not look at the cover.
LoadClassUnchecked ==
  /\ Reading("class")
  /\ request' = IF request.provider \notin registered \cap classes THEN Answer(500)
                ELSE IF request.left = {} THEN Answer(200)
                ELSE [request EXCEPT !.step = "files"]
  /\ UNCHANGED catalogs

\* selectinload(Catalog.provider), the class, and the cover of as_epub.
LoadClass ==
  /\ Reading("class")
  /\ request' = IF request.provider \in registered \cap classes /\ request.left # {}
                THEN [request EXCEPT !.step = "files"] ELSE Answer(500)
  /\ UNCHANGED catalogs

Got(k, content) ==
  [request EXCEPT !.got = @ \cup {<<k, content>>}, !.left = @ \ {k},
                  !.status = IF request.left = {k} THEN 200 ELSE None]

\* page.file and the file at its path; or FileResponse, which has the path already.
\* Catalog.pages has no order_by: the files are read in any order.
ReadFile ==
  /\ Reading("files")
  /\ \E k \in request.left \cap DOMAIN request.leaves :
       request' = Got(k, request.leaves[k])
  /\ UNCHANGED catalogs

\* Once the catalog is gone the row or the file may be gone.
ReadFails ==
  /\ Reading("files") /\ request.torn
  /\ request' = Answer(500)
  /\ UNCHANGED catalogs

\* Mutant: FileResponse looks the page up again.
ReadForeignAnywhere ==
  /\ Reading("files") /\ request.torn
  /\ \E k \in request.left : request' = Got(k, Foreign)
  /\ UNCHANGED catalogs

\* Or, since SQLite gives the ids of deleted rows again, the row found by file_id is
\* another page file's.  A path is not given again.
ReadForeign ==
  /\ Reading("files") /\ request.torn /\ request.kind # "file"
  /\ \E k \in request.left : request' = Got(k, Foreign)
  /\ UNCHANGED catalogs

\* A feed: the catalogs with their provider ids, then (all but "latest") the providers,
\* then the entries, for which "latest" loads the provider.  "asked" is history.
AskFeed(f) ==
  LET list == NewestFirst(Feed(f))
      asked == [i \in DOMAIN list |-> <<list[i], ProviderOf(list[i])>>]
  IN  /\ Free
      /\ request' = [kind |-> "feed", status |-> IF asked = <<>> THEN 200 ELSE None,
                     torn |-> FALSE, lazy |-> f = "latest", loaded |-> f = "latest",
                     known |-> {}, asked |-> asked, todo |-> asked, shown |-> <<>>]
      /\ UNCHANGED catalogs

Feeding == request # None /\ request.status = None /\ request.kind = "feed"
ProvidersAsked == {request.asked[i][2] : i \in DOMAIN request.asked}

LoadProviders ==
  /\ Feeding /\ ~request.loaded
  /\ request' = [request EXCEPT !.loaded = TRUE, !.known = registered \cap ProvidersAsked]
  /\ UNCHANGED catalogs

EntryBuilt ==
  LET p == Head(request.todo)[2]
  IN  p \in classes /\ p \in (IF request.lazy THEN registered ELSE request.known)
NextEntry(shown) ==
  [request EXCEPT !.shown = shown, !.todo = Tail(@),
                  !.status = IF Len(request.todo) = 1 THEN 200 ELSE None]

\* Mutant: an entry whose provider or class is missing is left out.
BuildEntryLenient ==
  /\ Feeding /\ request.loaded
  /\ request' = NextEntry(IF EntryBuilt THEN Append(request.shown, Head(request.todo))
                          ELSE request.shown)
  /\ UNCHANGED catalogs

\* Catalog.as_opds_entry raises for a missing provider or class, and no one catches it.
BuildEntry ==
  /\ Feeding /\ request.loaded
  /\ request' = IF EntryBuilt THEN NextEntry(Append(request.shown, Head(request.todo)))
                ELSE Answer(500)
  /\ UNCHANGED catalogs

\* A client that walks through the pages of list_catalogs or list_provider_catalogs until
\* it has as many as the last answer said there are.  "total" is what the handler has
\* counted for the page it is at.  "stay" is history: what has been on the list, and not
\* been old, all the while; and so is "late": was a catalog added after that count?
WalkList(q) == IF q = "all" THEN ListCatalogs ELSE ProviderCatalogs(q)

AskWalk(q) ==
  LET list == WalkList(q)
  IN  /\ Free
      /\ request' = [kind |-> "walk", status |-> None, torn |-> FALSE, of |-> q, page |-> 0,
                     total |-> None, late |-> FALSE,
                     seen |-> {}, stay |-> {list[i] : i \in DOMAIN list} \ old]
      /\ UNCHANGED catalogs

\* Mutant: the offset is not set.
OffsetStuck(page) == 0

\* Mutant: to_raw_params adds the limit for a page that counts from 0 already.
OffsetFromOne(page) == (page + 1) * PageSize

\* PaginationParams: pages are counted from 0.
Offset(page) == page * PageSize

Walking == request # None /\ request.status = None /\ request.kind = "walk"

\* paginate: SELECT count(*), then the items of the page.
CountTotal ==
  /\ Walking /\ request.total = None
  /\ request' = [request EXCEPT !.total = Len(WalkList(request.of))]
  /\ UNCHANGED catalogs

\* The answer says that there are ceil(total / PageSize) pages.
TurnPage ==
  LET list == WalkList(request.of)
      at == Offset(request.page)
      shown == {list[i] : i \in {j \in DOMAIN list : at < j /\ j <= at + PageSize}}
      last == at + PageSize >= request.total
  IN  /\ Walking /\ request.total # None
      /\ request' = [request EXCEPT
                       !.seen = @ \cup shown, !.page = @ + 1,
                       !.total = None, !.late = last /\ @,
                       !.status = IF last THEN 200 ELSE None]
      /\ UNCHANGED catalogs

Get ==
  \/ \E c \in CatalogId :
       \/ \E kind \in {"json", "pdf", "epub"} : AskCatalog(kind, c)
       \/ \E k \in 0 .. MaxPages - 1 : AskPage(c, k)
  \/ \E p \in ProviderId :
       \/ \E kind \in {"json", "pdf"} : AskLatest(kind, p)
       \/ \E k \in 0 .. MaxPages - 1 : AskLatestPage(p, k)
  \/ LoadPages \/ LoadClass \/ ReadFile \/ ReadFails \/ ReadForeign
  \/ \E f \in FeedNames \cup ProviderId : AskFeed(f)
  \/ LoadProviders
  \/ BuildEntry
  \/ \E q \in {"all"} \cup ProviderId : AskWalk(q)
  \/ CountTotal
  \/ TurnPage

-----------------------------------------------------------------------------
\* The catalogs change while a request is under way.

\* What the removal of these catalogs and providers, which may cost others pages, does
\* to the history of a request.
OnList(q) == IF q = "all" THEN Shelved ELSE ShelvedOf(q)

Without(gone, leaving) ==
  IF ~Answered(None) THEN request
  ELSE IF request.kind = "feed"
  THEN [request EXCEPT !.torn = @ \/ ProvidersAsked \cap leaving # {}]
  ELSE IF request.kind = "walk"
  THEN [request EXCEPT
          !.torn = @ \/ (leaving # {} /\ gone \cap OnList(request.of) # {}),
          !.stay = @ \ gone]
  ELSE [request EXCEPT !.torn = @ \/ shelf'[request.catalog] # shelf[request.catalog]]

RegisterProvider(p) ==
  /\ p \in classes
  /\ Register(p)
  /\ UNCHANGED <<newer, window, now, classes, request>>

PublishCatalog(c, p, leaves, w) ==
  /\ Publish(c, p, leaves)
  /\ newer' = newer \cup ({c} \X Shelved)
  /\ window' = [window EXCEPT ![c] = w]
  /\ request' = IF Answered(None) /\ request.kind = "walk" /\ request.of \in {"all", p}
                THEN [request EXCEPT !.late = @ \/ request.total # None] ELSE request
  /\ UNCHANGED <<now, classes>>

\* created_at < deadline holds for whatever was created before.
AgeCatalog(c) ==
  /\ Age(c)
  /\ \A d \in Shelved : Newer(c, d) => d \in old
  /\ request' = IF Answered(None) /\ request.kind = "walk" THEN [request EXCEPT !.stay = @ \ {c}]
                ELSE request
  /\ UNCHANGED <<newer, window, now, classes>>

Remove(gone, leaving) ==
  /\ newer' = newer \cap ((Shelved \ gone) \X (Shelved \ gone))
  /\ window' = [c \in CatalogId |-> IF c \in gone THEN None ELSE window[c]]
  /\ request' = Without(gone, leaving)
  /\ UNCHANGED <<now, classes>>

WithdrawCatalog(c) == Withdraw(c) /\ Remove({c}, {})
UnregisterProvider(p) == Unregister(p) /\ Remove(Shelved \ Shelved', {p})

Tick ==
  /\ now < MaxNow
  /\ now' = now + 1
  /\ UNCHANGED <<registered, shelf, old, newer, window, classes, request>>

\* The server starts again, with the provider modules it then finds.
Restart ==
  /\ classes' \in SUBSET ProviderId
  /\ request' = None
  /\ UNCHANGED <<registered, shelf, old, newer, window, now>>

\* Nothing depends on when the client has its answer: it has it before the next change.
Change ==
  /\ request = None \/ Answered(None)
  /\ \/ \E p \in ProviderId : RegisterProvider(p) \/ UnregisterProvider(p)
     \/ \E c \in CatalogId, p \in ProviderId, leaves \in Whole, w \in Windows :
          PublishCatalog(c, p, leaves, w)
     \/ \E c \in CatalogId : AgeCatalog(c) \/ WithdrawCatalog(c)
     \/ Tick
     \/ Restart

\* The client has its answer.
Received ==
  /\ request # None /\ ~Answered(None)
  /\ request' = None
  /\ UNCHANGED catalogs

ReadsNext == Get \/ Received \/ Change

ReadsSpec == ReadsInit /\ [][ReadsNext]_readVars

-----------------------------------------------------------------------------

Documents == {"json", "pdf", "epub", "file"}

\* Types; the catalogs there are were created one after the other, the old ones first; a
\* walk turns no more pages than there can be catalogs, or the one of an empty list.
TypeOK ==
  /\ registered \subseteq ProviderId /\ classes \subseteq ProviderId
  /\ shelf \in [CatalogId -> {None} \cup [provider : registered, leaves : Leaves]]
  /\ window \in [CatalogId -> {None} \cup Windows]
  /\ {c \in CatalogId : window[c] # None} = Shelved
  /\ newer \subseteq Shelved \X Shelved
  /\ \A c, d \in Shelved : c # d => (Newer(c, d) <=> ~Newer(d, c))
  /\ \A c, d, e \in Shelved : Newer(c, d) /\ Newer(d, e) => Newer(c, e)
  /\ \A c \in Shelved : ~Newer(c, c)
  /\ old \subseteq Shelved
  /\ \A c \in old, d \in Shelved : Newer(c, d) => d \in old
  /\ now \in 0 .. MaxNow
  /\ request # None =>
       /\ request.kind \in Documents \cup {"feed", "walk"}
       /\ request.status \in {None, 200, 404, 500} /\ request.torn \in BOOLEAN
       /\ request.kind = "walk" =>
            /\ request.page \in 0 .. Cardinality(CatalogId) /\ request.late \in BOOLEAN
            /\ request.total \in {None} \cup 0 .. Cardinality(CatalogId)
            /\ request.seen \subseteq CatalogId /\ request.stay \subseteq CatalogId

\* A document that is answered with 200 while its catalog stays has every page of the
\* catalog that was asked for, each with its own content.  Even when the catalog goes
\* meanwhile, a PDF or EPUB is not empty, and the file of a page is that page's: the path
\* of a file is given once.  (models.py as_pdf and as_epub, get_catalog and the pages.)
ReadsAreWhole ==
  Answered(200) /\ request.kind \in Documents =>
    /\ ~request.torn \/ request.kind = "file" =>
         request.got = {<<k, request.leaves[k]>> : k \in DOMAIN request.leaves}
    /\ request.kind \in {"pdf", "epub"} => request.got # {}

\* A handler raises only if the catalog or a provider it is about is removed meanwhile, if
\* it needs the class of a provider whose module is not installed any more, or if the
\* catalog had lost all of its pages to the delete of another provider before.
UndisturbedReadsSucceed ==
  Answered(500) =>
    \/ request.torn
    \/ request.kind = "epub" /\ request.provider \notin classes
    \/ request.kind \in {"pdf", "epub"} /\ DOMAIN request.leaves = {}
    \/ request.kind = "feed" /\ ~(ProvidersAsked \subseteq classes)

\* A feed shows every catalog its query found, or it is a 500: one provider whose class is
\* gone takes the feeds of all the others down.  (opds.py, Catalog.as_opds_entry.)
FeedAllOrNothing ==
  Answered(200) /\ request.kind = "feed" =>
    request.shown = request.asked /\ ProvidersAsked \subseteq classes

\* Each catalog is in one list by time, a preview before it is valid, then current, then
\* outdated, and what is outdated is never offered in another list; no claim is made for
\* the two moments in which its validity begins and ends (see ListsPlaceAlways).
ListsPlace ==
  \A c \in Shelved :
    /\ c \notin ListOutdated \cap (ListPreviews \cup ListCurrent)
    /\ now \notin {window[c].since, window[c].until} =>
         /\ c \in ListPreviews <=> now < window[c].since
         /\ c \in ListCurrent <=> window[c].since < now /\ now < window[c].until
         /\ c \in ListOutdated <=> window[c].until < now

UnionOf(List(_)) == UNION {List(p) : p \in registered}

\* The REST lists, the feeds and the lists of the single providers show the same catalogs;
\* the window function of the lists of the latest, the ordered query and the subquery for
\* the pages of the latest choose the same one; and a reader who starts from the feed of
\* providers reaches every catalog.
ListsAgree ==
  /\ ListLatest = FeedLatest
  /\ ListLatest = {ProviderLatest(p) : p \in registered} \ {None}
  /\ \A p \in ProviderId :
       /\ LatestId(p) = ProviderLatest(p)
       /\ ProviderLatest(p) # None => LatestPages(p) = DOMAIN shelf[ProviderLatest(p)].leaves
  /\ FeedAll = {ListCatalogs[i] : i \in DOMAIN ListCatalogs}
  /\ ListPreviews = FeedPreviews /\ ListPreviews = UnionOf(ProviderPreviews)
  /\ ListCurrent = FeedCurrent /\ ListCurrent = UnionOf(ProviderCurrent)
  /\ ListOutdated = FeedOutdated /\ ListOutdated = UnionOf(ProviderOutdated)
  /\ FeedAll = UNION {FeedProvider(p) : p \in FeedProviders}

\* A client that turns the pages of a list by offset, newest first, sees every catalog
\* that stays on the list, though fetches add catalogs and the cleanup takes old ones away
\* between two pages and between count and items.  It may miss one that is old, or if the
\* delete of a provider takes catalogs from the list, or if a catalog is added between the
\* count and the items of the page the client then takes for the last one.
WalkMissesNone ==
  Answered(200) /\ request.kind = "walk" /\ ~request.torn /\ ~request.late =>
    request.stay \subseteq request.seen

-----------------------------------------------------------------------------
(* What the repository says of the program and the code does not do.       *)

\* how-to-add-provider.rst: _get_valid_since "returns the datetime of the moment that the
\* flyer became valid", _get_valid_until that "of the moment after the flyer became
\* invalid": it is no preview any more in the one, and outdated in the other.
ListsPlaceAlways ==
  \A c \in Shelved :
    /\ c \in ListPreviews <=> now < window[c].since
    /\ c \in ListCurrent <=> window[c].since <= now /\ now < window[c].until
    /\ c \in ListOutdated <=> window[c].until <= now

=============================================================================
