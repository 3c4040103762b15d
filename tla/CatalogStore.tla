---------------------------- MODULE CatalogStore ----------------------------
(***************************************************************************)
(* The catalog database, the page storage and the three jobs and two       *)
(* request handlers that change them.                                      *)
(*                                                                         *)
(* providers, catalogs, pages and pagefiles are the committed tables of    *)
(* database/models.py; storage is the set of files below storage_path.     *)
(* worker is the one thread of the scheduler's executor and the session of *)
(* the job it runs; tx holds the rows that job has flushed and not yet     *)
(* committed.  request is one DELETE /providers/{id} in flight.            *)
(*                                                                         *)
(* SQLite gives the row ids of deleted catalogs and pages again, so that a *)
(* loaded cascade may come to name the rows of somebody else.              *)
(*                                                                         *)
(* A FileId stands for a pagefile row and for the uuid path it names; a    *)
(* Content for everything with one sha256.  Readers see committed tables   *)
(* only (SQLite in WAL mode).                                              *)
(***************************************************************************)
EXTENDS Naturals

CONSTANTS
  ProviderId, CatalogId, FileId, Content,
  Warning,          \* the statuses a ProviderWarning may carry
  MaxPages,         \* bound: pages of one catalog
  SavepointCommits, \* TRUE: releasing the outermost SAVEPOINT commits (SQLite)
  CanonicalPaths,   \* TRUE: storage_path is absolute and free of symlinks
  None

Healthy == "healthy"
Status == Warning \cup {Healthy}

ASSUME StoreAssumption ==
  /\ MaxPages \in Nat \ {0}
  /\ SavepointCommits \in BOOLEAN
  /\ CanonicalPaths \in BOOLEAN
  /\ None \notin ProviderId \cup CatalogId \cup FileId \cup Content \cup Status

VARIABLES providers, catalogs, expired, pages, pagefiles, storage,
          worker, tx, request,
          struck  \* history: the catalogs that lost pages to a stale cascade

tables == <<providers, catalogs, expired, pages, pagefiles, struck>>
vars == <<tables, storage, worker, tx, request>>

Page == [catalog : CatalogId, number : 0 .. MaxPages - 1, file : FileId]

PagesOf(S) == {p \in pages : p.catalog \in S}
FilesOf(P) == {p.file : p \in P}
CatalogsOf(p) == {c \in CatalogId : catalogs[c] = p}
Live == {c \in CatalogId : catalogs[c] # None}

-----------------------------------------------------------------------------
\* The state of the worker between two jobs, and of a session with no DML.

Idle == [pc |-> "idle", provider |-> None, seen |-> None, outcome |-> None,
         file |-> None, todo |-> {}, gone |-> {}, loaded |-> {}, unused |-> {}]

NoTx == [catalog |-> None, next |-> 0, pages |-> {},
         pagefiles |-> [f \in FileId |-> None]]

\* "fresh" is history: the catalogs committed since a loaded one was gone, whose ids
\* and whose pages' ids may be those the gone ones had.
NoRequest ==
  [pc |-> "none", provider |-> None, catalogs |-> {}, files |-> {}, fresh |-> {}]

Init ==
  /\ providers = [p \in ProviderId |-> None]
  /\ catalogs = [c \in CatalogId |-> None]
  /\ expired = {}
  /\ pages = {}
  /\ pagefiles = [f \in FileId |-> None]
  /\ storage = {}
  /\ worker = Idle
  /\ tx = NoTx
  /\ request = NoRequest
  /\ struck = {}

\* Leaving `with DBSession()`: whatever is not committed is rolled back.
EndJob == worker' = Idle /\ tx' = NoTx

\* The database's write lock, held by the job from its first flushed row on.
WriteLocked ==
  \/ tx.catalog # None
  \/ worker.pc = "warned"
  \/ ~SavepointCommits /\ worker.gone # {}

-----------------------------------------------------------------------------
\* fetch_provider

StartFetch(p) ==
  /\ worker.pc = "idle"
  /\ providers[p] # None
  /\ worker' = [Idle EXCEPT !.pc = "constructing", !.provider = p,
                            !.seen = providers[p]]
  /\ UNCHANGED <<tables, storage, tx, request>>

\* INSERT of the catalog, the first write of the savepoint; its foreign key
\* finds out whether the provider is still there.  Its id may have been another's.
InsertCatalog(c) ==
  /\ worker.pc = "constructing"
  /\ providers[worker.provider] # None
  /\ catalogs[c] = None
  /\ tx' = [tx EXCEPT !.catalog = c]
  /\ worker' = [worker EXCEPT !.pc = "paging"]
  /\ UNCHANGED <<tables, storage, request>>

\* Mutant: the lookup misses the rows this session has flushed.
KnownFilesCommitted(x) == {f \in FileId : pagefiles[f] = x}

\* The pagefile a session sees for a content: committed or its own.
KnownFiles(x) == {f \in FileId : x \in {pagefiles[f], tx.pagefiles[f]}}

\* Mutant: the provider's own page number, not the normalized one.
NewPageUnnormalized(f) == [catalog |-> tx.catalog, number |-> tx.next + 1, file |-> f]

NewPage(f) == [catalog |-> tx.catalog, number |-> tx.next, file |-> f]

\* get_or_create finds the content: only the page row is new.
ReuseFile(x) ==
  /\ worker.pc = "paging"
  /\ tx.next < MaxPages
  /\ \E f \in KnownFiles(x) :
       tx' = [tx EXCEPT !.pages = @ \cup {NewPage(f)}, !.next = @ + 1]
  /\ UNCHANGED <<tables, storage, worker, request>>

\* get_or_create does not find it: the row is flushed before the file exists.
FlushFile(x, f) ==
  /\ worker.pc = "paging"
  /\ tx.next < MaxPages
  /\ KnownFiles(x) = {}
  /\ f \notin storage
  /\ pagefiles[f] = None /\ tx.pagefiles[f] = None
  /\ tx' = [tx EXCEPT !.pagefiles[f] = x]
  /\ worker' = [worker EXCEPT !.pc = "writing", !.file = f]
  /\ UNCHANGED <<tables, storage, request>>

WriteFile ==
  /\ worker.pc = "writing"
  /\ storage' = storage \cup {worker.file}
  /\ tx' = [tx EXCEPT !.pages = @ \cup {NewPage(worker.file)}, !.next = @ + 1]
  /\ worker' = [worker EXCEPT !.pc = "paging", !.file = None]
  /\ UNCHANGED <<tables, request>>

\* Mutant: the exception of write_bytes is swallowed.
WriteFailsSwallowed ==
  /\ worker.pc = "writing"
  /\ tx' = [tx EXCEPT !.pages = @ \cup {NewPage(worker.file)}, !.next = @ + 1]
  /\ worker' = [worker EXCEPT !.pc = "paging", !.file = None]
  /\ UNCHANGED <<tables, storage, request>>

\* write_bytes raises, having created the file or not.
WriteFails ==
  /\ worker.pc = "writing"
  /\ storage' \in {storage, storage \cup {worker.file}}
  /\ EndJob
  /\ UNCHANGED <<tables, request>>

\* What the fetch's rows make of the committed tables.
CommitFetch ==
  /\ catalogs' = [catalogs EXCEPT ![tx.catalog] = worker.provider]
  /\ pages' = pages \cup tx.pages
  /\ pagefiles' = [f \in FileId |-> IF tx.pagefiles[f] # None
                                    THEN tx.pagefiles[f] ELSE pagefiles[f]]
  /\ tx' = NoTx
  /\ request' = [request EXCEPT
       !.fresh = IF request.fresh # {} \/ ~(request.catalogs \subseteq Live)
                 THEN @ \cup {tx.catalog} ELSE @]
  /\ UNCHANGED <<expired, struck>>

\* Mutant: an exhausted first page ends the catalog like any other.
ReleaseFetchEmpty ==
  /\ worker.pc = "paging"
  /\ worker' = [worker EXCEPT !.pc = "saving", !.outcome = Healthy]
  /\ IF SavepointCommits THEN CommitFetch
                         ELSE UNCHANGED <<catalogs, expired, pages, pagefiles, struck, tx, request>>
  /\ UNCHANGED <<providers, storage>>

\* The provider ran out of pages after its first: RELEASE SAVEPOINT.
ReleaseFetch ==
  /\ worker.pc = "paging"
  /\ tx.next > 0
  /\ worker' = [worker EXCEPT !.pc = "saving", !.outcome = Healthy]
  /\ IF SavepointCommits THEN CommitFetch
                         ELSE UNCHANGED <<catalogs, expired, pages, pagefiles, struck, tx, request>>
  /\ UNCHANGED <<providers, storage>>

\* A ProviderWarning anywhere in the savepoint: ROLLBACK TO SAVEPOINT, which
\* keeps the lock a flushed catalog has taken.
FetchWarns(w) ==
  /\ worker.pc \in {"constructing", "paging"}
  /\ worker' = [worker EXCEPT
       !.pc = IF worker.pc = "paging" THEN "warned" ELSE "saving", !.outcome = w]
  /\ tx' = NoTx
  /\ UNCHANGED <<tables, storage, request>>

\* NetworkError, an undecodable image, the foreign key of a deleted provider.
FetchRaises ==
  /\ worker.pc \in {"constructing", "paging"}
  /\ EndJob
  /\ UNCHANGED <<tables, storage, request>>

\* `self.status = ...; commit()`.  An unchanged status is no UPDATE; one of a
\* provider deleted meanwhile raises StaleDataError and rolls back.
SaveStatus ==
  /\ worker.pc \in {"saving", "warned"}
  /\ IF worker.outcome # worker.seen /\ providers[worker.provider] # None
     THEN providers' = [providers EXCEPT ![worker.provider] = worker.outcome]
     ELSE UNCHANGED providers
  /\ IF tx.catalog # None THEN CommitFetch
     ELSE UNCHANGED <<catalogs, expired, pages, pagefiles, struck, tx, request>>
  /\ worker' = Idle
  /\ UNCHANGED storage

-----------------------------------------------------------------------------
\* Deleting catalogs: the ORM deletes their pages, then runs after_page_delete
\* for each of them, in which file.pages loads the pages that are left, unless
\* this session has loaded the collection before.

LastPageLeft(f, rest) == \E p \in rest : {q \in rest : q.file = f} = {p}

HookedFiles(files, rest) == {f \in files : LastPageLeft(f, rest)}

\* pages.file_id is ON DELETE RESTRICT.
Restricted(files, rest) == files \cap FilesOf(rest) # {}

WithoutFiles(files) ==
  [f \in FileId |-> IF f \in files THEN None ELSE pagefiles[f]]

WithoutCatalogs(S) ==
  [c \in CatalogId |-> IF c \in S THEN None ELSE catalogs[c]]

\* cleanup_catalogs

\* Mutant: the filter on created_at is missing.
StartCleanupAll ==
  /\ worker.pc = "idle"
  /\ worker' = [Idle EXCEPT !.pc = "cleanup", !.todo = Live]
  /\ UNCHANGED <<tables, storage, tx, request>>

StartCleanup ==
  /\ worker.pc = "idle"
  /\ worker' = [Idle EXCEPT !.pc = "cleanup", !.todo = expired]
  /\ UNCHANGED <<tables, storage, tx, request>>

Rest(c) == pages \ PagesOf(worker.gone \cup {c})
HookedBy(c) == HookedFiles(FilesOf(PagesOf({c})) \ worker.loaded, Rest(c))

\* Mutant: the loop deletes without the savepoint whose release commits.
CleanupCatalogUnsaved(c) ==
  /\ worker.pc = "cleanup"
  /\ c \in worker.todo
  /\ ~Restricted(HookedBy(c), Rest(c))
  /\ worker' = [worker EXCEPT !.todo = @ \ {c}, !.gone = @ \cup {c},
                              !.loaded = @ \cup FilesOf(PagesOf({c}))]
  /\ UNCHANGED <<tables, storage, tx, request>>

\* One iteration, in a savepoint of its own.
CleanupCatalog(c) ==
  /\ worker.pc = "cleanup"
  /\ c \in worker.todo
  /\ ~Restricted(HookedBy(c), Rest(c))
  /\ worker' = [worker EXCEPT !.todo = @ \ {c}, !.gone = @ \cup {c},
                              !.loaded = @ \cup FilesOf(PagesOf({c}))]
  /\ IF SavepointCommits
     THEN /\ catalogs' = WithoutCatalogs({c})
          /\ expired' = expired \ {c} /\ struck' = struck \ {c}
          /\ pages' = Rest(c)
          /\ pagefiles' = WithoutFiles(HookedBy(c))
     ELSE UNCHANGED <<catalogs, expired, pages, pagefiles, struck>>
  /\ UNCHANGED <<providers, storage, tx, request>>

\* The foreign key refuses the hook's DELETE: the exception ends the job.
CleanupFails(c) ==
  /\ worker.pc = "cleanup"
  /\ c \in worker.todo
  /\ Restricted(HookedBy(c), Rest(c))
  /\ EndJob
  /\ UNCHANGED <<tables, storage, request>>

FinishCleanup ==
  /\ worker.pc = "cleanup"
  /\ worker.todo = {}
  /\ EndJob
  /\ UNCHANGED <<tables, storage, request>>

-----------------------------------------------------------------------------
\* cleanup_storage

\* used_paths holds the paths as they were stored; the listed ones are resolved.
UsedFiles == IF CanonicalPaths THEN {f \in FileId : pagefiles[f] # None} ELSE {}

\* Mutant: the loop over the directory breaks at a used file.
StartSweepBreaks ==
  /\ worker.pc = "idle"
  /\ worker' = [Idle EXCEPT !.pc = "sweep",
       !.unused = IF storage \cap UsedFiles = {} THEN storage ELSE {}]
  /\ UNCHANGED <<tables, storage, tx, request>>

StartSweep ==
  /\ worker.pc = "idle"
  /\ worker' = [Idle EXCEPT !.pc = "sweep", !.unused = storage \ UsedFiles]
  /\ UNCHANGED <<tables, storage, tx, request>>

SweepFile(f) ==
  /\ worker.pc = "sweep"
  /\ f \in worker.unused
  /\ storage' = storage \ {f}
  /\ worker' = [worker EXCEPT !.unused = @ \ {f}]
  /\ UNCHANGED <<tables, tx, request>>

FinishSweep ==
  /\ worker.pc = "sweep"
  /\ worker.unused = {}
  /\ EndJob
  /\ UNCHANGED <<tables, storage, request>>

-----------------------------------------------------------------------------
\* The request handlers

PostProvider(p) ==
  /\ providers[p] = None
  /\ ~WriteLocked
  /\ providers' = [providers EXCEPT ![p] = Healthy]
  /\ UNCHANGED <<catalogs, expired, pages, pagefiles, struck, storage, worker, tx, request>>

\* Mutant: the relationship catalogs lacks its join condition.
LoadDeleteAll(p) ==
  /\ request.pc = "none"
  /\ providers[p] # None
  /\ request' = [pc |-> "loaded", provider |-> p, catalogs |-> Live,
                 files |-> FilesOf(pages), fresh |-> {}]
  /\ UNCHANGED <<tables, storage, worker, tx>>

\* session.delete loads the cascade: the catalogs and their pages, with the files the
\* hooks will ask for.
LoadDelete(p) ==
  /\ request.pc = "none"
  /\ providers[p] # None
  /\ request' = [pc |-> "loaded", provider |-> p, catalogs |-> CatalogsOf(p),
                 files |-> FilesOf(PagesOf(CatalogsOf(p))), fresh |-> {}]
  /\ UNCHANGED <<tables, storage, worker, tx>>

\* The pages whose ids the cascade did not load: those of a loaded catalog that is still
\* there have been loaded with it; "hit" are pages with the id of a loaded one that is gone.
LeftByRequest(hit) == pages \ (hit \cup PagesOf(request.catalogs \ request.fresh))
HookedByRequest(hit) == HookedFiles(request.files, LeftByRequest(hit))

\* The flush and the commit.  The ORM deletes the rows with the ids it loaded; what was
\* added since goes with the provider row (ON DELETE CASCADE), without hooks.
CommitDelete ==
  LET dropped == request.catalogs \cup CatalogsOf(request.provider)
  IN  \E hit \in SUBSET PagesOf(request.fresh) :
        /\ request.pc = "loaded"
        /\ ~WriteLocked
        /\ ~Restricted(HookedByRequest(hit), LeftByRequest(hit))
        /\ providers' = [providers EXCEPT ![request.provider] = None]
        /\ catalogs' = WithoutCatalogs(dropped)
        /\ expired' = expired \ dropped
        /\ pages' = LeftByRequest(hit) \ PagesOf(dropped)
        /\ pagefiles' = WithoutFiles(HookedByRequest(hit))
        /\ struck' = (struck \cup {p.catalog : p \in hit}) \ dropped
        /\ request' = NoRequest
        /\ UNCHANGED <<storage, worker, tx>>

\* IntegrityError, a 500: nothing is deleted.
RefuseDelete ==
  /\ request.pc = "loaded"
  /\ ~WriteLocked
  /\ \E hit \in SUBSET PagesOf(request.fresh) :
       Restricted(HookedByRequest(hit), LeftByRequest(hit))
  /\ request' = [NoRequest EXCEPT !.pc = "refused"]
  /\ UNCHANGED <<tables, storage, worker, tx>>

\* The busy timeout of 5 s is over before the job commits: also a 500.
TimeoutDelete ==
  /\ request.pc = "loaded"
  /\ WriteLocked
  /\ request' = NoRequest
  /\ UNCHANGED <<tables, storage, worker, tx>>

AnswerRefused ==
  /\ request.pc = "refused"
  /\ request' = NoRequest
  /\ UNCHANGED <<tables, storage, worker, tx>>

-----------------------------------------------------------------------------
\* The environment

\* created_at falls behind now - expiration_days.
Expire(c) ==
  /\ c \in Live \ expired
  /\ expired' = expired \cup {c}
  /\ UNCHANGED <<providers, catalogs, pages, pagefiles, struck, storage, worker, tx, request>>

\* The process dies and is started again.
Crash ==
  /\ <<worker, tx, request>> # <<Idle, NoTx, NoRequest>>
  /\ EndJob
  /\ request' = NoRequest
  /\ UNCHANGED <<tables, storage>>

-----------------------------------------------------------------------------
FetchStep ==
  \/ \E c \in CatalogId : InsertCatalog(c)
  \/ \E x \in Content : ReuseFile(x)
  \/ \E x \in Content, f \in FileId : FlushFile(x, f)
  \/ WriteFile
  \/ WriteFails
  \/ ReleaseFetch
  \/ \E w \in Warning : FetchWarns(w)
  \/ FetchRaises
  \/ SaveStatus

CleanupStep ==
  \/ \E c \in CatalogId : CleanupCatalog(c) \/ CleanupFails(c)
  \/ FinishCleanup

SweepStep ==
  \/ \E f \in FileId : SweepFile(f)
  \/ FinishSweep

WorkerStep ==
  \/ \E p \in ProviderId : StartFetch(p)
  \/ FetchStep
  \/ StartCleanup
  \/ CleanupStep
  \/ StartSweep
  \/ SweepStep

RequestStep ==
  \/ \E p \in ProviderId : PostProvider(p) \/ LoadDelete(p)
  \/ CommitDelete
  \/ RefuseDelete
  \/ TimeoutDelete
  \/ AnswerRefused

Next ==
  \/ WorkerStep
  \/ RequestStep
  \/ \E c \in CatalogId : Expire(c)
  \/ Crash

Spec == Init /\ [][Next]_vars

\* A started job runs on.
JobFairness == WF_vars(FetchStep \/ CleanupStep \/ SweepStep)

\* The weekly trigger starts a sweep again and again, however busy the worker
\* is, and some sweep gets as far as each file before the process dies.
SweepFairness ==
  /\ SF_vars(StartSweep)
  /\ \A f \in FileId : SF_vars(SweepFile(f))

FairSpec == Spec /\ JobFairness /\ SweepFairness

\* The daily trigger starts a cleanup again and again, in a process that does
\* not die and gets no requests, and each catalog has its turn in some run.
CleanupFairness ==
  /\ SF_vars(StartCleanup)
  /\ \A c \in CatalogId : SF_vars(CleanupCatalog(c))

QuietNext ==
  \/ WorkerStep
  \/ \E p \in ProviderId : PostProvider(p)
  \/ \E c \in CatalogId : Expire(c)

QuietSpec == Init /\ [][QuietNext]_vars /\ JobFairness /\ CleanupFairness

-----------------------------------------------------------------------------
WorkerState ==
  [pc : {"idle", "constructing", "paging", "writing", "saving", "warned",
         "cleanup", "sweep"},
   provider : ProviderId \cup {None}, seen : Status \cup {None},
   outcome : Status \cup {None}, file : FileId \cup {None},
   todo : SUBSET CatalogId, gone : SUBSET CatalogId,
   loaded : SUBSET FileId, unused : SUBSET FileId]

TxState ==
  [catalog : CatalogId \cup {None}, next : 0 .. MaxPages,
   pages : SUBSET Page, pagefiles : [FileId -> Content \cup {None}]]

RequestState ==
  [pc : {"none", "loaded", "refused"}, provider : ProviderId \cup {None},
   catalogs : SUBSET CatalogId, files : SUBSET FileId, fresh : SUBSET CatalogId]

\* The columns and the states have the types the tables and the sessions give
\* them; a page number never reaches MaxPages, and only live catalogs expire.
TypeOK ==
  /\ providers \in [ProviderId -> Status \cup {None}]
  /\ catalogs \in [CatalogId -> ProviderId \cup {None}]
  /\ expired \subseteq Live /\ struck \subseteq CatalogId
  /\ pages \subseteq Page
  /\ pagefiles \in [FileId -> Content \cup {None}]
  /\ storage \subseteq FileId
  /\ worker \in WorkerState
  /\ tx \in TxState
  /\ request \in RequestState

\* Every committed catalog is complete: its pages are numbered from 0 without
\* a gap or a repetition, and it has at least one (models.py, fetch_catalog).  Only a
\* cascade whose page ids were given again while it waited leaves less of it.
CatalogsComplete ==
  \A c \in Live \ struck :
    \E n \in 1 .. MaxPages :
      /\ {p.number : p \in PagesOf({c})} = 0 .. n - 1
      /\ \A p, q \in PagesOf({c}) : p.number = q.number => p = q

\* Every committed page can be served: its catalog is there, and that one's
\* provider, its pagefile row, and the file that row names (whatever was
\* rolled back, swept or deleted in between).
PagesServable ==
  /\ \A c \in Live : providers[catalogs[c]] # None
  /\ \A p \in pages : /\ p.catalog \in Live
                      /\ pagefiles[p.file] # None
                      /\ p.file \in storage

\* get_or_create keeps one pagefile per content although no constraint of the
\* table asks for it.
OneFilePerContent ==
  \A f, g \in FileId :
    pagefiles[f] # None /\ pagefiles[f] = pagefiles[g] => f = g

\* What cleanup_catalogs has deleted when it ends without an exception is
\* deleted for good (jobs.py: "Job to cleanup outdated catalogs.").
CleanupEffective ==
  [][FinishCleanup => worker.gone \cap Live' = {}]_vars

\* Delete_provider takes catalogs and pages of its own provider only, whatever fetches and
\* cleanups do between its load and its flush; but those that came after a catalog it had
\* loaded was cleaned up may have the ids of its rows.
DeleteTakesOwn ==
  [][CommitDelete =>
       \A c \in (Live \ Live') \cup {p.catalog : p \in pages \ pages'} :
         catalogs[c] = request.provider \/ c \in request.fresh]_vars

\* The committed tables and the storage implement CatalogService: a catalog appears
\* whole, each page with the content it was fetched with, and only a delete takes from it.
Stored(f) == IF f \in storage THEN pagefiles[f] ELSE None

LeavesOf(c) ==
  [n \in {p.number : p \in PagesOf({c})} |->
     Stored((CHOOSE p \in PagesOf({c}) : p.number = n).file)]

Shelf ==
  [c \in CatalogId |->
     IF catalogs[c] = None THEN None
     ELSE [provider |-> catalogs[c], leaves |-> LeavesOf(c)]]

Service == INSTANCE CatalogService
  WITH registered <- {p \in ProviderId : providers[p] # None},
       shelf <- Shelf, old <- expired

ImplementsService == Service!Spec

\* A catalog on the shelf is not taken for none.
ASSUME ServiceAssumption == None \notin [provider : ProviderId, leaves : Service!Leaves]

\* A file no row names (left by a failed write, a rolled back fetch or a crash)
\* is removed by some cleanup_storage (jobs.py: "Job to cleanup unused files
\* from storage."); once no job is at work on it, it cannot become used again.
OrphanFilesSwept ==
  \A f \in FileId :
    f \in storage /\ pagefiles[f] = None ~> f \notin storage \/ pagefiles[f] # None

-----------------------------------------------------------------------------
(* What the repository says of the program and the code does not do.       *)

\* signals.py: "Event cleaning up an orphaned page file after deleting the page."
NoOrphanRow == \A f \in FileId : pagefiles[f] # None => f \in FilesOf(pages)

\* providers.py, delete_provider: "Delete a single provider. This also deletes
\* all its catalogs and their pages."
DeleteNotRefused == request.pc # "refused"

\* The same text: no catalog, and no page, of another provider goes.
DeleteTakesNoOther ==
  [][CommitDelete =>
       \A c \in (Live \ Live') \cup {p.catalog : p \in pages \ pages'} :
         catalogs[c] = request.provider]_vars

\* settings.py, expiration_days: "Number of days after creation until old
\* catalogs are deleted."
ExpiredDeleted == \A c \in CatalogId : c \in expired ~> c \notin expired

\* jobs.py, cleanup_storage: "Job to cleanup unused files from storage."
OnlyUnusedRemoved ==
  [][\A f \in storage \ storage' : pagefiles[f] = None]_vars

=============================================================================
