-------------------------- MODULE CatalogStoreProofs --------------------------
(***************************************************************************)
(* Proofs about CatalogStore, for every number of providers, catalogs,     *)
(* files and contents and every bound MaxPages: types, the parts of the    *)
(* inductive invariant, the properties that follow from them, and the      *)
(* refinement of CatalogService.                                           *)
(***************************************************************************)
EXTENDS CatalogStore, TLAPS

\* The parts of the inductive invariant: how the open session, the committed tables and
\* the storage hang together at each point of a job.
SessionInv ==
  /\ worker.pc = "constructing" => worker.provider # None
  /\ worker.pc \in {"paging", "writing"} => tx.catalog # None
  /\ worker.pc = "writing" =>
       worker.file # None /\ tx.pagefiles[worker.file] # None /\ tx.next < MaxPages
  /\ worker.pc \in {"saving", "warned"} =>
       worker.provider # None /\ worker.outcome # None
  /\ tx.catalog # None =>
       /\ worker.pc \in {"paging", "writing", "saving"}
       /\ worker.provider # None /\ providers[worker.provider] # None
  /\ tx.catalog = None => tx = NoTx

FilesInv ==
  /\ \A f \in FileId : pagefiles[f] # None => f \in storage
  /\ \A f \in FileId : tx.pagefiles[f] # None =>
       f \in storage \/ (worker.pc = "writing" /\ f = worker.file)
  /\ \A p \in tx.pages :
       /\ p.catalog = tx.catalog
       /\ p.file \in storage
       /\ pagefiles[p.file] # None \/ tx.pagefiles[p.file] # None
  /\ worker.pc = "sweep" => \A f \in worker.unused : pagefiles[f] = None

\* The rows of a fetch: its catalog is nobody else's now, and its pages so far are numbered
\* from 0 without a gap or a repetition.
Numbered(P, n) ==
  /\ {p.number : p \in P} = 0 .. n - 1
  /\ \A p, q \in P : p.number = q.number => p = q

FetchInv ==
  /\ tx.catalog # None => tx.catalog \notin Live
  /\ \A p \in tx.pages : p.catalog = tx.catalog
  /\ Numbered(tx.pages, tx.next)
  /\ worker.pc = "saving" /\ tx.catalog # None => tx.next > 0

\* The row of a page file as the worker's session sees it; each content has one.
RowOf(f) == IF tx.pagefiles[f] # None THEN tx.pagefiles[f] ELSE pagefiles[f]

ContentInv ==
  /\ \A f \in FileId : tx.pagefiles[f] # None => pagefiles[f] = None
  /\ \A f, g \in FileId : RowOf(f) # None /\ RowOf(f) = RowOf(g) => f = g

\* What a cleanup has deleted does not come back while it runs, and what it has still
\* to delete is expired or gone.
CleanupInv ==
  worker.pc = "cleanup" =>
    /\ SavepointCommits => worker.gone \cap Live = {}
    /\ worker.todo \cap Live \subseteq expired

\* The provider of a loaded cascade stays, and the catalogs with the loaded ids are its own
\* unless they are fresh.
CascadeInv ==
  /\ request.pc = "loaded" =>
       request.provider # None /\ providers[request.provider] # None
  /\ \A c \in (request.catalogs \cap Live) \ request.fresh : catalogs[c] = request.provider

\* No page without its catalog, nor two with the same number in it.
PagesInv ==
  /\ struck \subseteq Live
  /\ \A p \in pages : p.catalog \in Live
  /\ \A p, q \in pages : p.catalog = q.catalog /\ p.number = q.number => p = q

-----------------------------------------------------------------------------
TypeInv == TypeOK /\ SessionInv

LEMMA NotNone ==
  /\ \A p \in ProviderId : p # None
  /\ \A c \in CatalogId : c # None
  /\ \A f \in FileId : f # None
  /\ \A x \in Content : x # None
  /\ \A s \in Status : s # None
  /\ Warning \subseteq Status /\ Healthy \in Status
BY StoreAssumption DEF StoreAssumption, Status

LEMMA NoTxType ==
  NoTx \in TxState
BY StoreAssumption DEF StoreAssumption, NoTx, TxState

\* Every step of every job and handler keeps the types and the session.
LEMMA TypeStep == TypeInv /\ [Next]_vars => TypeInv'
<1> USE StoreAssumption DEF StoreAssumption, Healthy, Status,
           WorkerState, TxState, RequestState
<1> SUFFICES ASSUME TypeOK, SessionInv, [Next]_vars
             PROVE  TypeOK' /\ SessionInv'
  BY DEF TypeInv
<1>1. CASE UNCHANGED vars
  BY <1>1 DEF vars, tables, TypeOK, SessionInv, Live, NoTx
<1>2. ASSUME NEW p \in ProviderId, StartFetch(p) PROVE TypeOK' /\ SessionInv'
  BY <1>2 DEF StartFetch, Idle, tables, TypeOK, SessionInv, Live, NoTx
<1>3. ASSUME NEW c \in CatalogId, InsertCatalog(c) PROVE TypeOK' /\ SessionInv'
  BY <1>3 DEF InsertCatalog, tables, TypeOK, SessionInv, Live, NoTx
<1>4. ASSUME NEW x \in Content, ReuseFile(x) PROVE TypeOK' /\ SessionInv'
  <2>1. PICK f \in FileId :
          tx' = [tx EXCEPT !.pages = @ \cup {NewPage(f)}, !.next = @ + 1]
    BY <1>4 DEF ReuseFile, KnownFiles
  <2>2. tx.catalog \in CatalogId /\ tx.next \in 0 .. MaxPages - 1 /\ tx.next + 1 \in 0 .. MaxPages
    BY <1>4 DEF ReuseFile, TypeOK, SessionInv
  <2>3. NewPage(f) \in Page
    BY <2>2 DEF NewPage, Page
  <2>4. /\ tx' \in TxState
        /\ tx'.catalog = tx.catalog /\ tx'.pagefiles = tx.pagefiles
    BY <2>1, <2>2, <2>3 DEF TypeOK
  <2>5. QED
    BY <1>4, <2>2, <2>4 DEF ReuseFile, tables, TypeOK, SessionInv, Live, NoTx
<1>5. ASSUME NEW x \in Content, NEW f \in FileId, FlushFile(x, f) PROVE TypeOK' /\ SessionInv'
  BY <1>5 DEF FlushFile, tables, TypeOK, SessionInv, Live, NoTx
<1>6. CASE WriteFile
  <2>1. /\ tx.catalog \in CatalogId /\ worker.file \in FileId
        /\ tx.next \in 0 .. MaxPages - 1 /\ tx.next + 1 \in 0 .. MaxPages
    BY <1>6 DEF WriteFile, TypeOK, SessionInv
  <2>2. NewPage(worker.file) \in Page
    BY <2>1 DEF NewPage, Page
  <2>3. /\ tx' \in TxState
        /\ tx'.catalog = tx.catalog /\ tx'.pagefiles = tx.pagefiles
    BY <1>6, <2>1, <2>2 DEF WriteFile, TypeOK
  <2>4. QED
    BY <1>6, <2>1, <2>3 DEF WriteFile, tables, TypeOK, SessionInv, Live, NoTx
<1>7. CASE WriteFails
  BY <1>7 DEF WriteFails, EndJob, Idle, tables, TypeOK, SessionInv, Live, NoTx
<1>8. CASE ReleaseFetch
  <2>1. /\ tx.catalog \in CatalogId /\ worker.provider \in ProviderId
        /\ providers[worker.provider] # None
    BY <1>8 DEF ReleaseFetch, TypeOK, SessionInv
  <2>2. /\ catalogs' \in [CatalogId -> ProviderId \cup {None}]
        /\ expired' \subseteq Live' /\ struck' \subseteq CatalogId
        /\ pages' \subseteq Page
        /\ pagefiles' \in [FileId -> Content \cup {None}]
        /\ tx' = tx \/ tx' = NoTx
        /\ request' \in RequestState
    BY <1>8, <2>1, NotNone DEF ReleaseFetch, CommitFetch, TypeOK, Live
  <2>3. /\ worker'.pc = "saving" /\ worker'.outcome = Healthy
        /\ worker'.provider = worker.provider
        /\ worker' \in WorkerState
    BY <1>8 DEF ReleaseFetch, TypeOK
  <2>4. QED
    BY <1>8, <2>1, <2>2, <2>3, NotNone, NoTxType DEF ReleaseFetch, TypeOK, SessionInv, NoTx
<1>9. ASSUME NEW w \in Warning, FetchWarns(w) PROVE TypeOK' /\ SessionInv'
  <2>1. worker.provider \in ProviderId /\ w \in Status /\ w # None
    BY <1>9, NotNone DEF FetchWarns, TypeOK, SessionInv
  <2>2. /\ worker' \in WorkerState /\ worker'.outcome = w /\ worker'.provider = worker.provider
        /\ worker'.pc \in {"saving", "warned"}
    BY <1>9, <2>1 DEF FetchWarns, TypeOK
  <2>3. QED
    BY <1>9, <2>1, <2>2, NoTxType DEF FetchWarns, tables, TypeOK, SessionInv, Live, NoTx
<1>10. CASE FetchRaises
  BY <1>10 DEF FetchRaises, EndJob, Idle, tables, TypeOK, SessionInv, Live, NoTx
<1>11. CASE SaveStatus
  <2>1. /\ worker.provider \in ProviderId /\ worker.outcome \in Status
        /\ providers' \in [ProviderId -> Status \cup {None}]
    BY <1>11, NotNone DEF SaveStatus, TypeOK, SessionInv
  <2>2. /\ catalogs' \in [CatalogId -> ProviderId \cup {None}]
        /\ expired' \subseteq Live' /\ struck' \subseteq CatalogId
        /\ pages' \subseteq Page
        /\ pagefiles' \in [FileId -> Content \cup {None}]
        /\ tx' = NoTx
        /\ request' \in RequestState
    <3>1. CASE tx.catalog # None
      BY <1>11, <2>1, <3>1, NotNone DEF SaveStatus, CommitFetch, TypeOK, Live
    <3>2. CASE tx.catalog = None
      BY <1>11, <3>2 DEF SaveStatus, TypeOK, SessionInv, Live
    <3> QED BY <3>1, <3>2
  <2>3. QED
    BY <1>11, <2>1, <2>2, NoTxType DEF SaveStatus, Idle, TypeOK, SessionInv, NoTx
<1>12. CASE StartCleanup
  BY <1>12 DEF StartCleanup, Idle, tables, TypeOK, SessionInv, Live, NoTx
<1>13. ASSUME NEW c \in CatalogId, CleanupCatalog(c) PROVE TypeOK' /\ SessionInv'
  <2>1. /\ catalogs' \in [CatalogId -> ProviderId \cup {None}]
        /\ expired' \subseteq Live' /\ struck' \subseteq CatalogId
        /\ pages' \subseteq Page
        /\ pagefiles' \in [FileId -> Content \cup {None}]
    BY <1>13 DEF CleanupCatalog, WithoutCatalogs, WithoutFiles, Rest, TypeOK, Live
  <2>2. FilesOf(PagesOf({c})) \subseteq FileId
    BY DEF FilesOf, PagesOf, Page, TypeOK
  <2>3. worker' \in WorkerState /\ worker'.pc = "cleanup" /\ worker.pc = "cleanup"
    BY <1>13, <2>2 DEF CleanupCatalog, TypeOK
  <2>4. QED
    BY <1>13, <2>1, <2>3 DEF CleanupCatalog, TypeOK, SessionInv, NoTx
<1>14. ASSUME NEW c \in CatalogId, CleanupFails(c) PROVE TypeOK' /\ SessionInv'
  BY <1>14 DEF CleanupFails, EndJob, Idle, tables, TypeOK, SessionInv, Live, NoTx
<1>15. CASE FinishCleanup
  BY <1>15 DEF FinishCleanup, EndJob, Idle, tables, TypeOK, SessionInv, Live, NoTx
<1>16. CASE StartSweep
  BY <1>16 DEF StartSweep, Idle, tables, TypeOK, SessionInv, Live, NoTx
<1>17. ASSUME NEW f \in FileId, SweepFile(f) PROVE TypeOK' /\ SessionInv'
  BY <1>17 DEF SweepFile, tables, TypeOK, SessionInv, Live, NoTx
<1>18. CASE FinishSweep
  BY <1>18 DEF FinishSweep, EndJob, Idle, tables, TypeOK, SessionInv, Live, NoTx
<1>19. ASSUME NEW p \in ProviderId, PostProvider(p) PROVE TypeOK' /\ SessionInv'
  BY <1>19 DEF PostProvider, tables, TypeOK, SessionInv, Live, NoTx
<1>20. ASSUME NEW p \in ProviderId, LoadDelete(p) PROVE TypeOK' /\ SessionInv'
  <2>1. CatalogsOf(p) \subseteq CatalogId /\ FilesOf(PagesOf(CatalogsOf(p))) \subseteq FileId
    BY DEF CatalogsOf, FilesOf, PagesOf, Page, TypeOK
  <2>2. QED
    BY <1>20, <2>1 DEF LoadDelete, tables, TypeOK, SessionInv, Live, NoTx
<1>21. CASE CommitDelete
  <2> DEFINE dropped == request.catalogs \cup CatalogsOf(request.provider)
  <2>1. PICK hit \in SUBSET PagesOf(request.fresh) :
          /\ ~WriteLocked
          /\ providers' = [providers EXCEPT ![request.provider] = None]
          /\ catalogs' = WithoutCatalogs(dropped)
          /\ expired' = expired \ dropped
          /\ pages' = LeftByRequest(hit) \ PagesOf(dropped)
          /\ pagefiles' = WithoutFiles(HookedByRequest(hit))
          /\ struck' = (struck \cup {p.catalog : p \in hit}) \ dropped
          /\ request' = NoRequest
          /\ UNCHANGED <<storage, worker, tx>>
    BY <1>21 DEF CommitDelete
  <2>2. Live' = Live \ dropped
    BY <2>1 DEF WithoutCatalogs, Live
  <2>3. struck' \subseteq CatalogId
    BY <2>1 DEF PagesOf, Page, TypeOK
  <2>4. /\ catalogs' \in [CatalogId -> ProviderId \cup {None}]
        /\ expired' \subseteq Live' /\ pages' \subseteq Page
        /\ pagefiles' \in [FileId -> Content \cup {None}]
        /\ providers' \in [ProviderId -> Status \cup {None}]
    BY <2>1, <2>2 DEF WithoutCatalogs, WithoutFiles, LeftByRequest, TypeOK
  <2>5. QED
    BY <2>1, <2>3, <2>4 DEF WriteLocked, NoRequest, TypeOK, SessionInv, NoTx
<1>22. CASE RefuseDelete
  BY <1>22 DEF RefuseDelete, NoRequest, tables, TypeOK, SessionInv, Live, NoTx
<1>23. CASE TimeoutDelete \/ AnswerRefused
  BY <1>23 DEF TimeoutDelete, AnswerRefused, NoRequest, tables, TypeOK, SessionInv, Live, NoTx
<1>24. ASSUME NEW c \in CatalogId, Expire(c) PROVE TypeOK' /\ SessionInv'
  BY <1>24 DEF Expire, tables, TypeOK, SessionInv, Live, NoTx
<1>25. CASE Crash
  BY <1>25 DEF Crash, EndJob, Idle, NoRequest, tables, TypeOK, SessionInv, Live, NoTx
<1>26. QED
  BY <1>1, <1>2, <1>3, <1>4, <1>5, <1>6, <1>7, <1>8, <1>9, <1>10, <1>11, <1>12,
     <1>13, <1>14, <1>15, <1>16, <1>17, <1>18, <1>19, <1>20, <1>21, <1>22,
     <1>23, <1>24, <1>25
     DEF Next, WorkerStep, FetchStep, CleanupStep, SweepStep, RequestStep

LEMMA TypeInit == Init => TypeInv
BY StoreAssumption
   DEF Init, TypeInv, TypeOK, SessionInv, Idle, NoTx, NoRequest, Live, Status, Healthy,
       WorkerState, TxState, RequestState, StoreAssumption

\* The tables, the storage, the worker's session and the request keep their
\* types, whatever jobs and requests do: in particular no page is numbered
\* beyond its catalog's bound and only live catalogs are expired.
THEOREM TypeCorrect == Spec => []TypeOK
<1>1. TypeInv => TypeOK
  BY DEF TypeInv
<1>2. QED
  BY <1>1, TypeInit, TypeStep, PTL DEF Spec

-----------------------------------------------------------------------------
\* Under a canonical storage path: files and pages.

SafeInv == FilesInv /\ PagesServable

\* Committing a fetch's rows: each new page brings its row, whose file is there.
LEMMA CommitFetchSafe ==
  ASSUME TypeInv, SafeInv, CommitFetch, tx.catalog # None,
         worker.pc # "writing", worker'.pc \notin {"writing", "sweep"},
         storage' = storage,
         \A p \in ProviderId : providers[p] # None => providers'[p] # None
  PROVE  SafeInv'
<1> USE NotNone DEF TypeInv, SafeInv
<1>1. /\ tx.catalog \in CatalogId /\ worker.provider \in ProviderId
      /\ providers[worker.provider] # None
  BY DEF TypeOK, SessionInv, TxState, WorkerState
<1>2. /\ catalogs' = [catalogs EXCEPT ![tx.catalog] = worker.provider]
      /\ pages' = pages \cup tx.pages /\ tx' = NoTx
      /\ \A f \in FileId : pagefiles'[f] # None <=> pagefiles[f] # None \/ tx.pagefiles[f] # None
  BY DEF CommitFetch, TypeOK, TxState
<1>3. Live' = Live \cup {tx.catalog}
  BY <1>1, <1>2 DEF Live, TypeOK
<1>4. \A p \in pages' : p \in Page
  BY <1>2 DEF TypeOK, TxState
<1>5. \A c \in Live' : providers'[catalogs'[c]] # None
  BY <1>1, <1>2, <1>3 DEF PagesServable, TypeOK, Live
<1>6. ASSUME NEW p \in pages'
      PROVE  p.catalog \in Live' /\ pagefiles'[p.file] # None /\ p.file \in storage'
  <2>1. p.file \in FileId
    BY <1>4 DEF Page
  <2>2. CASE p \in pages
    BY <1>2, <1>3, <2>1, <2>2 DEF PagesServable
  <2>3. CASE p \in tx.pages
    BY <1>2, <1>3, <2>1, <2>3 DEF FilesInv
  <2>4. QED
    BY <1>2, <2>2, <2>3
<1>7. FilesInv'
  BY <1>2 DEF FilesInv, NoTx
<1>8. QED
  BY <1>5, <1>6, <1>7 DEF PagesServable

LEMMA SafeStep ==
  ASSUME CanonicalPaths PROVE TypeInv /\ SafeInv /\ [Next]_vars => SafeInv'
<1> USE StoreAssumption, NotNone DEF StoreAssumption, TypeInv, SafeInv
<1> SUFFICES ASSUME TypeInv, SafeInv, [Next]_vars PROVE SafeInv'
  OBVIOUS
<1>1. CASE UNCHANGED vars
  BY <1>1 DEF vars, tables, FilesInv, PagesServable, Live
<1>2. ASSUME NEW p \in ProviderId, StartFetch(p) PROVE SafeInv'
  BY <1>2 DEF StartFetch, Idle, tables, FilesInv, PagesServable, Live
<1>3. ASSUME NEW c \in CatalogId, InsertCatalog(c) PROVE SafeInv'
  BY <1>3 DEF InsertCatalog, NoTx, tables, FilesInv, PagesServable, Live, TypeOK, SessionInv
<1>4. ASSUME NEW x \in Content, ReuseFile(x) PROVE SafeInv'
  <2>1. PICK f \in KnownFiles(x) :
          tx' = [tx EXCEPT !.pages = @ \cup {NewPage(f)}, !.next = @ + 1]
    BY <1>4 DEF ReuseFile
  <2>2. f \in FileId /\ f \in storage /\ (pagefiles[f] # None \/ tx.pagefiles[f] # None)
    BY <1>4, <2>1 DEF KnownFiles, ReuseFile, FilesInv
  <2>3. /\ tx'.pages = tx.pages \cup {NewPage(f)}
        /\ tx'.catalog = tx.catalog /\ tx'.pagefiles = tx.pagefiles
    BY <2>1 DEF TypeOK, TxState
  <2>4. NewPage(f).catalog = tx.catalog /\ NewPage(f).file = f
    BY DEF NewPage
  <2>5. FilesInv'
    BY <1>4, <2>2, <2>3, <2>4 DEF ReuseFile, tables, FilesInv
  <2>6. QED
    BY <1>4, <2>5 DEF ReuseFile, tables, PagesServable, Live
<1>5. ASSUME NEW x \in Content, NEW f \in FileId, FlushFile(x, f) PROVE SafeInv'
  BY <1>5 DEF FlushFile, tables, FilesInv, PagesServable, Live
<1>6. CASE WriteFile
  <2>1. /\ worker.file \in FileId /\ tx.pagefiles[worker.file] # None
        /\ worker'.pc = "paging" /\ storage' = storage \cup {worker.file}
    BY <1>6 DEF WriteFile, TypeOK, SessionInv, WorkerState
  <2>2. /\ tx'.pages = tx.pages \cup {NewPage(worker.file)}
        /\ tx'.catalog = tx.catalog /\ tx'.pagefiles = tx.pagefiles
    BY <1>6 DEF WriteFile, TypeOK, TxState
  <2>3. /\ NewPage(worker.file).catalog = tx.catalog
        /\ NewPage(worker.file).file = worker.file
    BY DEF NewPage
  <2>4. FilesInv'
    BY <1>6, <2>1, <2>2, <2>3 DEF WriteFile, tables, FilesInv
  <2>5. QED
    BY <1>6, <2>1, <2>4 DEF WriteFile, tables, PagesServable, Live
<1>7. CASE WriteFails
  BY <1>7 DEF WriteFails, EndJob, Idle, NoTx, tables, FilesInv, PagesServable, Live
<1>8. CASE ReleaseFetch
  <2>1. tx.catalog # None /\ worker'.pc = "saving" /\ worker.pc = "paging"
    BY <1>8 DEF ReleaseFetch, TypeOK, SessionInv, WorkerState
  <2>2. CASE SavepointCommits
    BY <1>8, <2>1, <2>2, CommitFetchSafe DEF ReleaseFetch
  <2>3. CASE ~SavepointCommits
    BY <1>8, <2>1, <2>3 DEF ReleaseFetch, FilesInv, PagesServable, Live
  <2>4. QED
    BY <2>2, <2>3
<1>9. ASSUME NEW w \in Warning, FetchWarns(w) PROVE SafeInv'
  BY <1>9 DEF FetchWarns, NoTx, tables, FilesInv, PagesServable, Live
<1>10. CASE FetchRaises
  BY <1>10 DEF FetchRaises, EndJob, Idle, NoTx, tables, FilesInv, PagesServable, Live
<1>11. CASE SaveStatus
  <2>1. /\ worker.pc \in {"saving", "warned"} /\ worker'.pc = "idle"
        /\ storage' = storage
        /\ \A p \in ProviderId : providers[p] # None => providers'[p] # None
    BY <1>11 DEF SaveStatus, Idle, TypeOK, SessionInv, WorkerState
  <2>2. CASE tx.catalog # None
    BY <1>11, <2>1, <2>2, CommitFetchSafe DEF SaveStatus
  <2>3. CASE tx.catalog = None
    BY <1>11, <2>1, <2>3 DEF SaveStatus, NoTx, FilesInv, PagesServable, Live, TypeOK
  <2>4. QED
    BY <2>2, <2>3
<1>12. CASE StartCleanup
  BY <1>12 DEF StartCleanup, Idle, tables, FilesInv, PagesServable, Live
<1>13. ASSUME NEW c \in CatalogId, CleanupCatalog(c) PROVE SafeInv'
  <2>1. /\ worker.pc = "cleanup" /\ worker'.pc = "cleanup" /\ tx' = tx
        /\ storage' = storage /\ providers' = providers /\ tx.catalog = None
    BY <1>13 DEF CleanupCatalog, TypeOK, WorkerState, SessionInv
  <2>2. CASE ~SavepointCommits
    BY <1>13, <2>1, <2>2 DEF CleanupCatalog, FilesInv, PagesServable, Live
  <2>3. CASE SavepointCommits
    <3>1. /\ catalogs' = WithoutCatalogs({c}) /\ pages' = Rest(c)
          /\ pagefiles' = WithoutFiles(HookedBy(c))
          /\ \A q \in Rest(c) : q.file \notin HookedBy(c)
      BY <1>13, <2>3 DEF CleanupCatalog, Restricted, FilesOf
    <3>2. \A q \in Rest(c) : q \in pages /\ q.catalog # c
      BY DEF Rest, PagesOf
    <3>3. \A q \in pages : q.catalog \in CatalogId /\ q.file \in FileId
      BY DEF TypeOK, Page
    <3>4. PagesServable'
      BY <2>1, <3>1, <3>2, <3>3 DEF PagesServable, Live, WithoutCatalogs, WithoutFiles
    <3>5. FilesInv'
      BY <2>1, <3>1 DEF FilesInv, WithoutFiles, SessionInv, NoTx
    <3>6. QED
      BY <3>4, <3>5
  <2>4. QED
    BY <2>2, <2>3
<1>14. ASSUME NEW c \in CatalogId, CleanupFails(c) PROVE SafeInv'
  BY <1>14 DEF CleanupFails, EndJob, Idle, NoTx, tables, FilesInv, PagesServable, Live
<1>15. CASE FinishCleanup
  BY <1>15 DEF FinishCleanup, EndJob, Idle, NoTx, tables, FilesInv, PagesServable, Live
<1>16. CASE StartSweep
  BY <1>16 DEF StartSweep, UsedFiles, Idle, tables, FilesInv, PagesServable, Live, TypeOK
<1>17. ASSUME NEW f \in FileId, SweepFile(f) PROVE SafeInv'
  <2>1. /\ worker.pc = "sweep" /\ pagefiles[f] = None /\ storage' = storage \ {f}
        /\ worker'.pc = "sweep" /\ worker'.unused \subseteq worker.unused
        /\ tx' = tx /\ tx.catalog = None
    BY <1>17 DEF SweepFile, FilesInv, TypeOK, WorkerState, SessionInv
  <2>2. FilesInv'
    BY <1>17, <2>1 DEF SweepFile, tables, FilesInv, SessionInv, NoTx
  <2>3. QED
    BY <1>17, <2>1, <2>2 DEF SweepFile, tables, PagesServable, Live
<1>18. CASE FinishSweep
  BY <1>18 DEF FinishSweep, EndJob, Idle, NoTx, tables, FilesInv, PagesServable, Live
<1>19. ASSUME NEW p \in ProviderId, PostProvider(p) PROVE SafeInv'
  BY <1>19 DEF PostProvider, FilesInv, PagesServable, Live, TypeOK
<1>20. ASSUME NEW p \in ProviderId, LoadDelete(p) PROVE SafeInv'
  BY <1>20 DEF LoadDelete, tables, FilesInv, PagesServable, Live
<1>21. CASE CommitDelete
  <2> DEFINE dropped == request.catalogs \cup CatalogsOf(request.provider)
  <2>1. PICK hit \in SUBSET PagesOf(request.fresh) :
          /\ catalogs' = WithoutCatalogs(dropped)
          /\ providers' = [providers EXCEPT ![request.provider] = None]
          /\ pages' = LeftByRequest(hit) \ PagesOf(dropped)
          /\ pagefiles' = WithoutFiles(HookedByRequest(hit))
          /\ \A q \in LeftByRequest(hit) : q.file \notin HookedByRequest(hit)
          /\ storage' = storage /\ worker' = worker /\ tx' = tx /\ tx.catalog = None
    BY <1>21 DEF CommitDelete, Restricted, FilesOf, WriteLocked
  <2>2. \A q \in pages' : q \in pages /\ q \in LeftByRequest(hit) /\ q.catalog \notin dropped
    BY <2>1 DEF LeftByRequest, PagesOf
  <2>3. \A q \in pages : q.catalog \in CatalogId /\ q.file \in FileId
    BY DEF TypeOK, Page
  <2>4. \A c \in Live' : c \in Live /\ catalogs'[c] = catalogs[c] /\ catalogs[c] # request.provider
    BY <2>1 DEF Live, WithoutCatalogs, CatalogsOf
  <2>5. \A c \in Live' : providers'[catalogs'[c]] # None
    <3> SUFFICES ASSUME NEW c \in Live' PROVE providers'[catalogs'[c]] # None
      OBVIOUS
    <3>1. c \in CatalogId /\ catalogs[c] \in ProviderId /\ providers[catalogs[c]] # None
      BY <2>4 DEF PagesServable, TypeOK, Live
    <3>2. QED
      BY <2>1, <2>4, <3>1 DEF TypeOK
  <2>6. \A q \in pages' : q.catalog \in Live' /\ pagefiles'[q.file] # None /\ q.file \in storage'
    BY <2>1, <2>2, <2>3 DEF PagesServable, Live, WithoutCatalogs, WithoutFiles
  <2>7. FilesInv'
    <3>1. tx' = NoTx /\ storage' = storage /\ worker' = worker
      BY <2>1 DEF SessionInv
    <3>2. \A f \in FileId : pagefiles'[f] # None => pagefiles[f] # None
      BY <2>1 DEF WithoutFiles
    <3>3. worker.pc = "sweep" => \A f \in worker.unused : f \in FileId
      BY DEF TypeOK, WorkerState
    <3>4. QED
      BY <3>1, <3>2, <3>3 DEF FilesInv, NoTx
  <2>8. QED
    BY <2>5, <2>6, <2>7 DEF PagesServable
<1>22. CASE RefuseDelete
  BY <1>22 DEF RefuseDelete, tables, FilesInv, PagesServable, Live
<1>23. CASE TimeoutDelete \/ AnswerRefused
  BY <1>23 DEF TimeoutDelete, AnswerRefused, tables, FilesInv, PagesServable, Live
<1>24. ASSUME NEW c \in CatalogId, Expire(c) PROVE SafeInv'
  BY <1>24 DEF Expire, FilesInv, PagesServable, Live
<1>25. CASE Crash
  BY <1>25 DEF Crash, EndJob, Idle, NoTx, tables, FilesInv, PagesServable, Live
<1>26. QED
  BY <1>1, <1>2, <1>3, <1>4, <1>5, <1>6, <1>7, <1>8, <1>9, <1>10, <1>11, <1>12,
     <1>13, <1>14, <1>15, <1>16, <1>17, <1>18, <1>19, <1>20, <1>21, <1>22,
     <1>23, <1>24, <1>25
     DEF Next, WorkerStep, FetchStep, CleanupStep, SweepStep, RequestStep

\* Whatever jobs, requests and crashes do and in whichever order, each page a
\* reader can see has its row and its file, and each catalog its provider.
THEOREM PagesAlwaysServable ==
  ASSUME CanonicalPaths PROVE Spec => []PagesServable
<1>1. Init => SafeInv
  BY DEF Init, SafeInv, FilesInv, PagesServable, Live, Idle, NoTx
<1>2. TypeInv /\ SafeInv /\ [Next]_vars => (TypeInv /\ SafeInv)'
  BY TypeStep, SafeStep
<1>3. TypeInv /\ SafeInv => PagesServable
  BY DEF SafeInv
<1>4. QED
  BY TypeInit, <1>1, <1>2, <1>3, PTL DEF Spec

-----------------------------------------------------------------------------
\* Rows, whatever the storage path: complete catalogs and one file per content.

\* The four ways of the tables.
LEMMA TablesMove ==
  ASSUME TypeInv, [Next]_vars
  PROVE  \/ UNCHANGED <<catalogs, pages, pagefiles, struck>>
         \/ /\ CommitFetch /\ tx.catalog # None /\ UNCHANGED storage
            /\ \/ worker.pc = "paging" /\ tx.next > 0 /\ worker'.pc = "saving"
               \/ worker.pc = "saving" /\ worker' = Idle
         \/ SavepointCommits /\ \E c \in CatalogId : CleanupCatalog(c)
         \/ CommitDelete
<1> USE DEF tables
<1>1. CASE UNCHANGED vars
  BY <1>1 DEF vars
<1>2. CASE ReleaseFetch
  BY <1>2 DEF ReleaseFetch, TypeInv, TypeOK, SessionInv, WorkerState
<1>3. CASE SaveStatus
  BY <1>3 DEF SaveStatus, TypeInv, SessionInv, NoTx
<1>4. ASSUME NEW c \in CatalogId, CleanupCatalog(c)
      PROVE  UNCHANGED <<catalogs, pages, pagefiles, struck>> \/ SavepointCommits
  BY <1>4 DEF CleanupCatalog
<1>5. ASSUME WorkerStep
      PROVE  \/ ReleaseFetch \/ SaveStatus \/ \E c \in CatalogId : CleanupCatalog(c)
             \/ UNCHANGED <<catalogs, pages, pagefiles, struck>>
  <2>1. CASE FetchStep
    <3>1. (\E c \in CatalogId : InsertCatalog(c)) => UNCHANGED tables
      BY DEF InsertCatalog
    <3>2. (\E x \in Content : ReuseFile(x)) => UNCHANGED tables
      BY DEF ReuseFile
    <3>3. (\E x \in Content, f \in FileId : FlushFile(x, f)) => UNCHANGED tables
      BY DEF FlushFile
    <3>4. WriteFile \/ WriteFails => UNCHANGED tables
      BY DEF WriteFile, WriteFails
    <3>5. ASSUME NEW w \in Warning, FetchWarns(w) PROVE UNCHANGED tables
      BY <3>5 DEF FetchWarns
    <3>6. FetchRaises => UNCHANGED tables
      BY DEF FetchRaises
    <3> QED BY <2>1, <3>1, <3>2, <3>3, <3>4, <3>5, <3>6 DEF FetchStep
  <2>2. CASE CleanupStep
    BY <2>2 DEF CleanupStep, CleanupFails, FinishCleanup
  <2>3. CASE SweepStep
    BY <2>3 DEF SweepStep, SweepFile, FinishSweep
  <2>4. CASE StartCleanup \/ StartSweep
    BY <2>4 DEF StartCleanup, StartSweep
  <2>5. CASE \E p \in ProviderId : StartFetch(p)
    BY <2>5 DEF StartFetch
  <2> QED BY <1>5, <2>1, <2>2, <2>3, <2>4, <2>5 DEF WorkerStep
<1>6. CASE RequestStep /\ ~CommitDelete
  BY <1>6 DEF RequestStep, PostProvider, LoadDelete, RefuseDelete, TimeoutDelete, AnswerRefused
<1>7. CASE Crash \/ \E c \in CatalogId : Expire(c)
  BY <1>7 DEF Crash, Expire
<1> QED
  BY <1>1, <1>2, <1>3, <1>4, <1>5, <1>6, <1>7 DEF Next

\* The ways of the worker's session.
LEMMA SessionMoves ==
  ASSUME TypeInv, [Next]_vars
  PROVE  \/ tx' = tx
         \/ tx' = NoTx
         \/ \E c \in CatalogId : InsertCatalog(c)
         \/ \E x \in Content : ReuseFile(x)
         \/ \E x \in Content, f \in FileId : FlushFile(x, f)
         \/ WriteFile
<1> USE DEF tables
<1>1. CASE UNCHANGED vars
  BY <1>1 DEF vars
<1>2. CASE ReleaseFetch \/ SaveStatus
  BY <1>2 DEF ReleaseFetch, SaveStatus, CommitFetch
<1>3. CASE WorkerStep
  <2>1. CASE FetchStep
    <3>1. WriteFails \/ FetchRaises => tx' = NoTx
      BY DEF WriteFails, FetchRaises, EndJob
    <3>2. ASSUME NEW w \in Warning, FetchWarns(w) PROVE tx' = NoTx
      BY <3>2 DEF FetchWarns
    <3> QED BY <1>2, <2>1, <3>1, <3>2 DEF FetchStep
  <2>2. CASE CleanupStep
    <3>1. (\E c \in CatalogId : CleanupCatalog(c)) => tx' = tx
      BY DEF CleanupCatalog
    <3> QED BY <2>2, <3>1 DEF CleanupStep, CleanupFails, FinishCleanup, EndJob
  <2>3. CASE SweepStep
    BY <2>3 DEF SweepStep, SweepFile, FinishSweep, EndJob
  <2>4. CASE StartCleanup \/ StartSweep
    BY <2>4 DEF StartCleanup, StartSweep
  <2>5. CASE \E p \in ProviderId : StartFetch(p)
    BY <2>5 DEF StartFetch
  <2> QED BY <1>3, <2>1, <2>2, <2>3, <2>4, <2>5 DEF WorkerStep
<1>4. CASE RequestStep
  BY <1>4 DEF RequestStep, PostProvider, LoadDelete, CommitDelete, RefuseDelete, TimeoutDelete,
     AnswerRefused
<1>5. CASE Crash \/ \E c \in CatalogId : Expire(c)
  BY <1>5 DEF Crash, EndJob, Expire
<1> QED
  BY <1>1, <1>3, <1>4, <1>5 DEF Next

LEMMA ContentStep == TypeInv /\ ContentInv /\ [Next]_vars => ContentInv'
<1> SUFFICES ASSUME TypeInv, ContentInv, [Next]_vars PROVE ContentInv'
  OBVIOUS
<1> USE NotNone DEF ContentInv, RowOf
<1>0. /\ pagefiles \in [FileId -> Content \cup {None}]
      /\ tx \in TxState /\ tx.pagefiles \in [FileId -> Content \cup {None}]
  BY DEF TypeInv, TypeOK, TxState
<1>1. \* Rows that go away disturb nobody.
      ASSUME tx' = tx \/ tx' = NoTx,
             \A f \in FileId : pagefiles'[f] \in {pagefiles[f], None}
      PROVE  ContentInv'
  BY <1>0, <1>1 DEF NoTx
<1>2. \* Nor does a session that keeps its page files.
      ASSUME UNCHANGED pagefiles, tx'.pagefiles = tx.pagefiles
      PROVE  ContentInv'
  BY <1>2
<1>3. ASSUME UNCHANGED pagefiles PROVE ContentInv'
  <2>1. CASE tx' = tx \/ tx' = NoTx
    BY <1>1, <1>3, <2>1
  <2>2. ASSUME NEW c \in CatalogId, InsertCatalog(c) PROVE ContentInv'
    BY <1>0, <1>2, <1>3, <2>2 DEF InsertCatalog, TxState
  <2>3. ASSUME NEW x \in Content, ReuseFile(x) PROVE ContentInv'
    BY <1>0, <1>2, <1>3, <2>3 DEF ReuseFile, TxState
  <2>4. ASSUME NEW x \in Content, NEW f \in FileId, FlushFile(x, f) PROVE ContentInv'
    <3>1. /\ pagefiles[f] = None
          /\ \A g \in FileId : pagefiles[g] # x /\ tx.pagefiles[g] # x
      BY <2>4 DEF FlushFile, KnownFiles
    <3>2. \A g \in FileId : tx'.pagefiles[g] = IF g = f THEN x ELSE tx.pagefiles[g]
      BY <1>0, <2>4 DEF FlushFile, TxState
    <3> QED BY <1>0, <1>3, <3>1, <3>2
  <2>5. CASE WriteFile
    BY <1>0, <1>2, <1>3, <2>5 DEF WriteFile, TxState
  <2> QED BY <2>1, <2>2, <2>3, <2>4, <2>5, SessionMoves
<1>4. CASE CommitFetch
  <2>1. \A f \in FileId : pagefiles'[f] = RowOf(f) /\ tx'.pagefiles[f] = None
    BY <1>0, <1>4 DEF CommitFetch, NoTx
  <2> QED BY <2>1
<1>5. ASSUME SavepointCommits, NEW c \in CatalogId, CleanupCatalog(c) PROVE ContentInv'
  BY <1>1, <1>5 DEF CleanupCatalog, WithoutFiles
<1>6. CASE CommitDelete
  BY <1>1, <1>6 DEF CommitDelete, WithoutFiles
<1> QED BY <1>3, <1>4, <1>5, <1>6, TablesMove

\* Whatever fetches, cleanups, deletes, rollbacks and crashes do, no two rows of page
\* files have the same content, although get_or_create looks first and inserts later and no
\* constraint of the table asks for it: the one worker is enough.
THEOREM OneFileForEachContent == Spec => []OneFilePerContent
<1>1. Init => ContentInv
  BY DEF Init, ContentInv, RowOf, NoTx
<1>2. TypeInv /\ ContentInv /\ [Next]_vars => (TypeInv /\ ContentInv)'
  BY TypeStep, ContentStep
<1>3. ContentInv => OneFilePerContent
  BY DEF ContentInv, RowOf, OneFilePerContent
<1> QED
  BY TypeInit, <1>1, <1>2, <1>3, PTL DEF Spec

-----------------------------------------------------------------------------
\* Sessions, cascades and cleanups, whatever the storage path.

\* The ways of the request and of the providers.
LEMMA RequestMoves ==
  ASSUME TypeInv, [Next]_vars
  PROVE  /\ \/ request' = request
            \/ request' = NoRequest
            \/ RefuseDelete
            \/ CommitFetch /\ tx.catalog # None
            \/ \E p \in ProviderId : LoadDelete(p)
         /\ ~CommitDelete =>
              \A p \in ProviderId : providers[p] # None => providers'[p] # None
<1> USE DEF tables
<1>1. CASE UNCHANGED vars
  BY <1>1 DEF vars
<1>2. CASE WorkerStep
  <2>1. CASE FetchStep
    <3>1. ASSUME NEW c \in CatalogId, InsertCatalog(c) PROVE UNCHANGED <<providers, request>>
      BY <3>1 DEF InsertCatalog
    <3>2. ASSUME NEW x \in Content, ReuseFile(x) PROVE UNCHANGED <<providers, request>>
      BY <3>2 DEF ReuseFile
    <3>3. ASSUME NEW x \in Content, NEW f \in FileId, FlushFile(x, f)
          PROVE  UNCHANGED <<providers, request>>
      BY <3>3 DEF FlushFile
    <3>4. WriteFile \/ WriteFails \/ FetchRaises => UNCHANGED <<providers, request>>
      BY DEF WriteFile, WriteFails, FetchRaises
    <3>5. ASSUME NEW w \in Warning, FetchWarns(w) PROVE UNCHANGED <<providers, request>>
      BY <3>5 DEF FetchWarns
    <3>6. ReleaseFetch =>
            providers' = providers /\ (request' = request \/ (CommitFetch /\ tx.catalog # None))
      BY DEF ReleaseFetch, TypeInv, SessionInv
    <3>7. CASE SaveStatus
      <4>1. /\ request' = request \/ (CommitFetch /\ tx.catalog # None)
            /\ \/ providers' = providers
               \/ providers' = [providers EXCEPT ![worker.provider] = worker.outcome]
        BY <3>7 DEF SaveStatus
      <4>2. worker.outcome # None
        BY <3>7 DEF SaveStatus, TypeInv, SessionInv
      <4> QED BY <4>1, <4>2 DEF TypeInv, TypeOK
    <3> QED BY <2>1, <3>1, <3>2, <3>3, <3>4, <3>5, <3>6, <3>7 DEF FetchStep
  <2>2. CASE CleanupStep
    <3>1. ASSUME NEW c \in CatalogId, CleanupCatalog(c) PROVE UNCHANGED <<providers, request>>
      BY <3>1 DEF CleanupCatalog
    <3> QED BY <2>2, <3>1 DEF CleanupStep, CleanupFails, FinishCleanup
  <2>3. CASE SweepStep
    BY <2>3 DEF SweepStep, SweepFile, FinishSweep
  <2>4. CASE StartCleanup \/ StartSweep
    BY <2>4 DEF StartCleanup, StartSweep
  <2>5. CASE \E p \in ProviderId : StartFetch(p)
    BY <2>5 DEF StartFetch
  <2> QED BY <1>2, <2>1, <2>2, <2>3, <2>4, <2>5 DEF WorkerStep
<1>3. CASE RequestStep
  <2>1. ASSUME NEW p \in ProviderId, PostProvider(p)
        PROVE  request' = request /\ \A q \in ProviderId : providers[q] # None => providers'[q] # None
    BY <2>1, NotNone DEF PostProvider, TypeInv, TypeOK
  <2>2. CASE CommitDelete \/ RefuseDelete \/ TimeoutDelete \/ AnswerRefused
    BY <2>2 DEF CommitDelete, RefuseDelete, TimeoutDelete, AnswerRefused
  <2>3. CASE \E p \in ProviderId : LoadDelete(p)
    BY <2>3 DEF LoadDelete
  <2> QED BY <1>3, <2>1, <2>2, <2>3 DEF RequestStep
<1>4. CASE Crash \/ \E c \in CatalogId : Expire(c)
  BY <1>4 DEF Crash, Expire
<1> QED
  BY <1>1, <1>2, <1>3, <1>4 DEF Next

\* How the worker comes to save a status, and to clean up.
LEMMA WorkerMoves ==
  ASSUME TypeInv, [Next]_vars
  PROVE  /\ worker'.pc = "saving" =>
              ReleaseFetch \/ tx' = NoTx \/ (worker' = worker /\ tx' = tx)
         /\ worker'.pc = "cleanup" =>
              StartCleanup \/ (\E c \in CatalogId : CleanupCatalog(c)) \/ worker' = worker
<1> USE DEF TypeInv, TypeOK, WorkerState
<1>1. CASE UNCHANGED vars
  BY <1>1 DEF vars
<1>2. CASE WorkerStep
  <2>1. CASE FetchStep
    <3>1. ASSUME NEW c \in CatalogId, InsertCatalog(c) PROVE worker'.pc = "paging"
      BY <3>1 DEF InsertCatalog
    <3>2. ASSUME NEW x \in Content, ReuseFile(x) PROVE worker'.pc = "paging"
      BY <3>2 DEF ReuseFile
    <3>3. ASSUME NEW x \in Content, NEW f \in FileId, FlushFile(x, f)
          PROVE  worker'.pc = "writing"
      BY <3>3 DEF FlushFile
    <3>4. WriteFile => worker'.pc = "paging"
      BY DEF WriteFile
    <3>5. WriteFails \/ FetchRaises \/ SaveStatus => worker'.pc = "idle"
      BY DEF WriteFails, FetchRaises, SaveStatus, EndJob, Idle
    <3>6. ASSUME NEW w \in Warning, FetchWarns(w)
          PROVE  tx' = NoTx /\ worker'.pc \in {"warned", "saving"}
      BY <3>6 DEF FetchWarns
    <3>7. ReleaseFetch => worker'.pc = "saving"
      BY DEF ReleaseFetch
    <3> QED BY <2>1, <3>1, <3>2, <3>3, <3>4, <3>5, <3>6, <3>7 DEF FetchStep
  <2>2. CASE CleanupStep
    <3>1. ASSUME NEW c \in CatalogId, CleanupCatalog(c) PROVE worker'.pc = "cleanup"
      BY <3>1 DEF CleanupCatalog
    <3>2. FinishCleanup \/ (\E c \in CatalogId : CleanupFails(c)) => worker'.pc = "idle"
      BY DEF CleanupFails, FinishCleanup, EndJob, Idle
    <3> QED BY <2>2, <3>1, <3>2 DEF CleanupStep
  <2>3. CASE SweepStep
    <3>1. ASSUME NEW f \in FileId, SweepFile(f) PROVE worker'.pc = "sweep"
      BY <3>1 DEF SweepFile
    <3>2. FinishSweep => worker'.pc = "idle"
      BY DEF FinishSweep, EndJob, Idle
    <3> QED BY <2>3, <3>1, <3>2 DEF SweepStep
  <2>4. CASE StartCleanup
    BY <2>4 DEF StartCleanup, Idle
  <2>5. CASE StartSweep
    BY <2>5 DEF StartSweep, Idle
  <2>6. ASSUME NEW p \in ProviderId, StartFetch(p) PROVE worker'.pc = "constructing"
    BY <2>6 DEF StartFetch, Idle
  <2> QED BY <1>2, <2>1, <2>2, <2>3, <2>4, <2>5, <2>6 DEF WorkerStep
<1>3. CASE RequestStep
  BY <1>3 DEF RequestStep, PostProvider, LoadDelete, CommitDelete, RefuseDelete, TimeoutDelete,
     AnswerRefused
<1>4. CASE Crash \/ \E c \in CatalogId : Expire(c)
  BY <1>4 DEF Crash, EndJob, Idle, Expire
<1> QED
  BY <1>1, <1>2, <1>3, <1>4 DEF Next

RowsInv == FetchInv /\ CleanupInv /\ CascadeInv /\ PagesInv

\* Which catalogs are there after a step, and whose they are.
LEMMA LiveMoves ==
  ASSUME TypeInv, [Next]_vars
  PROVE  /\ ~(CommitFetch /\ tx.catalog # None) =>
              Live' \subseteq Live /\ \A c \in Live' : catalogs'[c] = catalogs[c]
         /\ CommitFetch /\ tx.catalog # None =>
              /\ Live' = Live \cup {tx.catalog} /\ tx.catalog \in CatalogId
              /\ catalogs'[tx.catalog] = worker.provider /\ worker.provider \in ProviderId
              /\ \A c \in Live' \ {tx.catalog} : catalogs'[c] = catalogs[c]
<1>1. catalogs \in [CatalogId -> ProviderId \cup {None}] /\ tx.catalog \in CatalogId \cup {None}
  BY DEF TypeInv, TypeOK, TxState
<1>2. CASE CommitFetch /\ tx.catalog # None
  <2>1. worker.provider \in ProviderId
    BY <1>2 DEF TypeInv, TypeOK, SessionInv, WorkerState
  <2> QED BY <1>1, <1>2, <2>1, NotNone DEF CommitFetch, Live
<1>3. CASE UNCHANGED catalogs
  BY <1>2, <1>3 DEF Live
<1>4. ASSUME SavepointCommits, NEW c \in CatalogId, CleanupCatalog(c)
      PROVE  Live' \subseteq Live /\ \A d \in Live' : catalogs'[d] = catalogs[d]
  BY <1>4 DEF CleanupCatalog, WithoutCatalogs, Live
<1>5. ASSUME CommitDelete
      PROVE  Live' \subseteq Live /\ \A d \in Live' : catalogs'[d] = catalogs[d]
  BY <1>5 DEF CommitDelete, WithoutCatalogs, Live
<1> QED BY <1>2, <1>3, <1>4, <1>5, TablesMove

LEMMA CascadeStep == TypeInv /\ RowsInv /\ [Next]_vars => CascadeInv'
<1> SUFFICES ASSUME TypeInv, RowsInv, [Next]_vars PROVE CascadeInv'
  OBVIOUS
<1>0. CascadeInv
  BY DEF RowsInv
<1>1. CASE request' = NoRequest
  BY <1>1 DEF CascadeInv, NoRequest
<1>2. CASE request' # NoRequest
  <2>1. ~CommitDelete
    BY <1>2 DEF CommitDelete
  <2>2. ASSUME NEW p \in ProviderId, LoadDelete(p) PROVE CascadeInv'
    <3>1. /\ request'.provider = p /\ request'.catalogs = CatalogsOf(p)
          /\ UNCHANGED <<providers, catalogs>> /\ providers[p] # None
      BY <2>2 DEF LoadDelete, tables
    <3> QED BY <3>1, NotNone DEF CascadeInv, CatalogsOf, Live
  <2>3. CASE RefuseDelete
    <3>1. request'.pc = "refused" /\ request'.catalogs = {}
      BY <2>3 DEF RefuseDelete, NoRequest
    <3> QED BY <3>1 DEF CascadeInv
  <2>4. CASE CommitFetch /\ tx.catalog # None
    <3>1. /\ request'.pc = request.pc /\ request'.provider = request.provider
          /\ request'.catalogs = request.catalogs
          /\ request.fresh \subseteq request'.fresh
          /\ ~(request.catalogs \subseteq Live) => tx.catalog \in request'.fresh
          /\ request.provider \in ProviderId \cup {None}
      BY <2>4 DEF CommitFetch, TypeInv, TypeOK, RequestState
    <3>2. request'.pc = "loaded" => request'.provider # None /\ providers'[request'.provider] # None
      BY <1>0, <2>1, <3>1, RequestMoves DEF CascadeInv
    <3>3. tx.catalog \in request'.catalogs => tx.catalog \in request'.fresh
      BY <2>4, <3>1 DEF RowsInv, FetchInv
    <3>4. \A c \in (request'.catalogs \cap Live') \ request'.fresh : catalogs'[c] = request'.provider
      BY <1>0, <2>4, <3>1, <3>3, LiveMoves DEF CascadeInv
    <3> QED BY <3>2, <3>4 DEF CascadeInv
  <2>5. CASE request' = request /\ ~(CommitFetch /\ tx.catalog # None)
    <3>1. request.provider \in ProviderId \cup {None}
      BY DEF TypeInv, TypeOK, RequestState
    <3>2. request'.pc = "loaded" => request'.provider # None /\ providers'[request'.provider] # None
      BY <1>0, <2>1, <2>5, <3>1, RequestMoves DEF CascadeInv
    <3>3. \A c \in (request'.catalogs \cap Live') \ request'.fresh : catalogs'[c] = request'.provider
      BY <1>0, <2>5, LiveMoves DEF CascadeInv
    <3> QED BY <3>2, <3>3 DEF CascadeInv
  <2> QED BY <1>2, <2>2, <2>3, <2>4, <2>5, RequestMoves
<1> QED BY <1>1, <1>2

\* The next page of a fetch continues its numbering.
LEMMA NumberedGrows ==
  ASSUME NEW P, NEW n \in Nat, Numbered(P, n), NEW q, q.number = n
  PROVE  Numbered(P \cup {q}, n + 1)
<1>1. {p.number : p \in P \cup {q}} = {p.number : p \in P} \cup {n}
  OBVIOUS
<1>2. 0 .. (n + 1) - 1 = (0 .. n - 1) \cup {n}
  OBVIOUS
<1>3. \A p \in P : p.number \in 0 .. n - 1
  BY DEF Numbered
<1>4. \A p \in P : p.number # n
  BY <1>3
<1> QED BY <1>1, <1>2, <1>4 DEF Numbered

LEMMA FetchInvStep == TypeInv /\ RowsInv /\ [Next]_vars => FetchInv'
<1> SUFFICES ASSUME TypeInv, RowsInv, [Next]_vars PROVE FetchInv'
  OBVIOUS
<1>0. FetchInv /\ tx \in TxState
  BY DEF RowsInv, TypeInv, TypeOK
<1>1. CASE tx' = NoTx
  <2>1. Numbered({}, 0)
    BY DEF Numbered
  <2> QED BY <1>1, <2>1 DEF FetchInv, NoTx
<1>2. CASE tx' # NoTx
  <2>1. ~CommitFetch
    BY <1>2 DEF CommitFetch
  <2>2. tx'.catalog # None => tx'.catalog \notin Live'
    <3>1. ASSUME NEW c \in CatalogId, InsertCatalog(c)
          PROVE  tx'.catalog \notin Live'
      BY <1>0, <3>1 DEF InsertCatalog, Live, tables, TxState
    <3>2. CASE tx'.catalog = tx.catalog
      BY <1>0, <2>1, <3>2, LiveMoves DEF FetchInv
    <3>3. \/ tx'.catalog = tx.catalog
          \/ \E c \in CatalogId : InsertCatalog(c)
      <4>1. ASSUME NEW x \in Content, ReuseFile(x) PROVE tx'.catalog = tx.catalog
        BY <1>0, <4>1 DEF ReuseFile, TxState
      <4>2. ASSUME NEW x \in Content, NEW f \in FileId, FlushFile(x, f)
            PROVE  tx'.catalog = tx.catalog
        BY <1>0, <4>2 DEF FlushFile, TxState
      <4>3. WriteFile => tx'.catalog = tx.catalog
        BY <1>0 DEF WriteFile, TxState
      <4> QED BY <1>2, <4>1, <4>2, <4>3, SessionMoves
    <3> QED BY <3>1, <3>2, <3>3
  <2>3. (\A p \in tx'.pages : p.catalog = tx'.catalog) /\ Numbered(tx'.pages, tx'.next)
    <3>1. ASSUME NEW f \in FileId, tx'.catalog = tx.catalog,
                 tx'.pages = tx.pages \cup {NewPage(f)}, tx'.next = tx.next + 1
          PROVE  (\A p \in tx'.pages : p.catalog = tx'.catalog) /\ Numbered(tx'.pages, tx'.next)
      <4>1. /\ NewPage(f).catalog = tx.catalog /\ NewPage(f).number = tx.next
            /\ tx.next \in Nat
        BY <1>0, StoreAssumption DEF NewPage, TxState, StoreAssumption
      <4>2. Numbered(tx'.pages, tx'.next)
        BY <1>0, <3>1, <4>1, NumberedGrows DEF FetchInv
      <4> QED BY <1>0, <3>1, <4>1, <4>2 DEF FetchInv
    <3>2. CASE tx' = tx
      BY <1>0, <3>2 DEF FetchInv
    <3>3. ASSUME NEW c \in CatalogId, InsertCatalog(c)
          PROVE  (\A p \in tx'.pages : p.catalog = tx'.catalog) /\ Numbered(tx'.pages, tx'.next)
      <4>1. tx = NoTx
        BY <3>3 DEF InsertCatalog, TypeInv, SessionInv
      <4>2. tx'.pages = {} /\ tx'.next = 0
        BY <3>3, <4>1 DEF InsertCatalog, NoTx
      <4> QED BY <4>2 DEF Numbered
    <3>4. ASSUME NEW x \in Content, ReuseFile(x)
          PROVE  (\A p \in tx'.pages : p.catalog = tx'.catalog) /\ Numbered(tx'.pages, tx'.next)
      <4>1. PICK f \in KnownFiles(x) :
              tx' = [tx EXCEPT !.pages = @ \cup {NewPage(f)}, !.next = @ + 1]
        BY <3>4 DEF ReuseFile
      <4>2. /\ f \in FileId
            /\ tx'.catalog = tx.catalog
            /\ tx'.pages = tx.pages \cup {NewPage(f)} /\ tx'.next = tx.next + 1
        BY <1>0, <4>1 DEF TxState, KnownFiles
      <4> QED BY <3>1, <4>2
    <3>5. ASSUME NEW x \in Content, NEW f \in FileId, FlushFile(x, f)
          PROVE  (\A p \in tx'.pages : p.catalog = tx'.catalog) /\ Numbered(tx'.pages, tx'.next)
      <4>1. tx'.pages = tx.pages /\ tx'.next = tx.next /\ tx'.catalog = tx.catalog
        BY <1>0, <3>5 DEF FlushFile, TxState
      <4> QED BY <1>0, <4>1 DEF FetchInv
    <3>6. WriteFile => worker.file \in FileId
      BY DEF WriteFile, TypeInv, TypeOK, SessionInv, WorkerState
    <3>7. CASE WriteFile
      <4>1. /\ tx'.catalog = tx.catalog
            /\ tx'.pages = tx.pages \cup {NewPage(worker.file)} /\ tx'.next = tx.next + 1
        BY <1>0, <3>7 DEF WriteFile, TxState
      <4> QED BY <3>1, <3>6, <3>7, <4>1
    <3> QED BY <1>2, <3>2, <3>3, <3>4, <3>5, <3>7, SessionMoves
  <2>4. worker'.pc = "saving" /\ tx'.catalog # None => tx'.next > 0
    <3>1. CASE ReleaseFetch
      BY <1>2, <3>1 DEF ReleaseFetch, CommitFetch
    <3>2. CASE worker' = worker /\ tx' = tx
      BY <1>0, <3>2 DEF FetchInv
    <3> QED BY <1>2, <3>1, <3>2, WorkerMoves
  <2> QED BY <2>2, <2>3, <2>4 DEF FetchInv
<1> QED BY <1>1, <1>2

LEMMA CleanupInvStep == TypeInv /\ RowsInv /\ [Next]_vars => CleanupInv'
<1> SUFFICES ASSUME TypeInv, RowsInv, [Next]_vars, worker'.pc = "cleanup"
             PROVE  /\ SavepointCommits => worker'.gone \cap Live' = {}
                    /\ worker'.todo \cap Live' \subseteq expired'
  BY DEF CleanupInv
<1>0. CleanupInv /\ worker \in WorkerState
  BY DEF RowsInv, TypeInv, TypeOK
<1>1. CASE StartCleanup
  BY <1>1 DEF StartCleanup, Idle, tables
<1>2. ASSUME NEW c \in CatalogId, CleanupCatalog(c)
      PROVE  /\ SavepointCommits => worker'.gone \cap Live' = {}
             /\ worker'.todo \cap Live' \subseteq expired'
  <2>1. /\ worker'.todo = worker.todo \ {c} /\ worker'.gone = worker.gone \cup {c}
        /\ worker.pc = "cleanup"
    BY <1>0, <1>2 DEF CleanupCatalog, WorkerState
  <2>2. SavepointCommits => Live' = Live \ {c} /\ expired' = expired \ {c}
    BY <1>2 DEF CleanupCatalog, WithoutCatalogs, Live
  <2>3. ~SavepointCommits => Live' = Live /\ expired' = expired
    BY <1>2 DEF CleanupCatalog, Live
  <2> QED BY <1>0, <2>1, <2>2, <2>3 DEF CleanupInv
<1>3. CASE worker' = worker
  <2>1. ~CommitFetch \/ tx.catalog = None
    BY <1>3 DEF TypeInv, SessionInv
  <2>2. Live' \subseteq Live
    BY <2>1, LiveMoves
  <2>3. expired \cap Live' \subseteq expired'
    <3>1. TypeInv'
      BY TypeStep
    <3>2. CASE UNCHANGED expired
      BY <3>2
    <3>3. CASE UNCHANGED vars \/ RequestStep \/ \E c \in CatalogId : Expire(c)
      <4>1. CASE CommitDelete
        BY <4>1 DEF CommitDelete, WithoutCatalogs, Live
      <4>2. (\E c \in CatalogId : Expire(c)) => expired \subseteq expired'
        BY DEF Expire
      <4>3. RequestStep /\ ~CommitDelete => UNCHANGED expired
        BY DEF RequestStep, PostProvider, LoadDelete, RefuseDelete, TimeoutDelete, AnswerRefused,
           tables
      <4> QED BY <3>2, <3>3, <4>1, <4>2, <4>3 DEF vars, tables
    <3>4. CASE WorkerStep
      <4>1. ASSUME NEW c \in CatalogId, CleanupCatalog(c) PROVE expired \cap Live' \subseteq expired'
        BY <4>1 DEF CleanupCatalog, WithoutCatalogs, Live
      <4>2. CASE StartCleanup \/ StartSweep \/ SweepStep
        BY <4>2 DEF StartCleanup, StartSweep, SweepStep, SweepFile, FinishSweep, tables
      <4>3. CASE FinishCleanup \/ \E c \in CatalogId : CleanupFails(c)
        BY <4>3 DEF FinishCleanup, CleanupFails, tables
      <4>4. ~FetchStep
        <5>1. worker.pc = "cleanup"
          BY <1>3
        <5> QED BY <5>1 DEF FetchStep, InsertCatalog, ReuseFile, FlushFile, WriteFile, WriteFails,
                   ReleaseFetch, FetchWarns, FetchRaises, SaveStatus
      <4>5. ASSUME NEW p \in ProviderId, StartFetch(p) PROVE expired' = expired
        BY <4>5 DEF StartFetch, tables
      <4> QED BY <3>4, <4>1, <4>2, <4>3, <4>4, <4>5 DEF WorkerStep, CleanupStep
    <3>5. Crash => UNCHANGED expired
      BY DEF Crash, tables
    <3> QED BY <3>2, <3>3, <3>4, <3>5 DEF Next
  <2> QED BY <1>0, <1>3, <2>2, <2>3 DEF CleanupInv
<1> QED BY <1>1, <1>2, <1>3, WorkerMoves

\* The pages of a catalog that stays are the ones it had, unless a delete has struck it;
\* those of a new one are the fetch's.
LEMMA PagesMove ==
  ASSUME TypeInv, RowsInv, [Next]_vars
  PROVE  /\ \A c \in Live' \cap Live :
              /\ {p \in pages' : p.catalog = c} \subseteq {p \in pages : p.catalog = c}
              /\ (CommitDelete /\ c \in struck') \/
                   {p \in pages' : p.catalog = c} = {p \in pages : p.catalog = c}
              /\ c \in struck => c \in struck'
         /\ \A c \in Live' \ Live :
              /\ CommitFetch /\ c = tx.catalog /\ tx.next \in 1 .. MaxPages
              /\ {p \in pages' : p.catalog = c} = tx.pages
         /\ PagesInv'
<1> USE DEF RowsInv
<1>0. /\ catalogs \in [CatalogId -> ProviderId \cup {None}] /\ tx \in TxState
      /\ pages \subseteq Page /\ request \in RequestState
  BY DEF TypeInv, TypeOK
<1>1. CASE UNCHANGED <<catalogs, pages, pagefiles, struck>>
  BY <1>1 DEF Live, PagesInv
<1>2. CASE /\ CommitFetch /\ tx.catalog # None
           /\ \/ worker.pc = "paging" /\ tx.next > 0 /\ worker'.pc = "saving"
              \/ worker.pc = "saving" /\ worker' = Idle
  <2>1. /\ Live' = Live \cup {tx.catalog} /\ tx.catalog \notin Live
        /\ \A p \in tx.pages : p.catalog = tx.catalog
        /\ \A p \in pages : p.catalog \in Live
        /\ pages' = pages \cup tx.pages /\ struck' = struck
    BY <1>2, LiveMoves DEF FetchInv, PagesInv, CommitFetch
  <2>2. tx.next > 0 /\ tx.next \in 0 .. MaxPages
    BY <1>0, <1>2 DEF FetchInv, TxState
  <2>3. tx.next \in 1 .. MaxPages
    BY <2>2, StoreAssumption DEF StoreAssumption
  <2>4. \A p, q \in pages' : p.catalog = q.catalog /\ p.number = q.number => p = q
    BY <2>1 DEF FetchInv, Numbered, PagesInv
  <2> QED BY <1>2, <2>1, <2>3, <2>4 DEF PagesInv
<1>3. ASSUME SavepointCommits, NEW c \in CatalogId, CleanupCatalog(c)
      PROVE  /\ \A d \in Live' \cap Live :
                  /\ {p \in pages' : p.catalog = d} = {p \in pages : p.catalog = d}
                  /\ d \in struck => d \in struck'
             /\ Live' \subseteq Live /\ PagesInv'
  <2>1. /\ catalogs' = WithoutCatalogs({c}) /\ worker.gone \cap Live = {}
        /\ pages' = Rest(c) /\ struck' = struck \ {c}
    BY <1>3 DEF CleanupCatalog, CleanupInv
  <2>2. Live' = Live \ {c}
    BY <2>1 DEF WithoutCatalogs, Live
  <2>3. \A p \in pages : p \in pages' <=> p.catalog \notin worker.gone \cup {c}
    BY <2>1 DEF Rest, PagesOf
  <2>4. pages' \subseteq pages
    BY <2>1 DEF Rest
  <2> QED BY <2>1, <2>2, <2>3, <2>4 DEF PagesInv
<1>4. ASSUME CommitDelete
      PROVE  /\ \A d \in Live' \cap Live :
                  /\ {p \in pages' : p.catalog = d} \subseteq {p \in pages : p.catalog = d}
                  /\ d \notin struck' =>
                       {p \in pages' : p.catalog = d} = {p \in pages : p.catalog = d}
                  /\ d \in struck => d \in struck'
             /\ Live' \subseteq Live /\ PagesInv'
  <2> DEFINE dropped == request.catalogs \cup CatalogsOf(request.provider)
  <2>1. PICK hit \in SUBSET PagesOf(request.fresh) :
          /\ catalogs' = WithoutCatalogs(dropped)
          /\ pages' = LeftByRequest(hit) \ PagesOf(dropped)
          /\ struck' = (struck \cup {p.catalog : p \in hit}) \ dropped
    BY <1>4 DEF CommitDelete
  <2>2. request.catalogs \subseteq dropped
    OBVIOUS
  <2> HIDE DEF dropped
  <2>3. Live' = Live \ dropped
    BY <2>1 DEF WithoutCatalogs, Live
  <2>4. \A p \in pages : p \in pages' <=> p.catalog \notin dropped /\ p \notin hit
    BY <2>1, <2>2 DEF LeftByRequest, PagesOf
  <2>5. pages' \subseteq pages
    BY <2>1 DEF LeftByRequest
  <2>6. \A p \in hit : p \in pages
    BY <2>1 DEF PagesOf
  <2>7. \A p \in pages : p \notin pages' /\ p.catalog \in Live' => p.catalog \in struck'
    BY <2>1, <2>3, <2>4
  <2>8. PagesInv'
    BY <2>1, <2>3, <2>4, <2>5, <2>6 DEF PagesInv
  <2> QED BY <2>1, <2>3, <2>5, <2>7, <2>8
<1> QED BY <1>1, <1>2, <1>3, <1>4, TablesMove

LEMMA RowsInit == Init => RowsInv
<1> SUFFICES ASSUME Init PROVE RowsInv
  OBVIOUS
<1>1. Numbered({}, 0)
  BY DEF Numbered
<1>2. FetchInv
  BY <1>1 DEF Init, FetchInv, NoTx
<1>3. CleanupInv /\ CascadeInv /\ PagesInv
  BY DEF Init, CleanupInv, CascadeInv, PagesInv, Idle, NoRequest
<1> QED BY <1>2, <1>3 DEF RowsInv

LEMMA RowsStep == TypeInv /\ RowsInv /\ [Next]_vars => RowsInv'
<1>1. TypeInv /\ RowsInv /\ [Next]_vars => PagesInv'
  BY PagesMove
<1> QED BY <1>1, FetchInvStep, CleanupInvStep, CascadeStep DEF RowsInv

LEMMA CompleteStep ==
  TypeInv /\ RowsInv /\ CatalogsComplete /\ [Next]_vars => CatalogsComplete'
<1> SUFFICES ASSUME TypeInv, RowsInv, CatalogsComplete, [Next]_vars, NEW c \in Live' \ struck'
             PROVE  \E n \in 1 .. MaxPages :
                      /\ {p.number : p \in PagesOf({c})'} = 0 .. n - 1
                      /\ \A p, q \in PagesOf({c})' : p.number = q.number => p = q
  BY DEF CatalogsComplete
<1>1. /\ PagesOf({c}) = {p \in pages : p.catalog = c}
      /\ PagesOf({c})' = {p \in pages' : p.catalog = c}
  BY DEF PagesOf
<1>2. CASE c \in Live
  <2>1. PagesOf({c})' = PagesOf({c}) /\ c \notin struck
    BY <1>1, <1>2, PagesMove
  <2>2. PICK n \in 1 .. MaxPages :
          /\ {p.number : p \in PagesOf({c})} = 0 .. n - 1
          /\ \A p, q \in PagesOf({c}) : p.number = q.number => p = q
    BY <1>2, <2>1 DEF CatalogsComplete
  <2>3. /\ {p.number : p \in PagesOf({c})'} = 0 .. n - 1
        /\ \A p, q \in PagesOf({c})' : p.number = q.number => p = q
    BY <2>1, <2>2
  <2> QED BY <2>3
<1>3. CASE c \notin Live
  <2>1. tx.next \in 1 .. MaxPages /\ PagesOf({c})' = tx.pages
    BY <1>1, <1>3, PagesMove
  <2>2. Numbered(tx.pages, tx.next)
    BY DEF RowsInv, FetchInv
  <2> QED BY <2>1, <2>2 DEF Numbered
<1> QED BY <1>2, <1>3

\* A reader never sees half a catalog: whatever warnings, exceptions, deletes of
\* the provider and crashes cut a fetch short, and whether or not the release of the
\* savepoint commits, each committed catalog has the pages 0 .. n - 1 for some n > 0.
THEOREM CatalogsAlwaysComplete == Spec => []CatalogsComplete
<1>1. Init => CatalogsComplete
  BY DEF Init, CatalogsComplete, Live
<1>2. /\ TypeInv /\ RowsInv /\ CatalogsComplete /\ [Next]_vars
      => (TypeInv /\ RowsInv /\ CatalogsComplete)'
  BY TypeStep, RowsStep, CompleteStep
<1> QED
  BY TypeInit, RowsInit, <1>1, <1>2, PTL DEF Spec

\* However long a delete waits for the write lock between its load and its flush, and
\* whatever fetches and cleanups commit meanwhile, it takes catalogs and pages of its own
\* provider only: all others have come after a loaded catalog was gone, when SQLite may give
\* the ids the cascade holds again.
THEOREM DeletesTakeTheirOwn == Spec => DeleteTakesOwn
<1>1. TypeInv /\ RowsInv /\ [Next]_vars =>
        [CommitDelete =>
           \A c \in (Live \ Live') \cup {p.catalog : p \in pages \ pages'} :
             catalogs[c] = request.provider \/ c \in request.fresh]_vars
  <2> SUFFICES ASSUME TypeInv, RowsInv, CommitDelete,
                      NEW c \in (Live \ Live') \cup {p.catalog : p \in pages \ pages'}
               PROVE  catalogs[c] = request.provider \/ c \in request.fresh
    OBVIOUS
  <2> DEFINE dropped == request.catalogs \cup CatalogsOf(request.provider)
  <2>1. PICK hit \in SUBSET PagesOf(request.fresh) :
          catalogs' = WithoutCatalogs(dropped) /\ pages' = LeftByRequest(hit) \ PagesOf(dropped)
    BY DEF CommitDelete
  <2>2. c \in Live /\ (c \in dropped \/ c \in request.fresh)
    <3>1. c \in Live \ Live' => c \in dropped
      BY <2>1 DEF Live, WithoutCatalogs
    <3>2. \A p \in pages \ pages' : p.catalog \in dropped \cup request.fresh /\ p.catalog \in Live
      BY <2>1 DEF LeftByRequest, PagesOf, RowsInv, PagesInv
    <3> QED BY <3>1, <3>2
  <2>3. c \in request.catalogs => catalogs[c] = request.provider \/ c \in request.fresh
    BY <2>2 DEF RowsInv, CascadeInv
  <2> QED BY <2>2, <2>3 DEF CatalogsOf
<1>2. TypeInv /\ RowsInv /\ [Next]_vars => (TypeInv /\ RowsInv)'
  BY TypeStep, RowsStep
<1> QED
  BY TypeInit, RowsInit, <1>1, <1>2, PTL DEF Spec, DeleteTakesOwn

\* In the SQLite deployment a cleanup_catalogs that ends without an exception has
\* deleted its catalogs for good: each savepoint's release has committed, and no fetch in
\* between takes one of their ids.
THEOREM CleanupsAreEffective ==
  ASSUME SavepointCommits PROVE Spec => CleanupEffective
<1>1. TypeInv /\ RowsInv /\ [Next]_vars => [FinishCleanup => worker.gone \cap Live' = {}]_vars
  BY DEF FinishCleanup, RowsInv, CleanupInv, tables, Live
<1>2. TypeInv /\ RowsInv /\ [Next]_vars => (TypeInv /\ RowsInv)'
  BY TypeStep, RowsStep
<1> QED
  BY TypeInit, RowsInit, <1>1, <1>2, PTL DEF Spec, CleanupEffective

-----------------------------------------------------------------------------
\* Under a canonical storage path: the tables and the storage implement CatalogService.

AllInv == TypeInv /\ RowsInv /\ SafeInv /\ ContentInv /\ CatalogsComplete

Registered == {p \in ProviderId : providers[p] # None}

LEMMA AllInit == Init => AllInv
<1>1. Init => SafeInv /\ ContentInv /\ CatalogsComplete
  BY DEF Init, SafeInv, FilesInv, PagesServable, Live, Idle, NoTx, ContentInv, RowOf,
         CatalogsComplete
<1> QED BY <1>1, TypeInit, RowsInit DEF AllInv

LEMMA AllStep == ASSUME CanonicalPaths PROVE AllInv /\ [Next]_vars => AllInv'
BY TypeStep, RowsStep, SafeStep, ContentStep, CompleteStep DEF AllInv

\* A committed page shows the content of its row.
LEMMA PageStored ==
  ASSUME AllInv, NEW c \in Live, NEW p \in PagesOf({c})
  PROVE  /\ p.file \in FileId /\ p.file \in storage
         /\ pagefiles[p.file] # None /\ pagefiles[p.file] \in Content
         /\ Stored(p.file) = pagefiles[p.file]
<1>1. p \in pages /\ p \in Page /\ pagefiles \in [FileId -> Content \cup {None}]
  BY DEF AllInv, TypeInv, TypeOK, PagesOf
<1>2. pagefiles[p.file] # None /\ p.file \in storage
  BY <1>1 DEF AllInv, SafeInv, PagesServable
<1> QED BY <1>1, <1>2 DEF Page, Stored

\* A page is the only one with its number, and its leaf shows its content.
LEMMA LeafOfPage ==
  ASSUME AllInv, NEW c \in Live, NEW p \in PagesOf({c})
  PROVE  /\ p.number \in DOMAIN LeavesOf(c)
         /\ LeavesOf(c)[p.number] = pagefiles[p.file]
<1>1. (CHOOSE q \in PagesOf({c}) : q.number = p.number) = p
  <2>1. \A q \in PagesOf({c}) : q.number = p.number => q = p
    BY DEF AllInv, RowsInv, PagesInv, PagesOf
  <2> QED BY <2>1
<1>2. Stored(p.file) = pagefiles[p.file]
  BY PageStored
<1> QED BY <1>1, <1>2 DEF LeavesOf

LEMMA LeavesAreLeaves ==
  ASSUME AllInv, NEW c \in Live PROVE LeavesOf(c) \in Service!Leaves
<1> DEFINE numbers == {p.number : p \in PagesOf({c})}
<1>1. numbers \in SUBSET (0 .. MaxPages - 1)
  BY DEF AllInv, TypeInv, TypeOK, PagesOf, Page
<1>2. ASSUME NEW k \in numbers PROVE LeavesOf(c)[k] \in Content
  <2>1. PICK p \in PagesOf({c}) : p.number = k
    BY <1>2
  <2> QED BY <2>1, LeafOfPage, PageStored
<1>3. LeavesOf(c) = [k \in numbers |-> LeavesOf(c)[k]]
  BY DEF LeavesOf
<1> HIDE DEF numbers
<1>4. LeavesOf(c) \in [numbers -> Content]
  BY <1>2, <1>3
<1> QED BY <1>1, <1>4 DEF Service!Leaves

LEMMA LeavesByNumber ==
  ASSUME NEW c \in CatalogId
  PROVE  LeavesOf(c) = [k \in {p.number : p \in PagesOf({c})} |-> LeavesOf(c)[k]]
<1> DEFINE numbers == {p.number : p \in PagesOf({c})}
<1>1. LeavesOf(c) = [k \in numbers |-> LeavesOf(c)[k]]
  BY DEF LeavesOf
<1> QED BY <1>1, Zenon

\* The leaves of a catalog no delete has struck are all there.
LEMMA LeavesAreWhole ==
  ASSUME AllInv, NEW c \in Live \ struck PROVE LeavesOf(c) \in Service!Whole
<1>1. PICK n \in 1 .. MaxPages : {p.number : p \in PagesOf({c})} = 0 .. n - 1
  BY DEF AllInv, CatalogsComplete
<1>2. ASSUME NEW k \in 0 .. n - 1 PROVE LeavesOf(c)[k] \in Content
  <2>1. PICK p \in PagesOf({c}) : p.number = k
    BY <1>1, <1>2
  <2> QED BY <2>1, LeafOfPage, PageStored
<1>3. LeavesOf(c) = [k \in 0 .. n - 1 |-> LeavesOf(c)[k]]
  <2>1. c \in CatalogId
    BY DEF Live
  <2> QED BY <1>1, <2>1, LeavesByNumber, Zenon
<1>4. LeavesOf(c) \in [0 .. n - 1 -> Content]
  BY <1>2, <1>3
<1> QED BY <1>4 DEF Service!Whole

LEMMA ShelvedIsLive ==
  ASSUME AllInv
  PROVE  /\ \A c \in CatalogId : Shelf[c] = None <=> c \notin Live
         /\ Service!Shelved = Live
         /\ \A c \in Live : Shelf[c].provider = catalogs[c]
<1>1. \A c \in CatalogId : c \notin Live => Shelf[c] = None
  BY DEF Shelf, Live
<1>2. ASSUME NEW c \in Live
      PROVE  c \in CatalogId /\ Shelf[c] # None /\ Shelf[c].provider = catalogs[c]
  <2>1. Shelf[c] = [provider |-> catalogs[c], leaves |-> LeavesOf(c)] /\ c \in CatalogId
    BY DEF Shelf, Live
  <2>2. catalogs[c] \in ProviderId
    BY <2>1 DEF AllInv, TypeInv, TypeOK, Live
  <2>3. Shelf[c] \in [provider : ProviderId, leaves : Service!Leaves]
    BY <2>1, <2>2, LeavesAreLeaves
  <2> QED BY <2>1, <2>3, ServiceAssumption DEF ServiceAssumption
<1> QED BY <1>1, <1>2 DEF Service!Shelved, Live

\* A row that is there before and after a step has the same content.
LEMMA RowsKept ==
  ASSUME AllInv, [Next]_vars, NEW f \in FileId, pagefiles[f] # None, pagefiles'[f] # None
  PROVE  pagefiles'[f] = pagefiles[f]
<1>1. CASE CommitFetch
  BY <1>1 DEF CommitFetch, AllInv, ContentInv
<1>2. ASSUME SavepointCommits, NEW c \in CatalogId, CleanupCatalog(c)
      PROVE  pagefiles'[f] = pagefiles[f]
  BY <1>2 DEF CleanupCatalog, WithoutFiles
<1>3. CASE CommitDelete
  BY <1>3 DEF CommitDelete, WithoutFiles
<1> QED BY <1>1, <1>2, <1>3, TablesMove DEF AllInv

LEMMA LeafAlwaysOfPage ==
  (AllInv => \A c \in Live : \A p \in PagesOf({c}) :
     p.number \in DOMAIN LeavesOf(c) /\ LeavesOf(c)[p.number] = pagefiles[p.file])'
<1>1. AllInv => \A c \in Live : \A p \in PagesOf({c}) :
        p.number \in DOMAIN LeavesOf(c) /\ LeavesOf(c)[p.number] = pagefiles[p.file]
  BY LeafOfPage
<1> QED BY <1>1, PTL

\* A catalog that stays keeps its provider, and the pages it has left show what they showed.
LEMMA ShelfLeft ==
  ASSUME AllInv, AllInv', [Next]_vars, NEW c \in Live \cap Live'
  PROVE  /\ catalogs'[c] = catalogs[c]
         /\ PagesOf({c})' \subseteq PagesOf({c})
         /\ LeavesOf(c)' = [k \in {p.number : p \in PagesOf({c})'} |-> LeavesOf(c)[k]]
<1>1. PagesOf({c})' \subseteq PagesOf({c})
  BY PagesMove DEF PagesOf, AllInv
<1>2. ASSUME NEW p \in PagesOf({c})'
      PROVE  LeavesOf(c)'[p.number] = LeavesOf(c)[p.number]
  <2>1. /\ p.file \in FileId /\ pagefiles[p.file] # None
        /\ LeavesOf(c)[p.number] = pagefiles[p.file]
    BY <1>1, PageStored, LeafOfPage
  <2>2. pagefiles'[p.file] # None
    <3>1. p \in pages'
      BY DEF PagesOf
    <3> QED BY <3>1 DEF AllInv, SafeInv, PagesServable
  <2>3. LeavesOf(c)'[p.number] = pagefiles'[p.file]
    BY LeafAlwaysOfPage
  <2>4. PICK f \in FileId : f = p.file
    BY <2>1
  <2>5. pagefiles'[f] = pagefiles[f]
    BY <2>1, <2>2, <2>4, RowsKept
  <2> QED BY <2>1, <2>3, <2>4, <2>5
<1>3. LeavesOf(c)' = [k \in {p.number : p \in PagesOf({c})'} |-> LeavesOf(c)'[k]]
  <2> DEFINE numbers == {p.number : p \in PagesOf({c})'}
             leaf(n) == Stored((CHOOSE p \in PagesOf({c}) : p.number = n).file)'
  <2>1. LeavesOf(c)' = [n \in numbers |-> leaf(n)]
    BY Zenon DEF LeavesOf
  <2> HIDE DEF leaf, numbers
  <2>2. LeavesOf(c)' = [n \in numbers |-> LeavesOf(c)'[n]]
    BY <2>1
  <2> QED BY <2>2 DEF numbers
<1>4. LeavesOf(c)' = [k \in {p.number : p \in PagesOf({c})'} |-> LeavesOf(c)[k]]
  BY <1>2, <1>3
<1>5. catalogs'[c] = catalogs[c]
  <2>1. CASE CommitFetch /\ tx.catalog # None
    <3>1. c # tx.catalog
      BY <2>1 DEF AllInv, RowsInv, FetchInv
    <3> QED BY <2>1, <3>1, LiveMoves DEF AllInv
  <2>2. CASE ~(CommitFetch /\ tx.catalog # None)
    BY <2>2, LiveMoves DEF AllInv
  <2> QED BY <2>1, <2>2
<1> QED BY <1>1, <1>4, <1>5

LEMMA ShelfKept ==
  ASSUME AllInv, AllInv', [Next]_vars, ~CommitDelete, NEW c \in Live \cap Live'
  PROVE  Shelf'[c] = Shelf[c]
<1>1. PagesOf({c})' = PagesOf({c})
  BY PagesMove DEF PagesOf, AllInv
<1>2. LeavesOf(c) = [k \in {p.number : p \in PagesOf({c})} |-> LeavesOf(c)[k]]
  <2>1. c \in CatalogId
    BY DEF Live
  <2> QED BY <2>1, LeavesByNumber, Zenon
<1>3. LeavesOf(c)' = LeavesOf(c)
  BY <1>1, <1>2, ShelfLeft
<1> QED BY <1>3, ShelfLeft DEF Shelf, Live

\* So the shelf loses what goes and gains what is new.
LEMMA ShelfMoves ==
  ASSUME AllInv, AllInv', [Next]_vars, ~CommitDelete, Live' \subseteq Live
  PROVE  Shelf' = [c \in CatalogId |-> IF c \in Live' THEN Shelf[c] ELSE None]
<1>1. \A c \in CatalogId : c \in Live' => Shelf'[c] = Shelf[c]
  BY ShelfKept
<1>2. \A c \in CatalogId : c \notin Live' => Shelf'[c] = None
  BY DEF Shelf, Live
<1>3. Shelf' = [c \in CatalogId |-> Shelf'[c]]
  BY DEF Shelf
<1> QED BY <1>1, <1>2, <1>3

\* What each step does to the providers and to the expired catalogs.
LEMMA OtherMoves ==
  ASSUME TypeInv, [Next]_vars
  PROVE  \/ Registered' = Registered /\ expired' = expired
         \/ \E p \in ProviderId : PostProvider(p)
         \/ \E c \in CatalogId : Expire(c) \/ CleanupCatalog(c)
         \/ CommitDelete
<1> USE DEF tables, Registered
<1>1. CASE UNCHANGED vars
  BY <1>1 DEF vars
<1>2. CASE WorkerStep
  <2>1. CASE FetchStep
    <3>1. ASSUME NEW c \in CatalogId, InsertCatalog(c) PROVE UNCHANGED <<providers, expired>>
      BY <3>1 DEF InsertCatalog
    <3>2. ASSUME NEW x \in Content, ReuseFile(x) PROVE UNCHANGED <<providers, expired>>
      BY <3>2 DEF ReuseFile
    <3>3. ASSUME NEW x \in Content, NEW f \in FileId, FlushFile(x, f)
          PROVE  UNCHANGED <<providers, expired>>
      BY <3>3 DEF FlushFile
    <3>4. WriteFile \/ WriteFails \/ FetchRaises => UNCHANGED <<providers, expired>>
      BY DEF WriteFile, WriteFails, FetchRaises
    <3>5. ASSUME NEW w \in Warning, FetchWarns(w) PROVE UNCHANGED <<providers, expired>>
      BY <3>5 DEF FetchWarns
    <3>6. ReleaseFetch => UNCHANGED <<providers, expired>>
      BY DEF ReleaseFetch, CommitFetch
    <3>7. CASE SaveStatus
      <4>1. /\ expired' = expired
            /\ \/ providers' = providers
               \/ /\ providers' = [providers EXCEPT ![worker.provider] = worker.outcome]
                  /\ providers[worker.provider] # None
        BY <3>7 DEF SaveStatus, CommitFetch
      <4>2. worker.outcome # None /\ providers \in [ProviderId -> Status \cup {None}]
        BY <3>7 DEF SaveStatus, TypeInv, TypeOK, SessionInv
      <4> QED BY <4>1, <4>2
    <3> QED BY <2>1, <3>1, <3>2, <3>3, <3>4, <3>5, <3>6, <3>7 DEF FetchStep
  <2>2. CASE CleanupStep
    BY <2>2 DEF CleanupStep, CleanupFails, FinishCleanup
  <2>3. CASE SweepStep
    BY <2>3 DEF SweepStep, SweepFile, FinishSweep
  <2>4. CASE StartCleanup \/ StartSweep
    BY <2>4 DEF StartCleanup, StartSweep
  <2>5. CASE \E p \in ProviderId : StartFetch(p)
    BY <2>5 DEF StartFetch
  <2> QED BY <1>2, <2>1, <2>2, <2>3, <2>4, <2>5 DEF WorkerStep
<1>3. CASE RequestStep
  BY <1>3 DEF RequestStep, LoadDelete, RefuseDelete, TimeoutDelete, AnswerRefused
<1>4. CASE Crash \/ \E c \in CatalogId : Expire(c)
  BY <1>4 DEF Crash
<1> QED
  BY <1>1, <1>2, <1>3, <1>4 DEF Next

LEMMA LeavesAlwaysWhole ==
  (AllInv => \A c \in Live \ struck : LeavesOf(c) \in Service!Whole)'
<1>1. AllInv => \A c \in Live \ struck : LeavesOf(c) \in Service!Whole
  BY LeavesAreWhole
<1> QED BY <1>1, PTL

\* A fetch that commits puts one whole catalog on the shelf.
LEMMA CommitPublishes ==
  ASSUME AllInv, AllInv', [Next]_vars, CommitFetch, tx.catalog # None,
         ~CommitDelete, Registered' = Registered
  PROVE  Service!Next
<1>0. PICK d \in CatalogId, q \in ProviderId : d = tx.catalog /\ q = worker.provider
  BY LiveMoves DEF AllInv
<1>1. /\ d \in CatalogId /\ d \notin Live /\ d \in Live' /\ Live' = Live \cup {d}
      /\ catalogs'[d] = q /\ q \in ProviderId
  BY <1>0, LiveMoves DEF AllInv, RowsInv, FetchInv
<1>2. q \in Registered
  BY <1>0, <1>1 DEF AllInv, TypeInv, SessionInv, Registered
<1>3. Shelf[d] = None
  BY <1>1, ShelvedIsLive
<1>4. LeavesOf(d)' \in Service!Whole
  <2>1. d \notin struck'
    BY <1>1 DEF CommitFetch, AllInv, RowsInv, PagesInv
  <2>2. LeavesOf(d)' \in Service!Whole'
    BY <1>1, <2>1, LeavesAlwaysWhole
  <2> QED BY <2>2 DEF Service!Whole
<1>5. Shelf' = [Shelf EXCEPT ![d] = [provider |-> q, leaves |-> LeavesOf(d)']]
  <2>1. \A c \in CatalogId \ {d} : Shelf'[c] = Shelf[c]
    <3>1. \A c \in CatalogId \ {d} : c \notin Live => Shelf'[c] = None /\ Shelf[c] = None
      BY <1>1 DEF Shelf, Live
    <3> QED BY <1>1, <3>1, ShelfKept
  <2>2. Shelf'[d] = [provider |-> q, leaves |-> LeavesOf(d)']
    BY <1>1 DEF Shelf, Live
  <2>3. Shelf' = [c \in CatalogId |-> Shelf'[c]] /\ Shelf = [c \in CatalogId |-> Shelf[c]]
    BY DEF Shelf
  <2> QED BY <2>1, <2>2, <2>3
<1>6. Service!Publish(d, q, LeavesOf(d)')
  BY <1>2, <1>3, <1>5 DEF Service!Publish, Registered, CommitFetch
<1> QED BY <1>1, <1>4, <1>6 DEF Service!Next

\* A committed delete takes the provider, its catalogs and what else has the loaded ids.
LEMMA DeleteUnregisters ==
  ASSUME AllInv, AllInv', [Next]_vars, CommitDelete
  PROVE  \E p \in ProviderId : Service!Unregister(p)
<1>0. PICK p \in ProviderId \cup {None} : p = request.provider
  BY DEF AllInv, TypeInv, TypeOK, RequestState
<1>1. p \in ProviderId /\ p \in Registered
  BY <1>0 DEF CommitDelete, AllInv, RowsInv, CascadeInv, Registered
<1>2. PICK dropped \in SUBSET CatalogId : dropped = request.catalogs \cup CatalogsOf(request.provider)
  BY DEF AllInv, TypeInv, TypeOK, RequestState, CatalogsOf
<1>3. PICK taken \in SUBSET CatalogId : taken = dropped \cap Live
  OBVIOUS
<1>4. /\ catalogs' = WithoutCatalogs(dropped) /\ expired' = expired \ dropped
      /\ providers' = [providers EXCEPT ![p] = None]
  BY <1>0, <1>2 DEF CommitDelete
<1>5. Live' = Live \ taken /\ Live' \subseteq Live /\ taken \subseteq Live
  BY <1>3, <1>4 DEF WithoutCatalogs, Live
<1>6. expired' = expired \ taken
  BY <1>3, <1>4 DEF AllInv, TypeInv, TypeOK
<1>7. Registered' = Registered \ {p}
  BY <1>1, <1>4 DEF Registered, AllInv, TypeInv, TypeOK
<1>8. Service!Shelved = Live /\ {c \in Service!Shelved : Shelf[c].provider = p} \subseteq taken
  BY <1>0, <1>2, <1>3, ShelvedIsLive DEF CatalogsOf, Live
<1>9. PICK lost \in SUBSET (Live' \X (0 .. MaxPages - 1)) :
         lost = {<<q.catalog, q.number>> : q \in {r \in pages \ pages' : r.catalog \in Live'}}
  <2>1. \A q \in pages : q.number \in 0 .. MaxPages - 1
    BY DEF AllInv, TypeInv, TypeOK, Page
  <2>2. {<<q.catalog, q.number>> : q \in {r \in pages \ pages' : r.catalog \in Live'}}
          \in SUBSET (Live' \X (0 .. MaxPages - 1))
    BY <2>1
  <2> QED BY <2>2
<1>10. ASSUME NEW c \in Live'
       PROVE  Shelf'[c] = [Shelf[c] EXCEPT
                !.leaves = [k \in {n \in DOMAIN @ : <<c, n>> \notin lost} |-> @[k]]]
  <2>1. c \in Live /\ c \in CatalogId
    BY <1>5 DEF Live
  <2>2. Shelf[c] = [provider |-> catalogs[c], leaves |-> LeavesOf(c)]
    BY <2>1 DEF Shelf, Live
  <2>3. Shelf'[c] = [provider |-> catalogs[c], leaves |-> LeavesOf(c)']
    BY <1>10, <2>1, ShelfLeft DEF Shelf, Live
  <2>4. {q.number : q \in PagesOf({c})'} = {n \in DOMAIN LeavesOf(c) : <<c, n>> \notin lost}
    <3>1. DOMAIN LeavesOf(c) = {q.number : q \in PagesOf({c})}
      BY DEF LeavesOf
    <3>2. \A q \in PagesOf({c}) : q \in PagesOf({c})' <=> <<c, q.number>> \notin lost
      <4>1. \A q, r \in pages : q.catalog = r.catalog /\ q.number = r.number => q = r
        BY DEF AllInv, RowsInv, PagesInv
      <4> QED BY <1>9, <1>10, <4>1 DEF PagesOf
    <3> QED BY <2>1, <3>1, <3>2, ShelfLeft
  <2>5. LeavesOf(c)' = [k \in {n \in DOMAIN LeavesOf(c) : <<c, n>> \notin lost} |-> LeavesOf(c)[k]]
    BY <2>1, <2>4, ShelfLeft
  <2>6. Shelf[c].leaves = LeavesOf(c) /\ Shelf[c].provider = catalogs[c]
    BY <2>2
  <2>7. ASSUME NEW left PROVE [Shelf[c] EXCEPT !.leaves = left] = [provider |-> catalogs[c], leaves |-> left]
    BY <2>2
  <2> DEFINE left == [k \in {n \in DOMAIN Shelf[c].leaves : <<c, n>> \notin lost}
                        |-> Shelf[c].leaves[k]]
  <2>8. left = LeavesOf(c)'
    BY <2>5, <2>6, Zenon
  <2>9. Shelf'[c] = [Shelf[c] EXCEPT !.leaves = left]
    <3> HIDE DEF left
    <3> QED BY <2>3, <2>7, <2>8
  <2> QED BY <2>9, Zenon
<1>11. Shelf' = [c \in CatalogId |->
         IF c \in Service!Shelved \ taken
         THEN [Shelf[c] EXCEPT
                 !.leaves = [k \in {n \in DOMAIN @ : <<c, n>> \notin lost} |-> @[k]]]
         ELSE None]
  <2>1. \A c \in CatalogId : c \notin Live' => Shelf'[c] = None
    BY DEF Shelf, Live
  <2>2. Shelf' = [c \in CatalogId |-> Shelf'[c]]
    BY DEF Shelf
  <2> QED BY <1>5, <1>8, <1>10, <2>1, <2>2
<1>12. lost \in SUBSET ((Service!Shelved \ taken) \X (0 .. MaxPages - 1))
  BY <1>5, <1>8, <1>9
<1> QED BY <1>1, <1>5, <1>6, <1>7, <1>8, <1>11, <1>12 DEF Service!Unregister, Registered

LEMMA ServiceStep ==
  ASSUME AllInv, AllInv', [Next]_vars PROVE [Service!Next]_(Service!vars)
<1> USE DEF tables
<1>0. /\ providers \in [ProviderId -> Status \cup {None}] /\ expired \subseteq Live
      /\ Live \subseteq CatalogId /\ Service!Shelved = Live
      /\ catalogs \in [CatalogId -> ProviderId \cup {None}]
  BY ShelvedIsLive DEF AllInv, TypeInv, TypeOK, Live
<1>1. CASE CommitFetch /\ tx.catalog # None
  <2>1. Registered' = Registered
    <3>1. ASSUME NEW p \in ProviderId, PostProvider(p) PROVE FALSE
      BY <1>1, <3>1, LiveMoves DEF PostProvider, AllInv, RowsInv, FetchInv, Live
    <3>2. ASSUME NEW c \in CatalogId, Expire(c) PROVE FALSE
      BY <1>1, <3>2, LiveMoves DEF Expire, AllInv, RowsInv, FetchInv, Live
    <3>3. ASSUME NEW c \in CatalogId, CleanupCatalog(c) PROVE FALSE
      BY <1>1, <3>3 DEF CleanupCatalog, AllInv, TypeInv, SessionInv
    <3>4. CASE CommitDelete
      BY <1>1, <3>4 DEF CommitDelete, WriteLocked
    <3> QED BY <3>1, <3>2, <3>3, <3>4, OtherMoves DEF AllInv
  <2>2. ~CommitDelete
    BY <1>1 DEF CommitDelete, WriteLocked
  <2> QED BY <1>1, <2>1, <2>2, CommitPublishes
<1>2. CASE UNCHANGED <<catalogs, pages, pagefiles, struck>> /\ ~CommitDelete
  <2>1. Live' = Live /\ Shelf' = Shelf
    <3>1. Live' = Live
      BY <1>2 DEF Live
    <3>2. \A c \in CatalogId : c \notin Live => Shelf[c] = None
      BY DEF Shelf, Live
    <3>3. Shelf = [c \in CatalogId |-> Shelf[c]]
      BY DEF Shelf
    <3>4. Shelf' = [c \in CatalogId |-> IF c \in Live' THEN Shelf[c] ELSE None]
      BY <1>2, <3>1, ShelfMoves
    <3> QED BY <3>1, <3>2, <3>3, <3>4
  <2>2. CASE Registered' = Registered /\ expired' = expired
    BY <2>1, <2>2 DEF Service!vars, Registered
  <2>3. ASSUME NEW p \in ProviderId, PostProvider(p) PROVE Service!Register(p)
    <3>1. p \notin Registered /\ Registered' = Registered \cup {p} /\ expired' = expired
      BY <1>0, <2>3, NotNone DEF PostProvider, Registered
    <3> QED BY <2>1, <3>1 DEF Service!Register, Registered
  <2>4. ASSUME NEW c \in CatalogId, Expire(c) PROVE Service!Age(c)
    <3>1. c \in Live /\ expired' = expired \cup {c} /\ Registered' = Registered
      BY <2>4 DEF Expire, Registered
    <3> QED BY <1>0, <2>1, <3>1 DEF Service!Age, Registered
  <2>5. ASSUME NEW c \in CatalogId, CleanupCatalog(c) PROVE UNCHANGED Service!vars
    <3>1. Registered' = Registered
      BY <2>5 DEF CleanupCatalog, Registered
    <3>2. expired' = expired
      BY <1>0, <1>2, <2>1, <2>5 DEF CleanupCatalog, WithoutCatalogs, Live
    <3> QED BY <2>1, <3>1, <3>2 DEF Service!vars, Registered
  <2> QED BY <1>2, <2>2, <2>3, <2>4, <2>5, OtherMoves DEF AllInv, Service!Next
<1>3. ASSUME SavepointCommits, NEW c \in CatalogId, CleanupCatalog(c)
      PROVE  [Service!Next]_(Service!vars)
  <2>1. /\ Live' = Live \ {c} /\ expired' = expired \ {c} /\ Registered' = Registered
        /\ c \in Live => c \in expired
    BY <1>3 DEF CleanupCatalog, WithoutCatalogs, Live, Registered, AllInv, RowsInv, CleanupInv
  <2>2. Shelf' = [Shelf EXCEPT ![c] = None]
    <3>1. \A d \in CatalogId : d \notin Live => Shelf[d] = None
      BY DEF Shelf, Live
    <3>2. Shelf = [d \in CatalogId |-> Shelf[d]]
      BY DEF Shelf
    <3>3. ~CommitDelete
      <4>1. worker.pc = "cleanup" /\ worker'.todo = worker.todo \ {c} /\ c \in worker.todo
        BY <1>3 DEF CleanupCatalog, AllInv, TypeInv, TypeOK, WorkerState
      <4> QED BY <4>1 DEF CommitDelete
    <3>4. Shelf' = [d \in CatalogId |-> IF d \in Live' THEN Shelf[d] ELSE None]
      BY <2>1, <3>3, ShelfMoves
    <3> QED BY <2>1, <3>1, <3>2, <3>4
  <2>3. CASE c \in Live
    <3>1. Service!Withdraw(c)
      BY <2>1, <2>2, <2>3 DEF Service!Withdraw, Registered
    <3> QED BY <3>1 DEF Service!Next
  <2>4. CASE c \notin Live
    <3>1. Shelf' = Shelf
      <4>1. Shelf[c] = None /\ Shelf = [d \in CatalogId |-> Shelf[d]]
        BY <2>4 DEF Shelf, Live
      <4> QED BY <2>2, <4>1
    <3>2. expired' = expired
      BY <1>0, <2>1, <2>4
    <3> QED BY <2>1, <3>1, <3>2 DEF Service!vars, Registered
  <2> QED BY <2>3, <2>4
<1>4. CASE CommitDelete
  BY <1>4, DeleteUnregisters DEF Service!Next
<1> QED BY <1>1, <1>2, <1>3, <1>4, TablesMove DEF AllInv

\* Whatever the jobs and the handlers do and in whichever order, a reader of the tables
\* sees CatalogService: a provider's catalogs appear whole, each page with the content it
\* was fetched with, show nothing else while they stay, and go when old or at a delete; and
\* only a delete takes pages from a catalog.
THEOREM StoreImplementsService ==
  ASSUME CanonicalPaths PROVE Spec => ImplementsService
<1>1. Init => Service!Init
  BY DEF Init, Service!Init, Shelf
<1>2. AllInv /\ [Next]_vars => AllInv'
  BY AllStep
<1>3. AllInv /\ AllInv' /\ [Next]_vars => [Service!Next]_(Service!vars)
  BY ServiceStep
<1> QED
  BY AllInit, <1>1, <1>2, <1>3, PTL DEF Spec, ImplementsService, Service!Spec

=============================================================================
