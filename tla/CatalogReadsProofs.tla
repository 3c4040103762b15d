------------------------- MODULE CatalogReadsProofs -------------------------
(***************************************************************************)
(* What TLAPS proves of CatalogReads, for any providers, catalogs, pages,   *)
(* windows and page size.                                                  *)
(*                                                                         *)
(* A document that is answered is whole (ReadsAreWhole, by RequestInv):    *)
(* while nothing is torn its catalog is on the shelf with the leaves asked *)
(* for, what has been got and what is left make up those leaves, and the   *)
(* file of a page keeps that even when torn.                               *)
(*                                                                         *)
(* The lists place every catalog (ListsPlace, by WindowInv) and agree      *)
(* (ListsAgree, by CatalogsOK and NewerOK): creation is a strict order, so *)
(* Rank is a bijection from a list's catalogs to its places.               *)
(*                                                                         *)
(* A GET fails for a reason only (FailInv), a feed is whole (FeedInv: what *)
(* is shown and what is to do make up what was asked for), and a walk      *)
(* misses nothing that stays (WalkInv: what stays and has not been seen    *)
(* has a rank after the pages turned; no change of the catalogs moves a    *)
(* rank forward as long as the walk is not torn, and as long as it is not  *)
(* late the list is no longer than what has been counted).                 *)
(***************************************************************************)
EXTENDS CatalogReads, FiniteSetTheorems, TLAPS

\* The fields that the argument looks at.
DocumentFields == {"kind", "status", "torn", "step", "catalog", "leaves", "left", "got"}

GotOf(D) == {<<k, request.leaves[k]>> : k \in D}

\* A document before its answer.
Pending ==
  /\ ~request.torn =>
       /\ request.catalog \in Shelved
       /\ request.kind # "file" => request.leaves = shelf[request.catalog].leaves
  /\ request.step \in {"pages", "class", "files"}
  /\ request.step # "files" => request.got = {} /\ request.kind # "file"
  /\ request.step = "class" =>
       request.kind = "epub" /\ (~request.torn => request.left = DOMAIN request.leaves)
  /\ request.step = "files" =>
       /\ request.left # {}
       /\ ~request.torn \/ request.kind = "file" =>
            /\ request.left \subseteq DOMAIN request.leaves
            /\ request.got = GotOf(DOMAIN request.leaves \ request.left)

\* A document answered with 200.
Complete ==
  /\ ~request.torn \/ request.kind = "file" => request.got = GotOf(DOMAIN request.leaves)
  /\ request.kind \in {"pdf", "epub"} => request.got # {}

DocumentInv ==
  /\ DocumentFields \subseteq DOMAIN request
  /\ request.torn \in BOOLEAN
  /\ request.status \in {None, 200, 500}
  /\ request.status = None => Pending
  /\ request.status = 200 => Complete

RequestInv ==
  request # None =>
    /\ request.kind \in Documents \cup {"feed", "walk"}
    /\ request.kind \in Documents /\ request.status # 404 => DocumentInv
    /\ "kind" \in DOMAIN request

\* Every catalog on the shelf has a window.
WindowInv ==
  /\ shelf = [c \in CatalogId |-> shelf[c]]
  /\ window = [c \in CatalogId |-> window[c]]
  /\ \A c \in Shelved : window[c] \in Windows
  /\ now \in Nat

IInv == WindowInv /\ RequestInv

-----------------------------------------------------------------------------
\* Requests that do not change any catalog.

\* What EXCEPT does to a function on the catalogs.
LEMMA ShelfExcept ==
  ASSUME NEW f, f = [d \in CatalogId |-> f[d]], NEW c \in CatalogId, NEW v
  PROVE  [f EXCEPT ![c] = v] = [d \in CatalogId |-> IF d = c THEN v ELSE f[d]]
  OBVIOUS

LEMMA AskKeeps ==
  ASSUME ReadsAssumption, IInv, UNCHANGED catalogs,
         \/ \E c, kind : kind \in {"json", "pdf", "epub"} /\ AskCatalog(kind, c)
         \/ \E c, k : AskPage(c, k)
  PROVE  RequestInv'
<1>1. CASE \E c, kind : kind \in {"json", "pdf", "epub"} /\ AskCatalog(kind, c)
  <2>1. PICK c, kind : kind \in {"json", "pdf", "epub"} /\ AskCatalog(kind, c)
    BY <1>1
  <2>2. CASE c \in Shelved
    <3>1. request' = [kind |-> kind, status |-> None, torn |-> FALSE, step |-> "pages",
                      catalog |-> c, provider |-> ProviderOf(c),
                      leaves |-> shelf[c].leaves, left |-> {}, got |-> {}]
      BY <2>1, <2>2 DEF AskCatalog, Document
    <3>2. DocumentInv'
      BY <2>1, <2>2, <3>1 DEF DocumentInv, DocumentFields, Pending, Complete, Shelved,
         ReadsAssumption, catalogs
    <3> QED BY <2>1, <3>1, <3>2 DEF RequestInv, Documents
  <2>3. CASE c \notin Shelved
    BY <2>1, <2>3 DEF AskCatalog, NotFound, RequestInv, Documents
  <2> QED BY <2>2, <2>3
<1>2. CASE \E c, k : AskPage(c, k)
  <2>1. PICK c, k : AskPage(c, k)
    BY <1>2
  <2>2. CASE c \in Shelved /\ k \in DOMAIN shelf[c].leaves
    <3>1. request' = [kind |-> "file", status |-> None, torn |-> FALSE, step |-> "files",
                      catalog |-> c, provider |-> ProviderOf(c),
                      leaves |-> [i \in {k} |-> shelf[c].leaves[i]], left |-> {k}, got |-> {}]
      BY <2>1, <2>2 DEF AskPage, PageDocument, Document
    <3>2. DocumentInv'
      BY <2>2, <3>1 DEF DocumentInv, DocumentFields, Pending, Complete, GotOf, Shelved,
         ReadsAssumption, catalogs
    <3> QED BY <3>1, <3>2 DEF RequestInv, Documents
  <2>3. CASE ~(c \in Shelved /\ k \in DOMAIN shelf[c].leaves)
    BY <2>1, <2>3 DEF AskPage, PageDocument, NotFound, RequestInv, Documents
  <2> QED BY <2>2, <2>3
<1> QED BY <1>1, <1>2

LEMMA ReadKeeps ==
  ASSUME ReadsAssumption, IInv, UNCHANGED catalogs,
         LoadPages \/ LoadClass \/ ReadFile \/ ReadFails \/ ReadForeign
  PROVE  RequestInv'
<1> USE DEF ReadsAssumption
<1>1. /\ request # None /\ request.status = None /\ request.kind \in Documents
      /\ DocumentInv /\ Pending
  BY DEF LoadPages, LoadClass, ReadFile, ReadFails, ReadForeign, Reading, Documents, IInv,
     RequestInv, DocumentInv
<1>2. SUFFICES request'.kind \in Documents /\ DocumentInv'
  BY DEF RequestInv, Documents, DocumentInv, DocumentFields
<1>3. CASE LoadPages
  <2>1. request.step = "pages" /\ request.kind # "file" /\ request.got = {}
    BY <1>1, <1>3 DEF LoadPages, Reading, Pending
  <2>2. ~request.torn => LeavesNow = DOMAIN request.leaves
    BY <1>1, <2>1 DEF Pending, LeavesNow
  <2>3. request' = Loaded(LeavesNow, LeavesNow = {})
    BY <1>3 DEF LoadPages
  <2> DEFINE step == IF request.kind = "epub" THEN "class" ELSE "files"
             status == IF LeavesNow # {} \/ request.kind = "epub" THEN None
                       ELSE IF request.kind = "pdf" THEN 500 ELSE 200
  <2>4. /\ request'.left = LeavesNow /\ request'.step = step /\ request'.status = status
        /\ UNCHANGED <<request.kind, request.torn, request.catalog, request.leaves,
                       request.got, DOMAIN request>>
    <3>1. request' = [request EXCEPT !.left = LeavesNow, !.step = step, !.status = status]
      BY <2>3 DEF Loaded
    <3> HIDE DEF step, status
    <3> QED BY <1>1, <3>1 DEF DocumentInv, DocumentFields
  <2>5. LeavesNow # {} \/ request.kind = "epub" => Pending'
    BY <1>1, <2>1, <2>2, <2>4 DEF Pending, GotOf, Shelved, catalogs, Documents
  <2>6. LeavesNow = {} /\ request.kind \notin {"epub", "pdf"} => Complete'
    BY <2>1, <2>2, <2>4 DEF Complete, GotOf
  <2>7. request'.torn \in BOOLEAN
    BY <1>1, <2>4 DEF DocumentInv
  <2> QED BY <1>1, <2>1, <2>4, <2>5, <2>6, <2>7 DEF DocumentInv, DocumentFields, Documents
<1>4. CASE LoadClass
  <2>1. request.kind = "epub" /\ request.got = {}
        /\ (~request.torn => request.left = DOMAIN request.leaves)
    BY <1>1, <1>4 DEF LoadClass, Reading, Pending
  <2>2. CASE request' = [request EXCEPT !.step = "files"] /\ request.left # {}
    BY <1>1, <2>1, <2>2 DEF DocumentInv, DocumentFields, Pending, GotOf, Documents, Shelved,
       catalogs
  <2>3. CASE request' = [request EXCEPT !.status = 500]
    BY <1>1, <2>3 DEF DocumentInv, DocumentFields, Documents
  <2> QED BY <1>4, <2>2, <2>3 DEF LoadClass, Answer
<1>5. CASE ReadFails
  <2>1. request' = [request EXCEPT !.status = 500]
    BY <1>5 DEF ReadFails, Answer
  <2> QED BY <1>1, <2>1 DEF DocumentInv, DocumentFields, Documents
<1>6. CASE ReadFile \/ ReadForeign
  <2>1. PICK k, content :
          /\ k \in request.left /\ request' = Got(k, content)
          /\ ~request.torn \/ request.kind = "file" =>
               k \in DOMAIN request.leaves /\ content = request.leaves[k]
    BY <1>6 DEF ReadFile, ReadForeign
  <2>2. request.step = "files"
    BY <1>6 DEF ReadFile, ReadForeign, Reading
  <2>3. /\ request'.status = (IF request.left = {k} THEN 200 ELSE None)
        /\ request'.left = request.left \ {k}
        /\ request'.got = request.got \cup {<<k, content>>}
        /\ UNCHANGED <<request.kind, request.torn, request.step, request.catalog,
                       request.leaves, DOMAIN request>>
    <3> DEFINE status == IF request.left = {k} THEN 200 ELSE None
    <3>1. request' = [request EXCEPT !.got = request.got \cup {<<k, content>>},
                                     !.left = request.left \ {k}, !.status = status]
      BY <2>1 DEF Got
    <3> HIDE DEF status
    <3>2. /\ request'.status = status
          /\ request'.left = request.left \ {k}
          /\ request'.got = request.got \cup {<<k, content>>}
          /\ UNCHANGED <<request.kind, request.torn, request.step, request.catalog,
                         request.leaves, DOMAIN request>>
      BY <1>1, <3>1 DEF DocumentInv, DocumentFields
    <3> QED BY <3>2 DEF status
  <2>4. ~request.torn \/ request.kind = "file" =>
          request'.got = GotOf(DOMAIN request.leaves \ (request.left \ {k}))
    BY <1>1, <2>1, <2>2, <2>3 DEF Pending, GotOf
  <2>5. CASE request.left = {k}
    <3>1. Complete'
      <4>1. DOMAIN request.leaves \ (request.left \ {k}) = DOMAIN request.leaves
        BY <2>5
      <4>2. ~request.torn \/ request.kind = "file" =>
              request'.got = GotOf(DOMAIN request.leaves)
        BY <2>4, <4>1
      <4>3. <<k, content>> \in request'.got
        BY <2>3
      <4>4. UNCHANGED <<request.torn, request.kind, request.leaves>>
        BY <2>3
      <4> QED BY <4>2, <4>3, <4>4 DEF Complete, GotOf
    <3> QED BY <1>1, <2>3, <2>5, <3>1 DEF DocumentInv, DocumentFields, Documents
  <2>6. CASE request.left # {k}
    <3>1. Pending'
      BY <1>1, <2>1, <2>2, <2>3, <2>4, <2>6 DEF Pending, GotOf, Shelved, catalogs
    <3> QED BY <1>1, <2>3, <2>6, <3>1 DEF DocumentInv, DocumentFields, Documents
  <2> QED BY <2>5, <2>6
<1> QED BY <1>3, <1>4, <1>5, <1>6

LEMMA ListKeeps ==
  ASSUME ReadsAssumption, IInv, UNCHANGED catalogs,
         \/ \E f : AskFeed(f)
         \/ LoadProviders \/ BuildEntry
         \/ \E q : AskWalk(q)
         \/ CountTotal \/ TurnPage \/ Received
  PROVE  RequestInv'
<1> USE DEF RequestInv, Documents, ReadsAssumption
<1>1. CASE \E f : AskFeed(f)
  BY <1>1 DEF AskFeed
<1>2. CASE LoadProviders
  BY <1>2 DEF LoadProviders, Feeding, IInv
<1>3. CASE BuildEntry
  <2>1. request # None /\ request.kind = "feed" /\ "kind" \in DOMAIN request
    BY <1>3 DEF BuildEntry, Feeding, IInv
  <2>2. CASE request' = [request EXCEPT !.status = 500]
    BY <2>1, <2>2
  <2>3. CASE \E shown : request' = NextEntry(shown)
    <3> DEFINE status == IF Len(request.todo) = 1 THEN 200 ELSE None
               todo == Tail(request.todo)
    <3>1. PICK shown :
            request' = [request EXCEPT !.shown = shown, !.todo = todo, !.status = status]
      BY <2>3 DEF NextEntry
    <3> HIDE DEF status, todo
    <3> QED BY <2>1, <3>1
  <2> QED BY <1>3, <2>2, <2>3 DEF BuildEntry, Answer
<1>4. CASE \E q : AskWalk(q)
  BY <1>4 DEF AskWalk
<1>5. CASE CountTotal
  BY <1>5 DEF CountTotal, Walking, IInv
<1>6. CASE TurnPage
  <2>1. request # None /\ request.kind = "walk" /\ "kind" \in DOMAIN request
    BY <1>6 DEF TurnPage, Walking, IInv
  <2>2. PICK seen, page, late, status :
          request' = [request EXCEPT !.seen = seen, !.page = page, !.total = None,
                                     !.late = late, !.status = status]
    BY <1>6, Zenon DEF TurnPage
  <2> QED BY <2>1, <2>2
<1>7. CASE Received
  BY <1>7 DEF Received
<1> QED BY <1>1, <1>2, <1>3, <1>4, <1>5, <1>6, <1>7

LEMMA GetKeeps ==
  ASSUME ReadsAssumption, IInv, Get \/ Received
  PROVE  IInv'
<1>1. UNCHANGED catalogs
  BY DEF Get, Received, AskCatalog, AskPage, AskLatest, AskLatestPage, LoadPages, LoadClass,
     ReadFile, ReadFails, ReadForeign, AskFeed, LoadProviders, BuildEntry, AskWalk, CountTotal,
     TurnPage
<1>2. WindowInv'
  BY <1>1 DEF IInv, WindowInv, Shelved, catalogs
<1>3. RequestInv'
  BY <1>1, AskKeeps, ReadKeeps, ListKeeps DEF Get, AskLatest, AskLatestPage
<1> QED BY <1>2, <1>3 DEF IInv

-----------------------------------------------------------------------------
\* Changes of the catalogs.

\* The shelf changes only where it was empty.
LEMMA AdditionKeeps ==
  ASSUME ReadsAssumption, IInv, UNCHANGED request,
         \A c \in Shelved : c \in Shelved' /\ shelf'[c] = shelf[c]
  PROVE  RequestInv'
<1>1. CASE request # None /\ request.kind \in Documents /\ request.status # 404
  <2>1. DocumentInv
    BY <1>1 DEF IInv, RequestInv
  <2>2. Pending => Pending'
    BY DEF Pending, GotOf
  <2>3. Complete => Complete'
    BY DEF Complete, GotOf
  <2> QED BY <1>1, <2>1, <2>2, <2>3 DEF IInv, RequestInv, DocumentInv, Documents
<1>2. CASE ~(request # None /\ request.kind \in Documents /\ request.status # 404)
  BY <1>2 DEF IInv, RequestInv
<1> QED BY <1>1, <1>2

\* What is taken away tears the requests that are about it.
LEMMA RemovalKeeps ==
  ASSUME ReadsAssumption, IInv,
         NEW gone, NEW leaving,
         request' = Without(gone, leaving)
  PROVE  RequestInv'
<1> USE DEF ReadsAssumption
<1>1. CASE ~Answered(None)
  <2>1. UNCHANGED request
    BY <1>1 DEF Without
  <2> QED BY <1>1, <2>1 DEF IInv, RequestInv, DocumentInv, DocumentFields, Complete, GotOf,
              Answered
<1>2. CASE Answered(None) /\ request.kind = "feed"
  BY <1>2 DEF Without, Answered, IInv, RequestInv, Documents
<1>3. CASE Answered(None) /\ request.kind = "walk"
  <2> DEFINE torn == request.torn \/ (leaving # {} /\ gone \cap OnList(request.of) # {})
  <2>1. request' = [request EXCEPT !.torn = torn, !.stay = request.stay \ gone]
    BY <1>3 DEF Without
  <2>2. request # None /\ "kind" \in DOMAIN request
    BY <1>3 DEF Answered, IInv, RequestInv
  <2> HIDE DEF torn
  <2>3. request'.kind = "walk" /\ "kind" \in DOMAIN request'
    BY <1>3, <2>1, <2>2
  <2> QED BY <2>3 DEF RequestInv, Documents
<1>4. CASE Answered(None) /\ request.kind \in Documents
  <2>1. DocumentInv /\ Pending
    BY <1>4 DEF Answered, IInv, RequestInv, DocumentInv
  <2>2. request' = [request EXCEPT !.torn = @ \/ shelf'[request.catalog] # shelf[request.catalog]]
    BY <1>4 DEF Without, Documents
  <2>3. /\ request'.torn = (request.torn \/ shelf'[request.catalog] # shelf[request.catalog])
        /\ UNCHANGED <<request.kind, request.status, request.step, request.catalog,
                       request.leaves, request.left, request.got, DOMAIN request>>
    BY <2>1, <2>2 DEF DocumentInv, DocumentFields
  <2>4. request.torn \in BOOLEAN
    BY <2>1 DEF DocumentInv
  <2>5. ~request'.torn => request'.catalog \in Shelved' /\
          (request'.kind # "file" => request'.leaves = shelf'[request'.catalog].leaves)
    <3> SUFFICES ASSUME ~request'.torn
                 PROVE  request'.catalog \in Shelved' /\
                   (request'.kind # "file" => request'.leaves = shelf'[request'.catalog].leaves)
      OBVIOUS
    <3>1. ~request.torn /\ shelf'[request.catalog] = shelf[request.catalog]
      BY <2>3, <2>4
    <3>2. /\ request.catalog \in Shelved
          /\ request.kind # "file" => request.leaves = shelf[request.catalog].leaves
      BY <2>1, <3>1 DEF Pending
    <3>3. request.catalog \in Shelved' /\ shelf'[request.catalog] = shelf[request.catalog]
      BY <3>1, <3>2 DEF Shelved
    <3>4. /\ request'.catalog = request.catalog /\ request'.kind = request.kind
          /\ request'.leaves = request.leaves
      BY <2>3
    <3>5. request'.catalog \in Shelved'
      BY <3>3, <3>4
    <3>6. shelf'[request'.catalog] = shelf[request.catalog]
      BY <3>3, <3>4
    <3> QED BY <3>2, <3>4, <3>5, <3>6
  <2>6. Pending'
    BY <2>1, <2>3, <2>4, <2>5 DEF Pending, GotOf
  <2>7. request'.torn \in BOOLEAN
    BY <2>3, <2>4
  <2> QED BY <1>4, <2>1, <2>3, <2>6, <2>7 DEF RequestInv, DocumentInv, DocumentFields,
             Documents, Answered
<1> QED BY <1>1, <1>2, <1>3, <1>4 DEF Answered, IInv, RequestInv

LEMMA RemoveKeeps ==
  ASSUME ReadsAssumption, IInv,
         NEW gone, NEW leaving, Remove(gone, leaving),
         shelf' = [c \in CatalogId |-> shelf'[c]], Shelved' \subseteq Shelved \ gone
  PROVE  IInv'
<1>1. RequestInv'
  BY RemovalKeeps DEF Remove
<1>2. \A c \in Shelved' : c \in CatalogId /\ window'[c] = window[c]
  BY DEF Remove, Shelved
<1>3. WindowInv'
  BY <1>2 DEF IInv, WindowInv, Remove
<1> QED BY <1>1, <1>3 DEF IInv

\* The catalogs that go with a provider are those that are not on the shelf any more.
LEMMA UnregisterTakes ==
  ASSUME NEW p, Unregister(p)
  PROVE  /\ shelf' = [c \in CatalogId |-> shelf'[c]]
         /\ Shelved' \subseteq Shelved \ (Shelved \ Shelved')
<1> DEFINE Less(c, lost) ==
      [k \in {n \in DOMAIN shelf[c].leaves : <<c, n>> \notin lost} |-> shelf[c].leaves[k]]
    Rest(taken, lost) ==
      [c \in CatalogId |->
         IF c \in Shelved \ taken THEN [shelf[c] EXCEPT !.leaves = Less(c, lost)] ELSE None]
<1> HIDE DEF Less
<1>0. \E taken \in SUBSET Shelved :
        \E lost \in SUBSET ((Shelved \ taken) \X (0 .. MaxPages - 1)) :
          shelf' = Rest(taken, lost)
  BY Zenon DEF Unregister, Less
<1>1. PICK taken \in SUBSET Shelved : \E lost : shelf' = Rest(taken, lost)
  BY <1>0
<1>l. PICK lost : shelf' = Rest(taken, lost)
  BY <1>1
<1>2. shelf' = [c \in CatalogId |-> shelf'[c]]
  BY <1>l
<1>3. \A c \in CatalogId : c \notin Shelved \ taken => shelf'[c] = None
  BY <1>l
<1>4. Shelved' \subseteq Shelved
  BY <1>3 DEF Shelved
<1> QED BY <1>2, <1>4

LEMMA ChangeKeeps ==
  ASSUME ReadsAssumption, IInv, Change
  PROVE  IInv'
<1> USE DEF ReadsAssumption
<1>1. ASSUME NEW p \in ProviderId, RegisterProvider(p) PROVE IInv'
  BY <1>1, AdditionKeeps DEF RegisterProvider, Register, IInv, WindowInv, Shelved
<1>2. ASSUME NEW p \in ProviderId, UnregisterProvider(p) PROVE IInv'
  <2> QED BY <1>2, UnregisterTakes, RemoveKeeps DEF UnregisterProvider
<1>3. ASSUME NEW c \in CatalogId, NEW p \in ProviderId, NEW leaves \in Whole,
             NEW w \in Windows, PublishCatalog(c, p, leaves, w)
      PROVE  IInv'
  <2>1. /\ shelf[c] = None
        /\ shelf' = [shelf EXCEPT ![c] = [provider |-> p, leaves |-> leaves]]
        /\ window' = [window EXCEPT ![c] = w]
        /\ UNCHANGED now
    BY <1>3 DEF PublishCatalog, Publish
  <2>2. \A d \in Shelved : d \in Shelved' /\ shelf'[d] = shelf[d]
    BY <2>1 DEF IInv, WindowInv, Shelved
  <2>3. RequestInv'
    <3>1. CASE UNCHANGED request
      BY <2>2, <3>1, AdditionKeeps
    <3>2. CASE /\ Answered(None) /\ request.kind = "walk"
               /\ request' = [request EXCEPT !.late = @ \/ request.total # None]
      <4>1. request # None /\ "kind" \in DOMAIN request
        BY <3>2 DEF Answered, IInv, RequestInv
      <4> QED BY <3>2, <4>1 DEF RequestInv, Documents
    <3> QED BY <1>3, <3>1, <3>2 DEF PublishCatalog
  <2>4. WindowInv'
    <3>1. shelf' = [d \in CatalogId |-> IF d = c THEN [provider |-> p, leaves |-> leaves]
                                        ELSE shelf[d]]
      BY <2>1, ShelfExcept DEF IInv, WindowInv
    <3>5. window' = [d \in CatalogId |-> IF d = c THEN w ELSE window[d]]
      BY <2>1, ShelfExcept DEF IInv, WindowInv
    <3>2. \A d \in Shelved' : window'[d] \in Windows
      BY <3>1, <3>5 DEF IInv, WindowInv, Shelved
    <3>3. /\ shelf' = [d \in CatalogId |-> shelf'[d]]
          /\ window' = [d \in CatalogId |-> window'[d]]
      BY <3>1, <3>5
    <3>4. now' \in Nat
      BY <2>1 DEF IInv, WindowInv
    <3> QED BY <3>2, <3>3, <3>4 DEF WindowInv
  <2> QED BY <2>3, <2>4 DEF IInv
<1>4. ASSUME NEW c \in CatalogId, AgeCatalog(c) PROVE IInv'
  <2>1. UNCHANGED <<shelf, window, now>>
    BY <1>4 DEF AgeCatalog, Age
  <2>2. CASE UNCHANGED request
    BY <2>1, <2>2, AdditionKeeps DEF IInv, WindowInv, Shelved
  <2>3. CASE /\ Answered(None) /\ request.kind = "walk"
             /\ request' = [request EXCEPT !.stay = @ \ {c}]
    <3>1. request # None /\ "kind" \in DOMAIN request
      BY <2>3 DEF Answered, IInv, RequestInv
    <3>2. RequestInv'
      BY <2>3, <3>1 DEF RequestInv, Documents
    <3> QED BY <2>1, <3>2 DEF IInv, WindowInv, Shelved
  <2> QED BY <1>4, <2>2, <2>3 DEF AgeCatalog
<1>5. ASSUME NEW c \in CatalogId, WithdrawCatalog(c) PROVE IInv'
  <2>1. shelf' = [d \in CatalogId |-> IF d = c THEN None ELSE shelf[d]]
    BY <1>5, ShelfExcept DEF WithdrawCatalog, Withdraw, IInv, WindowInv
  <2>2. shelf' = [d \in CatalogId |-> shelf'[d]] /\ Shelved' \subseteq Shelved \ {c}
    BY <2>1 DEF Shelved
  <2> QED BY <1>5, <2>2, RemoveKeeps DEF WithdrawCatalog
<1>6. CASE Tick
  BY <1>6, AdditionKeeps DEF Tick, IInv, WindowInv, Shelved
<1>7. CASE Restart
  BY <1>7 DEF Restart, IInv, WindowInv, RequestInv, Shelved
<1> QED BY <1>1, <1>2, <1>3, <1>4, <1>5, <1>6, <1>7 DEF Change

-----------------------------------------------------------------------------

LEMMA ReadsInitHolds ==
  ASSUME ReadsAssumption, ReadsInit
  PROVE  IInv
  BY DEF ReadsInit, Init, IInv, WindowInv, RequestInv, Shelved

LEMMA ReadsInvariant == ReadsSpec => []IInv
<1>1. ReadsInit => IInv
  BY ReadsAssumption, ReadsInitHolds
<1>2. IInv /\ [ReadsNext]_readVars => IInv'
  <2> SUFFICES ASSUME IInv, [ReadsNext]_readVars PROVE IInv'
    OBVIOUS
  <2>1. CASE Get \/ Received
    BY <2>1, GetKeeps, ReadsAssumption
  <2>2. CASE Change
    BY <2>2, ChangeKeeps, ReadsAssumption
  <2>3. CASE UNCHANGED readVars
    <3>1. UNCHANGED <<shelf, window, now, request>>
      BY <2>3 DEF readVars
    <3>2. RequestInv'
      BY <3>1, AdditionKeeps, ReadsAssumption DEF Shelved
    <3> QED BY <3>1, <3>2 DEF IInv, WindowInv, Shelved
  <2> QED BY <2>1, <2>2, <2>3 DEF ReadsNext
<1> QED BY <1>1, <1>2, PTL DEF ReadsSpec

\* A document answered with 200 has every page of its catalog, each with its own content,
\* unless the catalog was removed meanwhile; the file of a page has its content even then.
THEOREM ReadsAlwaysWhole == ReadsSpec => []ReadsAreWhole
<1>1. IInv => ReadsAreWhole
  BY ReadsAssumption DEF IInv, RequestInv, DocumentInv, Complete, GotOf, ReadsAreWhole,
     Answered, Documents
<1> QED BY <1>1, ReadsInvariant, PTL

\* The lists by time place every catalog, at every moment, as ListsPlace says.
THEOREM ListsAlwaysPlace == ReadsSpec => []ListsPlace
<1>1. ASSUME IInv PROVE ListsPlace
  <2> SUFFICES ASSUME NEW c \in Shelved
               PROVE  /\ c \notin ListOutdated \cap (ListPreviews \cup ListCurrent)
                      /\ now \notin {window[c].since, window[c].until} =>
                           /\ c \in ListPreviews <=> now < window[c].since
                           /\ c \in ListCurrent <=> window[c].since < now /\ now < window[c].until
                           /\ c \in ListOutdated <=> window[c].until < now
    BY DEF ListsPlace
  <2>1. /\ window[c].since \in Nat /\ window[c].until \in Nat /\ now \in Nat
        /\ window[c].since < window[c].until
    BY <1>1, ReadsAssumption DEF ReadsAssumption, IInv, WindowInv
  <2>2. /\ c \in ListPreviews <=> window[c].since >= now
        /\ c \in ListCurrent <=> window[c].since <= now /\ window[c].until > now
        /\ c \in ListOutdated <=> window[c].until < now
    BY DEF ListPreviews, ListCurrent, ListOutdated
  <2> QED BY <2>1, <2>2
<1> QED BY <1>1, ReadsInvariant, PTL

-----------------------------------------------------------------------------
\* The catalogs, without a look at the request under way.

CatalogsOK ==
  /\ registered \subseteq ProviderId /\ classes \subseteq ProviderId
  /\ shelf \in [CatalogId -> {None} \cup [provider : registered, leaves : Leaves]]
  /\ window \in [CatalogId -> {None} \cup Windows]
  /\ {c \in CatalogId : window[c] # None} = Shelved
  /\ old \subseteq Shelved
  /\ now \in 0 .. MaxNow

\* Creation is a strict order of the catalogs, whose oldest are the old ones.
NewerOK ==
  /\ newer \subseteq Shelved \X Shelved
  /\ \A c, d \in Shelved : c # d => (Newer(c, d) <=> ~Newer(d, c))
  /\ \A c, d, e \in Shelved : Newer(c, d) /\ Newer(d, e) => Newer(c, e)
  /\ \A c \in Shelved : ~Newer(c, c)
  /\ \A c \in old, d \in Shelved : Newer(c, d) => d \in old

LEMMA ShelvedFinite ==
  ASSUME NEW S \in SUBSET Shelved
  PROVE  IsFiniteSet(S) /\ Cardinality(S) \in Nat /\ Cardinality(S) <= Cardinality(CatalogId)
<1>1. S \subseteq CatalogId /\ IsFiniteSet(CatalogId)
  BY ReadsAssumption DEF ReadsAssumption, Shelved
<1> QED BY <1>1, FS_Subset, FS_CardinalityType

\* The places in a list are numbers from one to its length, ...
LEMMA RankType ==
  ASSUME NEW S \in SUBSET Shelved, NEW c \in S
  PROVE  Rank(S, c) \in 1 .. Cardinality(S)
<1> DEFINE upto == {d \in S : d = c \/ Newer(d, c)}
<1>1. IsFiniteSet(S) /\ Cardinality(S) \in Nat
  BY ShelvedFinite
<1>2. upto \in SUBSET S /\ c \in upto
  OBVIOUS
<1> HIDE DEF upto
<1>3. IsFiniteSet(upto) /\ Cardinality(upto) <= Cardinality(S)
  BY <1>1, <1>2, FS_Subset
<1>4. Cardinality(upto) \in Nat /\ Cardinality(upto) # 0
  BY <1>2, <1>3, FS_CardinalityType, FS_EmptySet
<1> QED BY <1>1, <1>3, <1>4 DEF Rank, upto

\* ... higher for the older of two catalogs, ...
LEMMA RankOrder ==
  ASSUME NewerOK, NEW S \in SUBSET Shelved, NEW c \in S, NEW d \in S, Newer(c, d)
  PROVE  Rank(S, c) < Rank(S, d)
<1> DEFINE before == {e \in S : e = c \/ Newer(e, c)}
           upto == {e \in S : e = d \/ Newer(e, d)}
<1>1. before \in SUBSET upto
  BY DEF NewerOK
<1>2. d \in upto /\ d \notin before
  BY DEF NewerOK
<1>3. IsFiniteSet(S) /\ upto \in SUBSET S
  BY ShelvedFinite
<1>4. Rank(S, c) = Cardinality(before) /\ Rank(S, d) = Cardinality(upto)
  BY DEF Rank
<1> HIDE DEF before, upto
<1>5. IsFiniteSet(upto) /\ IsFiniteSet(before)
  BY <1>1, <1>3, FS_Subset
<1>6. Cardinality(before) <= Cardinality(upto) /\ Cardinality(before) # Cardinality(upto)
  BY <1>1, <1>2, <1>5, FS_Subset
<1>7. Cardinality(before) \in Nat /\ Cardinality(upto) \in Nat
  BY <1>5, FS_CardinalityType
<1> QED BY <1>4, <1>6, <1>7

\* ... and each is the place of one catalog.
LEMMA RankOnto ==
  ASSUME NewerOK, NEW S \in SUBSET Shelved
  PROVE  /\ \A i \in 1 .. Cardinality(S) : \E c \in S : Rank(S, c) = i
         /\ \A c, d \in S : Rank(S, c) = Rank(S, d) => c = d
<1> DEFINE n == Cardinality(S)
           f == [c \in S |-> Rank(S, c)]
<1>1. n \in Nat
  BY ShelvedFinite
<1>2. ASSUME NEW c \in S, NEW d \in S, Rank(S, c) = Rank(S, d) PROVE c = d
  <2>1. Rank(S, c) \in Nat
    BY <1>1, RankType
  <2>2. ~Newer(c, d) /\ ~Newer(d, c)
    BY <1>2, <2>1, RankOrder
  <2> QED BY <2>2 DEF NewerOK
<1>3. f \in [S -> 1 .. n]
  BY RankType
<1>4. f \in Injection(S, 1 .. n)
  BY <1>2, <1>3 DEF Injection, IsInjective
<1>5. IsFiniteSet(1 .. n) /\ Cardinality(1 .. n) = n
  BY <1>1, FS_Interval
<1>6. f \in Surjection(S, 1 .. n)
  <2> HIDE DEF f
  <2> QED BY <1>4, <1>5, FS_Injection
<1> QED BY <1>2, <1>6 DEF Surjection

\* A list holds each catalog at its place.
LEMMA ListOf ==
  ASSUME NewerOK, NEW S \in SUBSET Shelved
  PROVE  /\ NewestFirst(S) \in Seq(S)
         /\ DOMAIN NewestFirst(S) = 1 .. Cardinality(S)
         /\ Len(NewestFirst(S)) = Cardinality(S)
         /\ \A c \in S : Rank(S, c) \in DOMAIN NewestFirst(S) /\ NewestFirst(S)[Rank(S, c)] = c
         /\ \A i \in DOMAIN NewestFirst(S) :
              NewestFirst(S)[i] \in S /\ Rank(S, NewestFirst(S)[i]) = i
<1> DEFINE n == Cardinality(S)
           list == [i \in 1 .. n |-> CHOOSE c \in S : Rank(S, c) = i]
<1>1. n \in Nat /\ NewestFirst(S) = list
  BY ShelvedFinite DEF NewestFirst
<1>2. \A i \in 1 .. n : list[i] \in S /\ Rank(S, list[i]) = i
  BY RankOnto
<1>3. list \in [1 .. n -> S] /\ DOMAIN list = 1 .. n
  BY <1>2
<1> HIDE DEF list
<1>4. list \in Seq(S) /\ Len(list) = n
  BY <1>1, <1>3
<1>5. \A c \in S : Rank(S, c) \in 1 .. n /\ list[Rank(S, c)] = c
  BY <1>2, RankType, RankOnto
<1> QED BY <1>1, <1>2, <1>3, <1>4, <1>5

\* The first of a list is newer than the others.
LEMMA RankOne ==
  ASSUME NewerOK, NEW S \in SUBSET Shelved, NEW c \in S
  PROVE  Rank(S, c) = 1 <=> \A d \in S \ {c} : Newer(c, d)
<1> DEFINE upto == {d \in S : d = c \/ Newer(d, c)}
<1>1. IsFiniteSet(upto) /\ Rank(S, c) = Cardinality(upto)
  BY ShelvedFinite, FS_Subset DEF Rank
<1>2. Cardinality(upto) = 1 <=> \E d : upto = {d}
  <2> HIDE DEF upto
  <2> QED BY <1>1, FS_Singleton
<1>3. (\E d : upto = {d}) <=> \A d \in S \ {c} : ~Newer(d, c)
  <2>1. c \in upto
    OBVIOUS
  <2>2. (\E d : upto = {d}) <=> \A d \in upto : d = c
    BY <2>1
  <2> QED BY <2>2 DEF NewerOK
<1> QED BY <1>1, <1>2, <1>3 DEF NewerOK

LEMMA CatalogsStart == ReadsInit => CatalogsOK /\ NewerOK
BY ReadsAssumption DEF ReadsAssumption, ReadsInit, Init, CatalogsOK, NewerOK, Shelved

\* A catalog on the shelf belongs to a registered provider.
LEMMA ShelvedHas ==
  ASSUME CatalogsOK, NEW c \in Shelved
  PROVE  /\ c \in CatalogId /\ shelf[c] \in [provider : registered, leaves : Leaves]
         /\ ProviderOf(c) \in registered /\ ProviderOf(c) \in ProviderId
         /\ DOMAIN shelf[c].leaves \subseteq 0 .. MaxPages - 1
<1>1. c \in CatalogId /\ shelf[c] \in [provider : registered, leaves : Leaves]
  BY DEF CatalogsOK, Shelved
<1>2. PICK S \in SUBSET (0 .. MaxPages - 1) : shelf[c].leaves \in [S -> Content]
  BY <1>1 DEF Leaves
<1>3. DOMAIN shelf[c].leaves \subseteq 0 .. MaxPages - 1
  BY <1>2
<1> QED BY <1>1, <1>3 DEF CatalogsOK, ProviderOf

\* Whole catalogs are what a fetch publishes, parts of them what deletes may leave.
LEMMA WholeIsLeaves == Whole \subseteq Leaves
<1> SUFFICES ASSUME NEW n \in 1 .. MaxPages, NEW f \in [0 .. n - 1 -> Content] PROVE f \in Leaves
  BY DEF Whole
<1>1. 0 .. n - 1 \in SUBSET (0 .. MaxPages - 1)
  BY ReadsAssumption DEF ReadsAssumption
<1> QED BY <1>1 DEF Leaves

LEMMA LessIsLeaves ==
  ASSUME NEW f \in Leaves, NEW T
  PROVE  [k \in {n \in DOMAIN f : n \notin T} |-> f[k]] \in Leaves
<1>1. PICK S \in SUBSET (0 .. MaxPages - 1) : f \in [S -> Content]
  BY DEF Leaves
<1> DEFINE R == {n \in DOMAIN f : n \notin T}
<1>2. R \in SUBSET (0 .. MaxPages - 1) /\ \A k \in R : f[k] \in Content
  BY <1>1
<1>3. [k \in R |-> f[k]] \in [R -> Content]
  BY <1>2
<1> HIDE DEF R
<1>4. [k \in R |-> f[k]] \in Leaves
  BY <1>2, <1>3 DEF Leaves
<1> QED BY <1>4 DEF R

\* What stays when a provider leaves stays with its own provider, if with fewer pages.
LEMMA UnregisterLeaves ==
  ASSUME CatalogsOK, NEW p, Unregister(p)
  PROVE  /\ registered' = registered \ {p} /\ old' = old \ (Shelved \ Shelved')
         /\ \A c \in Shelved' :
              /\ c \in Shelved /\ ProviderOf(c)' = ProviderOf(c)
              /\ shelf'[c] \in [provider : registered', leaves : Leaves]
<1> DEFINE Less(c, lost) ==
      [k \in {n \in DOMAIN shelf[c].leaves : <<c, n>> \notin lost} |-> shelf[c].leaves[k]]
    Rest(taken, lost) ==
      [c \in CatalogId |->
         IF c \in Shelved \ taken THEN [shelf[c] EXCEPT !.leaves = Less(c, lost)] ELSE None]
<1> HIDE DEF Less
<1>0. \E taken \in SUBSET Shelved :
        /\ {c \in Shelved : shelf[c].provider = p} \subseteq taken
        /\ old' = old \ taken
        /\ \E lost \in SUBSET ((Shelved \ taken) \X (0 .. MaxPages - 1)) :
             shelf' = Rest(taken, lost)
  BY Zenon DEF Unregister, Less
<1>1. PICK taken \in SUBSET Shelved :
        /\ {c \in Shelved : shelf[c].provider = p} \subseteq taken
        /\ old' = old \ taken
        /\ \E lost : shelf' = Rest(taken, lost)
  BY <1>0
<1>l. PICK lost : shelf' = Rest(taken, lost)
  BY <1>1
<1>2. registered' = registered \ {p}
  BY DEF Unregister
<1>3. ASSUME NEW c \in Shelved \ taken
      PROVE  /\ c \in CatalogId /\ shelf'[c].provider = shelf[c].provider
             /\ shelf'[c] \in [provider : registered', leaves : Leaves]
  <2>1. /\ c \in CatalogId /\ shelf[c] \in [provider : registered, leaves : Leaves]
        /\ shelf[c].provider # p
    BY <1>1, ShelvedHas
  <2>2. Less(c, lost) \in Leaves
    <3> DEFINE T == {n \in DOMAIN shelf[c].leaves : <<c, n>> \in lost}
    <3>1. [k \in {n \in DOMAIN shelf[c].leaves : n \notin T} |-> shelf[c].leaves[k]] \in Leaves
      BY <2>1, LessIsLeaves
    <3>2. {n \in DOMAIN shelf[c].leaves : n \notin T}
            = {n \in DOMAIN shelf[c].leaves : <<c, n>> \notin lost}
      OBVIOUS
    <3> QED BY <3>1, <3>2, Zenon DEF Less
  <2>3. shelf'[c] = [shelf[c] EXCEPT !.leaves = Less(c, lost)]
    BY <1>l, <1>3, <2>1
  <2> QED BY <1>2, <2>1, <2>2, <2>3
<1>4. \A c \in CatalogId : c \notin Shelved \ taken => shelf'[c] = None
  BY <1>l
<1>5. Shelved' = Shelved \ taken
  <2>1. \A c \in Shelved \ taken : shelf'[c] # None
    <3>1. registered' \subseteq ProviderId
      BY <1>2 DEF CatalogsOK
    <3> QED BY <1>3, <3>1, ReadsAssumption DEF ReadsAssumption
  <2> QED BY <1>3, <1>4, <2>1 DEF Shelved
<1>6. taken = Shelved \ Shelved'
  BY <1>5
<1> QED BY <1>1, <1>2, <1>3, <1>5, <1>6 DEF ProviderOf

\* Catalogs and providers leave.
LEMMA RemoveCatalogs ==
  ASSUME CatalogsOK, NewerOK, NEW gone, NEW leaving, Remove(gone, leaving),
         shelf' = [c \in CatalogId |-> shelf'[c]], Shelved' = Shelved \ gone,
         \A c \in Shelved' : shelf'[c] \in [provider : registered', leaves : Leaves],
         old' = old \ gone, registered' \subseteq registered
  PROVE  CatalogsOK' /\ NewerOK'
<1> USE ReadsAssumption DEF ReadsAssumption
<1>3. shelf' \in [CatalogId -> {None} \cup [provider : registered', leaves : Leaves]]
  BY DEF Shelved
<1>4. /\ window' \in [CatalogId -> {None} \cup Windows]
      /\ {c \in CatalogId : window'[c] # None} = Shelved'
  BY DEF Remove, CatalogsOK
<1>5. CatalogsOK'
  BY <1>3, <1>4 DEF CatalogsOK, Remove
<1>6. \A c, d \in Shelved' : Newer(c, d)' <=> Newer(c, d)
  BY DEF Remove, Newer
<1>7. newer' \subseteq Shelved' \X Shelved'
  BY DEF Remove
<1>8. NewerOK'
  BY <1>6, <1>7 DEF NewerOK, CatalogsOK
<1> QED BY <1>5, <1>8

LEMMA PublishCatalogs ==
  ASSUME CatalogsOK, NewerOK, NEW c \in CatalogId, NEW p \in ProviderId, NEW leaves \in Whole,
         NEW w \in Windows, PublishCatalog(c, p, leaves, w)
  PROVE  /\ Shelved' = Shelved \cup {c} /\ c \notin Shelved
         /\ \A d \in Shelved : shelf'[d] = shelf[d]
         /\ CatalogsOK' /\ NewerOK'
<1> USE ReadsAssumption DEF ReadsAssumption
<1>1. [provider |-> p, leaves |-> leaves] \in [provider : registered, leaves : Leaves]
  BY WholeIsLeaves DEF PublishCatalog, Publish
<1>2. [provider |-> p, leaves |-> leaves] # None
  BY WholeIsLeaves
<1>3. /\ c \notin Shelved /\ Shelved' = Shelved \cup {c}
      /\ \A d \in Shelved : shelf'[d] = shelf[d]
  BY <1>2 DEF PublishCatalog, Publish, CatalogsOK, Shelved
<1>4. /\ shelf' \in [CatalogId -> {None} \cup [provider : registered', leaves : Leaves]]
      /\ window' \in [CatalogId -> {None} \cup Windows]
  BY <1>1 DEF PublishCatalog, Publish, CatalogsOK
<1>5. {d \in CatalogId : window'[d] # None} = Shelved'
  BY <1>3 DEF PublishCatalog, CatalogsOK
<1>6. CatalogsOK'
  BY <1>3, <1>4, <1>5 DEF PublishCatalog, Publish, CatalogsOK
<1>7. \A d, e : Newer(d, e)' <=> Newer(d, e) \/ (d = c /\ e \in Shelved)
  BY DEF PublishCatalog, Newer
<1>8. \A d, e : Newer(d, e) => d # c /\ e # c
  BY <1>3 DEF NewerOK, Newer
<1>9. newer' \subseteq Shelved' \X Shelved' /\ old' = old /\ c \notin old
  BY <1>3 DEF PublishCatalog, Publish, NewerOK, CatalogsOK
<1>10. NewerOK'
  BY <1>3, <1>7, <1>8, <1>9 DEF NewerOK
<1> QED BY <1>3, <1>6, <1>10

LEMMA CatalogsStep == CatalogsOK /\ NewerOK /\ [ReadsNext]_readVars => CatalogsOK' /\ NewerOK'
<1> SUFFICES ASSUME CatalogsOK, NewerOK, [ReadsNext]_readVars PROVE CatalogsOK' /\ NewerOK'
  OBVIOUS
<1> USE ReadsAssumption DEF ReadsAssumption
<1>1. CASE UNCHANGED catalogs
  BY <1>1 DEF catalogs, CatalogsOK, NewerOK, Newer, Shelved
<1>2. CASE Get \/ Received
  BY <1>1, <1>2 DEF Get, Received, AskCatalog, AskPage, AskLatest, AskLatestPage, LoadPages,
     LoadClass, ReadFile, ReadFails, ReadForeign, AskFeed, LoadProviders, BuildEntry, AskWalk,
     CountTotal, TurnPage
<1>3. ASSUME NEW p \in ProviderId, RegisterProvider(p) PROVE CatalogsOK' /\ NewerOK'
  <2>1. shelf' \in [CatalogId -> {None} \cup [provider : registered', leaves : Leaves]]
    BY <1>3 DEF RegisterProvider, Register, CatalogsOK
  <2> QED BY <1>3, <2>1 DEF RegisterProvider, Register, CatalogsOK, NewerOK, Newer, Shelved
<1>4. ASSUME NEW p \in ProviderId, UnregisterProvider(p) PROVE CatalogsOK' /\ NewerOK'
  <2>1. Unregister(p) /\ Remove(Shelved \ Shelved', {p})
    BY <1>4 DEF UnregisterProvider
  <2>2. /\ registered' = registered \ {p} /\ old' = old \ (Shelved \ Shelved')
        /\ Shelved' \subseteq Shelved
        /\ \A c \in Shelved' : shelf'[c] \in [provider : registered', leaves : Leaves]
    BY <2>1, UnregisterLeaves
  <2>3. Shelved' = Shelved \ (Shelved \ Shelved')
    BY <2>2
  <2> QED BY <2>1, <2>2, <2>3, UnregisterTakes, RemoveCatalogs
<1>5. ASSUME NEW c \in CatalogId, NEW p \in ProviderId, NEW leaves \in Whole, NEW w \in Windows,
             PublishCatalog(c, p, leaves, w)
      PROVE  CatalogsOK' /\ NewerOK'
  BY <1>5, PublishCatalogs
<1>6. ASSUME NEW c \in CatalogId, AgeCatalog(c) PROVE CatalogsOK' /\ NewerOK'
  BY <1>6 DEF AgeCatalog, Age, CatalogsOK, NewerOK, Newer, Shelved
<1>7. ASSUME NEW c \in CatalogId, WithdrawCatalog(c) PROVE CatalogsOK' /\ NewerOK'
  <2>1. shelf' = [d \in CatalogId |-> IF d = c THEN None ELSE shelf[d]]
    BY <1>7 DEF WithdrawCatalog, Withdraw, CatalogsOK
  <2>2. /\ shelf' = [d \in CatalogId |-> shelf'[d]] /\ Shelved' = Shelved \ {c}
        /\ \A d \in Shelved' : shelf'[d] = shelf[d] /\ d \in Shelved
    BY <2>1 DEF Shelved
  <2>3. \A d \in Shelved' : shelf'[d] \in [provider : registered, leaves : Leaves]
    BY <2>2, ShelvedHas
  <2> QED BY <1>7, <2>2, <2>3, RemoveCatalogs DEF WithdrawCatalog, Withdraw
<1>8. CASE Tick
  BY <1>8 DEF Tick, CatalogsOK, NewerOK, Newer, Shelved
<1>9. CASE Restart
  BY <1>9 DEF Restart, CatalogsOK, NewerOK, Newer, Shelved
<1> QED BY <1>1, <1>2, <1>3, <1>4, <1>5, <1>6, <1>7, <1>8, <1>9 DEF ReadsNext, Change, readVars, catalogs

LEMMA CatalogsHold == ReadsSpec => [](CatalogsOK /\ NewerOK)
BY CatalogsStart, CatalogsStep, PTL DEF ReadsSpec

\* The queries of the lists, written one by one for the REST API and the feeds, agree: in
\* what they show, in which catalog of a provider is the latest and in its pages.
THEOREM ListsAlwaysAgree == ReadsSpec => []ListsAgree
<1>1. ASSUME CatalogsOK, NewerOK PROVE ListsAgree
  <2>1. \A p : ShelvedOf(p) \in SUBSET Shelved
    BY DEF ShelvedOf
  <2>p. \A c \in Shelved : /\ ProviderOf(c) \in registered /\ ProviderOf(c) \in ProviderId
                           /\ c \in ShelvedOf(ProviderOf(c))
    BY <1>1, ShelvedHas DEF ShelvedOf
  <2>2. \* The latest catalog of a provider is the one whose rank is 1.
        ASSUME NEW p
        PROVE  /\ ShelvedOf(p) = {} => ProviderLatest(p) = None /\ LatestId(p) = None
               /\ ShelvedOf(p) # {} =>
                    /\ ProviderLatest(p) \in ShelvedOf(p)
                    /\ Rank(ShelvedOf(p), ProviderLatest(p)) = 1
                    /\ LatestId(p) = ProviderLatest(p)
               /\ \A c \in ShelvedOf(p) : Rank(ShelvedOf(p), c) = 1 => c = ProviderLatest(p)
    <3> DEFINE S == ShelvedOf(p)
    <3>1. CASE S = {}
      BY <3>1 DEF ProviderLatest, LatestId
    <3>2. CASE S # {}
      <4>1. IsFiniteSet(S) /\ Cardinality(S) \in Nat /\ Cardinality(S) # 0
        BY <2>1, <3>2, ShelvedFinite, FS_EmptySet
      <4>2. 1 \in DOMAIN NewestFirst(S) /\ ProviderLatest(p) = NewestFirst(S)[1]
        BY <1>1, <2>1, <3>2, <4>1, ListOf DEF ProviderLatest, ProviderCatalogs
      <4>3. ProviderLatest(p) \in S /\ Rank(S, ProviderLatest(p)) = 1
        BY <1>1, <2>1, <4>2, ListOf
      <4>4. \A c \in S : Rank(S, c) = 1 => c = ProviderLatest(p)
        BY <1>1, <2>1, <4>3, RankOnto
      <4>5. \A c \in S : (\A d \in S \ {c} : Newer(c, d)) <=> c = ProviderLatest(p)
        BY <1>1, <2>1, <4>3, <4>4, RankOne
      <4>6. LatestId(p) = ProviderLatest(p)
        BY <3>2, <4>3, <4>5 DEF LatestId
      <4> QED BY <3>2, <4>3, <4>4, <4>6
    <3> QED BY <3>1, <3>2
  <2>3. None \notin Shelved
    BY ReadsAssumption DEF ReadsAssumption, Shelved
  <2>4. ListLatest = {ProviderLatest(p) : p \in registered} \ {None}
    <3>1. ASSUME NEW c \in ListLatest PROVE c # None /\ c = ProviderLatest(ProviderOf(c))
      BY <2>2, <2>3, <2>p, <3>1 DEF ListLatest, RowNumber
    <3>2. ASSUME NEW p \in registered, ProviderLatest(p) # None PROVE ProviderLatest(p) \in ListLatest
      BY <2>2, <3>2 DEF ListLatest, RowNumber, ShelvedOf
    <3>3. \A c \in ListLatest : ProviderOf(c) \in registered
      BY <2>p DEF ListLatest
    <3> QED BY <3>1, <3>2, <3>3
  <2>5. ASSUME NEW p \in ProviderId
        PROVE  /\ LatestId(p) = ProviderLatest(p)
               /\ ProviderLatest(p) # None => LatestPages(p) = DOMAIN shelf[ProviderLatest(p)].leaves
    <3>1. LatestId(p) = ProviderLatest(p)
      BY <2>2
    <3>2. ASSUME ProviderLatest(p) # None PROVE LatestPages(p) = DOMAIN shelf[ProviderLatest(p)].leaves
      <4>1. PICK c \in Shelved : c = ProviderLatest(p)
        BY <2>1, <2>2, <3>2
      <4>2. DOMAIN shelf[c].leaves \subseteq 0 .. MaxPages - 1
        BY <1>1, ShelvedHas
      <4> QED BY <3>1, <4>1, <4>2 DEF LatestPages, CatalogPages, ListPages
    <3> QED BY <3>1, <3>2
  <2>6. FeedAll = {ListCatalogs[i] : i \in DOMAIN ListCatalogs}
    BY <1>1, ListOf DEF FeedAll, ListCatalogs
  <2>7. /\ ListPreviews = FeedPreviews /\ ListPreviews = UnionOf(ProviderPreviews)
        /\ ListCurrent = FeedCurrent /\ ListCurrent = UnionOf(ProviderCurrent)
        /\ ListOutdated = FeedOutdated /\ ListOutdated = UnionOf(ProviderOutdated)
        /\ FeedAll = UNION {FeedProvider(p) : p \in FeedProviders}
    BY <2>1, <2>p DEF ListPreviews, FeedPreviews, ProviderPreviews, ListCurrent, FeedCurrent,
       ProviderCurrent, ListOutdated, FeedOutdated, ProviderOutdated, UnionOf, FeedAll,
       FeedProvider, FeedProviders, ShelvedOf
  <2> QED BY <2>4, <2>5, <2>6, <2>7 DEF ListsAgree, ListLatest, FeedLatest
<1> QED BY <1>1, CatalogsHold, PTL

-----------------------------------------------------------------------------
\* Why a document is a 500: while its catalog stays, its provider is the catalog's and
\* registered, so that only the provider's class may be missing, or the pages.

FailInv ==
  request # None /\ request.kind \in Documents =>
    /\ request.status = 404 => request.torn = FALSE
    /\ request.status = None =>
         /\ "provider" \in DOMAIN request
         /\ ~request.torn => request.provider = ProviderOf(request.catalog)
    /\ request.status = 500 =>
         \/ request.torn \/ (request.kind = "epub" /\ request.provider \notin classes)
         \/ request.kind \in {"pdf", "epub"} /\ DOMAIN request.leaves = {}

LEMMA AskFails ==
  ASSUME UNCHANGED catalogs, NEW c,
         (\E kind \in {"json", "pdf", "epub"} : AskCatalog(kind, c)) \/ (\E k : AskPage(c, k))
  PROVE  FailInv'
<1> USE ReadsAssumption DEF ReadsAssumption
<1>1. \/ request' = NotFound(request'.kind)
      \/ \E kind, step, leaves, left :
           /\ c \in Shelved
           /\ request' = Document(kind, step, c, leaves, left)
  <2>1. ASSUME NEW kind, AskCatalog(kind, c)
        PROVE  \/ request' = NotFound(kind) /\ request'.kind = kind
               \/ c \in Shelved /\ request' = Document(kind, "pages", c, shelf[c].leaves, {})
    BY <2>1 DEF AskCatalog, NotFound
  <2>2. ASSUME NEW k, AskPage(c, k)
        PROVE  \/ request' = NotFound("file") /\ request'.kind = "file"
               \/ \E leaves : c \in Shelved /\ request' = Document("file", "files", c, leaves, {k})
    <3>1. CASE c \in Shelved /\ k \in DOMAIN shelf[c].leaves
      BY <2>2, <3>1 DEF AskPage, PageDocument
    <3>2. CASE ~(c \in Shelved /\ k \in DOMAIN shelf[c].leaves)
      BY <2>2, <3>2 DEF AskPage, PageDocument, NotFound
    <3> QED BY <3>1, <3>2
  <2> QED BY <2>1, <2>2
<1>2. CASE request' = NotFound(request'.kind)
  <2>1. request'.status = 404 /\ request'.torn = FALSE
    BY <1>2 DEF NotFound
  <2> QED BY <2>1 DEF FailInv
<1>3. ASSUME NEW kind, NEW step, NEW leaves, NEW left, c \in Shelved,
             request' = Document(kind, step, c, leaves, left)
      PROVE  FailInv'
  <2>1. /\ request'.status = None /\ "provider" \in DOMAIN request'
        /\ request'.provider = ProviderOf(c) /\ request'.catalog = c
    BY <1>3 DEF Document
  <2>2. ProviderOf(c)' = ProviderOf(c)
    BY DEF ProviderOf, catalogs
  <2> QED BY <2>1, <2>2 DEF FailInv, ProviderOf
<1> QED BY <1>1, <1>2, <1>3

LEMMA ReadFailsWhy ==
  ASSUME CatalogsOK, IInv, FailInv, UNCHANGED catalogs,
         LoadPages \/ LoadClass \/ ReadFile \/ ReadFails \/ ReadForeign
  PROVE  FailInv'
<1> USE ReadsAssumption DEF ReadsAssumption
<1>1. /\ request # None /\ request.status = None /\ request.kind \in Documents
      /\ DocumentInv /\ Pending
      /\ "provider" \in DOMAIN request
      /\ ~request.torn => request.provider = ProviderOf(request.catalog)
  BY DEF LoadPages, LoadClass, ReadFile, ReadFails, ReadForeign, Reading, Documents, IInv,
     RequestInv, DocumentInv, FailInv
<1>2. ~request.torn => /\ request.catalog \in Shelved /\ request.provider \in registered
                       /\ request.kind # "file" => LeavesNow = DOMAIN request.leaves
  <2> SUFFICES ASSUME ~request.torn
               PROVE  /\ request.catalog \in Shelved /\ request.provider \in registered
                      /\ request.kind # "file" => LeavesNow = DOMAIN request.leaves
    OBVIOUS
  <2>1. /\ request.catalog \in Shelved
        /\ request.kind # "file" => request.leaves = shelf[request.catalog].leaves
    BY <1>1 DEF Pending
  <2> QED BY <1>1, <2>1, ShelvedHas DEF LeavesNow
<1>3. \* What is left of FailInv to show when a step changes only these fields.
      ASSUME UNCHANGED <<request.kind, request.torn, request.catalog, request.provider,
                         request.leaves, DOMAIN request>>,
             request'.status \in {None, 200, 500},
             request'.status = 500 =>
               \/ request.torn \/ (request.kind = "epub" /\ request.provider \notin classes)
               \/ request.kind \in {"pdf", "epub"} /\ DOMAIN request.leaves = {}
      PROVE  FailInv'
  BY <1>1, <1>3 DEF FailInv, catalogs, ProviderOf
<1>4. CASE LoadPages
  <2> DEFINE step == IF request.kind = "epub" THEN "class" ELSE "files"
             status == IF LeavesNow # {} \/ request.kind = "epub" THEN None
                       ELSE IF request.kind = "pdf" THEN 500 ELSE 200
  <2>1. request' = [request EXCEPT !.left = LeavesNow, !.step = step, !.status = status]
    BY <1>4 DEF LoadPages, Loaded
  <2>2. status \in {None, 200, 500}
        /\ (status = 500 => request.torn \/ (request.kind = "pdf" /\ DOMAIN request.leaves = {}))
    BY <1>2
  <2> HIDE DEF status, step
  <2> QED BY <1>1, <1>3, <2>1, <2>2 DEF DocumentInv, DocumentFields
<1>5. ASSUME request' = [request EXCEPT !.status = 500],
             \/ request.torn \/ (request.kind = "epub" /\ request.provider \notin classes)
             \/ request.kind \in {"pdf", "epub"} /\ DOMAIN request.leaves = {}
      PROVE  FailInv'
  BY <1>1, <1>3, <1>5 DEF DocumentInv, DocumentFields
<1>6. CASE LoadClass
  <2>1. request.kind = "epub" /\ (~request.torn => request.left = DOMAIN request.leaves)
    BY <1>1, <1>6 DEF LoadClass, Reading, Pending
  <2>3. CASE request' = [request EXCEPT !.step = "files"]
    BY <1>1, <1>3, <2>3 DEF DocumentInv, DocumentFields
  <2>4. CASE request' = Answer(500) /\ ~(request.provider \in registered \cap classes /\ request.left # {})
    BY <1>2, <1>5, <2>1, <2>4 DEF Answer
  <2> QED BY <1>6, <2>3, <2>4 DEF LoadClass
<1>7. CASE ReadFails
  BY <1>5, <1>7 DEF ReadFails, Answer
<1>8. CASE ReadFile \/ ReadForeign
  <2>1. PICK k, content : request' = Got(k, content)
    BY <1>8 DEF ReadFile, ReadForeign
  <2> DEFINE status == IF request.left = {k} THEN 200 ELSE None
  <2>2. request' = [request EXCEPT !.got = request.got \cup {<<k, content>>},
                                   !.left = request.left \ {k}, !.status = status]
    BY <2>1 DEF Got
  <2>3. status \in {None, 200}
    OBVIOUS
  <2> HIDE DEF status
  <2> QED BY <1>1, <1>3, <2>2, <2>3 DEF DocumentInv, DocumentFields
<1> QED BY <1>4, <1>6, <1>7, <1>8

\* Additions to the catalogs, and what is removed.
LEMMA AdditionFails ==
  ASSUME IInv, FailInv, UNCHANGED <<request, classes>>,
         \A c \in Shelved : shelf'[c] = shelf[c]
  PROVE  FailInv'
<1> USE ReadsAssumption DEF ReadsAssumption
<1>1. ASSUME request # None, request.kind \in Documents, request.status = None, ~request.torn
      PROVE  ProviderOf(request.catalog)' = ProviderOf(request.catalog)
  <2>1. request.catalog \in Shelved
    BY <1>1 DEF IInv, RequestInv, DocumentInv, Pending
  <2> QED BY <2>1 DEF ProviderOf
<1> QED BY <1>1 DEF FailInv

LEMMA RemovalFails ==
  ASSUME IInv, FailInv, NEW gone, NEW leaving, request' = Without(gone, leaving),
         UNCHANGED classes
  PROVE  FailInv'
<1> USE ReadsAssumption DEF ReadsAssumption
<1>1. CASE ~Answered(None)
  BY <1>1 DEF Without, Answered, FailInv
<1>2. CASE Answered(None) /\ request.kind \notin Documents
  <2>1. request'.kind = request.kind
    <3>1. "kind" \in DOMAIN request
      BY <1>2 DEF IInv, RequestInv, Answered
    <3>2. ASSUME NEW torn, request' = [request EXCEPT !.torn = torn]
          PROVE  request'.kind = request.kind
      BY <3>1, <3>2
    <3>3. ASSUME NEW torn, NEW stay, request' = [request EXCEPT !.torn = torn, !.stay = stay]
          PROVE  request'.kind = request.kind
      BY <3>1, <3>3
    <3>4. CASE request.kind = "feed"
      BY <1>2, <3>2, <3>4 DEF Without
    <3>5. CASE request.kind = "walk"
      BY <1>2, <3>3, <3>5 DEF Without
    <3>6. CASE request.kind \notin {"feed", "walk"}
      BY <1>2, <3>2, <3>6 DEF Without
    <3> QED BY <3>4, <3>5, <3>6
  <2> QED BY <1>2, <2>1 DEF FailInv
<1>3. CASE Answered(None) /\ request.kind \in Documents
  <2>1. DocumentInv /\ Pending
    BY <1>3 DEF Answered, IInv, RequestInv, DocumentInv
  <2>2. request' = [request EXCEPT !.torn = @ \/ shelf'[request.catalog] # shelf[request.catalog]]
    BY <1>3 DEF Without, Documents
  <2>3. "provider" \in DOMAIN request
    BY <1>3 DEF FailInv, Answered
  <2>4. /\ request'.torn = (request.torn \/ shelf'[request.catalog] # shelf[request.catalog])
        /\ UNCHANGED <<request.kind, request.status, request.catalog, request.provider,
                       DOMAIN request>>
    BY <2>1, <2>2, <2>3 DEF DocumentInv, DocumentFields
  <2>5. ASSUME ~request'.torn
        PROVE  request.provider = ProviderOf(request.catalog)'
    <3>1. ~request.torn /\ shelf'[request.catalog] = shelf[request.catalog]
      BY <2>4, <2>5, <2>1 DEF DocumentInv
    <3>2. request.catalog \in Shelved /\ request.provider = ProviderOf(request.catalog)
      BY <1>3, <2>1, <3>1 DEF Pending, FailInv, Answered
    <3>4. request'.catalog = request.catalog
      BY <2>4
    <3> QED BY <3>1, <3>2, <3>4 DEF ProviderOf
  <2> QED BY <1>3, <2>3, <2>4, <2>5 DEF FailInv, Answered
<1> QED BY <1>1, <1>2, <1>3

-----------------------------------------------------------------------------
\* A feed: what is shown and what is still to do make up what was asked for, and as long
\* as no provider leaves all providers asked for are known.

Entries == CatalogId \X ProviderId
EntryLists == Seq(Entries)

FeedFields ==
  {"kind", "status", "torn", "lazy", "loaded", "known", "asked", "todo", "shown"}

FeedOK(q) ==
  /\ FeedFields \subseteq DOMAIN q
  /\ q.status \in {None, 200, 500} /\ q.torn \in BOOLEAN
  /\ q.asked \in EntryLists /\ q.todo \in EntryLists /\ q.shown \in EntryLists

SplitOf(asked, shown, todo) ==
  /\ Len(shown) + Len(todo) = Len(asked)
  /\ \A i \in 1 .. Len(shown) : shown[i] = asked[i]
  /\ \A i \in 1 .. Len(todo) : todo[i] = asked[Len(shown) + i]

FeedInv ==
  request # None /\ request.kind = "feed" =>
    /\ FeedOK(request)
    /\ request.status # 500 =>
         /\ SplitOf(request.asked, request.shown, request.todo)
         /\ \A i \in 1 .. Len(request.shown) : request.shown[i][2] \in classes
    /\ request.status = 200 => request.todo = <<>>
    /\ request.status = None =>
         /\ request.todo # <<>>
         /\ ~request.torn => /\ ProvidersAsked \subseteq registered
                             /\ request.loaded /\ ~request.lazy => ProvidersAsked \subseteq request.known
    /\ request.status = 500 => request.torn \/ ~(ProvidersAsked \subseteq classes)

LEMMA EmptyList ==
  ASSUME NEW S, NEW s \in Seq(S)
  PROVE  s = <<>> <=> Len(s) = 0
OBVIOUS

\* The next entry is the one after those shown.
LEMMA NextSplit ==
  ASSUME NEW asked \in Seq(Entries), NEW shown \in Seq(Entries), NEW todo \in Seq(Entries),
         SplitOf(asked, shown, todo), todo # <<>>
  PROVE  /\ Head(todo) \in Entries /\ Tail(todo) \in Seq(Entries)
         /\ Append(shown, Head(todo)) \in Seq(Entries)
         /\ Len(shown) + 1 \in DOMAIN asked /\ asked[Len(shown) + 1] = Head(todo)
         /\ SplitOf(asked, Append(shown, Head(todo)), Tail(todo))
         /\ Tail(todo) = <<>> <=> Len(todo) = 1
<1>1. Len(todo) \in Nat /\ Len(todo) >= 1 /\ Head(todo) = todo[1] /\ Len(shown) \in Nat
  OBVIOUS
<1>2. /\ Tail(todo) \in Seq(Entries) /\ Len(Tail(todo)) = Len(todo) - 1
      /\ \A i \in 1 .. Len(todo) - 1 : Tail(todo)[i] = todo[i + 1]
  BY <1>1
<1>3. Head(todo) \in Entries /\ Append(shown, Head(todo)) \in Seq(Entries)
  BY <1>1
<1>4. /\ Len(Append(shown, Head(todo))) = Len(shown) + 1
      /\ \A i \in 1 .. Len(shown) : Append(shown, Head(todo))[i] = shown[i]
      /\ Append(shown, Head(todo))[Len(shown) + 1] = Head(todo)
  BY <1>3
<1>5. Len(shown) + 1 \in DOMAIN asked /\ asked[Len(shown) + 1] = Head(todo)
  BY <1>1 DEF SplitOf
<1>6. \A i \in 1 .. Len(todo) - 1 : Tail(todo)[i] = asked[(Len(shown) + 1) + i]
  <2>1. \A i \in 1 .. Len(todo) - 1 : i + 1 \in 1 .. Len(todo) /\ Len(shown) + (i + 1) = (Len(shown) + 1) + i
    BY <1>1
  <2> QED BY <1>2, <2>1 DEF SplitOf
<1>7. SplitOf(asked, Append(shown, Head(todo)), Tail(todo))
  BY <1>1, <1>2, <1>4, <1>5, <1>6 DEF SplitOf
<1>8. Tail(todo) = <<>> <=> Len(todo) = 1
  <2>1. PICK rest \in Seq(Entries) : rest = Tail(todo)
    BY <1>2
  <2>2. rest = <<>> <=> Len(rest) = 0
    BY EmptyList
  <2>3. Len(rest) = Len(todo) - 1
    BY <1>2, <2>1
  <2> QED BY <1>1, <2>1, <2>2, <2>3
<1> QED BY <1>2, <1>3, <1>5, <1>7, <1>8

LEMMA AskFeedKeeps ==
  ASSUME CatalogsOK, NewerOK, NEW f, AskFeed(f)
  PROVE  FeedInv'
<1> USE ReadsAssumption DEF ReadsAssumption
<1> DEFINE list == NewestFirst(Feed(f))
           entries == [i \in DOMAIN list |-> <<list[i], ProviderOf(list[i])>>]
<1>1. Feed(f) \in SUBSET Shelved
  BY DEF Feed, FeedLatest, FeedAll, FeedPreviews, FeedOutdated, FeedCurrent, FeedProvider
<1>2. /\ DOMAIN list = 1 .. Cardinality(Feed(f)) /\ Cardinality(Feed(f)) \in Nat
      /\ \A i \in DOMAIN list : list[i] \in Shelved
  BY <1>1, ListOf, ShelvedFinite
<1>3. \A i \in DOMAIN list : /\ list[i] \in CatalogId /\ ProviderOf(list[i]) \in ProviderId
                             /\ ProviderOf(list[i]) \in registered
  BY <1>2, ShelvedHas
<1>4. entries \in Seq(Entries) /\ \A i \in DOMAIN entries : entries[i][2] \in registered
  BY <1>2, <1>3 DEF Entries
<1>5. request' = [kind |-> "feed", status |-> IF entries = <<>> THEN 200 ELSE None,
                  torn |-> FALSE, lazy |-> f = "latest", loaded |-> f = "latest",
                  known |-> {}, asked |-> entries, todo |-> entries, shown |-> <<>>]
  BY DEF AskFeed
<1>6. UNCHANGED <<registered, classes>>
  BY DEF AskFeed, catalogs
<1> HIDE DEF entries
<1>7. SplitOf(entries, <<>>, entries)
  BY <1>4 DEF SplitOf
<1>8. FeedOK(request')
  BY <1>4, <1>5 DEF FeedOK, FeedFields, EntryLists
<1>9. ProvidersAsked' \subseteq registered'
  BY <1>4, <1>5, <1>6 DEF ProvidersAsked
<1> QED BY <1>5, <1>7, <1>8, <1>9 DEF FeedInv

LEMMA FeedKeeps ==
  ASSUME FeedInv, LoadProviders \/ BuildEntry
  PROVE  FeedInv'
<1> USE ReadsAssumption DEF ReadsAssumption
<1>1. /\ request # None /\ request.kind = "feed" /\ request.status = None /\ FeedOK(request)
      /\ SplitOf(request.asked, request.shown, request.todo) /\ request.todo # <<>>
      /\ \A i \in 1 .. Len(request.shown) : request.shown[i][2] \in classes
      /\ ~request.torn =>
           /\ ProvidersAsked \subseteq registered
           /\ request.loaded /\ ~request.lazy => ProvidersAsked \subseteq request.known
      /\ UNCHANGED <<registered, classes>>
  BY DEF LoadProviders, BuildEntry, Feeding, FeedInv, catalogs
<1>2. CASE LoadProviders
  <2> DEFINE known == registered \cap ProvidersAsked
  <2>1. request' = [request EXCEPT !.loaded = TRUE, !.known = known]
    BY <1>2 DEF LoadProviders
  <2>2. known \in SUBSET ProviderId /\ (~request.torn => ProvidersAsked \subseteq known)
    <3>1. ProvidersAsked \subseteq ProviderId
      BY <1>1 DEF ProvidersAsked, FeedOK, Entries, EntryLists
    <3> QED BY <1>1, <3>1
  <2> HIDE DEF known
  <2>3. /\ FeedOK(request') /\ request'.kind = "feed"
        /\ request'.status = None /\ request'.known = known
        /\ UNCHANGED <<request.asked, request.shown, request.todo, request.torn, request.lazy>>
    <3>1. FeedOK(request) /\ request.kind = "feed" /\ request.status = None
      BY <1>1
    <3> QED BY <2>1, <3>1 DEF FeedOK, FeedFields
  <2>4. ProvidersAsked' = ProvidersAsked
    BY <2>3 DEF ProvidersAsked
  <2> QED BY <1>1, <2>2, <2>3, <2>4 DEF FeedInv
<1>3. CASE BuildEntry
  <2> DEFINE entry == Head(request.todo)
  <2>1. /\ entry \in Entries /\ entry[2] \in ProvidersAsked
        /\ Tail(request.todo) \in Seq(Entries) /\ Append(request.shown, entry) \in Seq(Entries)
        /\ SplitOf(request.asked, Append(request.shown, entry), Tail(request.todo))
        /\ Tail(request.todo) = <<>> <=> Len(request.todo) = 1
    <3>1. /\ request.asked \in Seq(Entries) /\ request.shown \in Seq(Entries)
          /\ request.todo \in Seq(Entries)
      BY <1>1 DEF FeedOK, FeedFields, EntryLists
    <3>2. Len(request.shown) + 1 \in DOMAIN request.asked /\ request.asked[Len(request.shown) + 1] = entry
      BY <1>1, <3>1, NextSplit
    <3>3. entry[2] \in ProvidersAsked
      BY <3>2 DEF ProvidersAsked
    <3> QED BY <1>1, <3>1, <3>3, NextSplit
  <2>2. CASE EntryBuilt
    <3> DEFINE shown == Append(request.shown, entry)
               todo == Tail(request.todo)
               status == IF Len(request.todo) = 1 THEN 200 ELSE None
    <3>1. request' = [request EXCEPT !.shown = shown, !.todo = todo, !.status = status]
      BY <1>3, <2>2 DEF BuildEntry, NextEntry
    <3>2. status \in {None, 200} /\ (status = 200 <=> todo = <<>>)
      BY <2>1
    <3>3. \A i \in 1 .. Len(shown) : shown[i][2] \in classes
      <4>1. entry[2] \in classes
        BY <2>2 DEF EntryBuilt
      <4>2. request.shown \in Seq(Entries)
        BY <1>1 DEF FeedOK, FeedFields, EntryLists
      <4>3. PICK s \in Seq(Entries), e \in Entries : s = request.shown /\ e = entry
        BY <2>1, <4>2
      <4>4. \A i \in 1 .. Len(Append(s, e)) :
              Append(s, e)[i] = IF i = Len(s) + 1 THEN e ELSE s[i]
        OBVIOUS
      <4>5. \A i \in 1 .. Len(Append(s, e)) : i # Len(s) + 1 => i \in 1 .. Len(s)
        OBVIOUS
      <4>6. \A i \in 1 .. Len(s) : s[i][2] \in classes
        BY <1>1, <4>3
      <4>7. e[2] \in classes
        BY <4>1, <4>3
      <4>8. \A i \in 1 .. Len(Append(s, e)) : Append(s, e)[i][2] \in classes
        BY <4>4, <4>5, <4>6, <4>7, Zenon
      <4> QED BY <4>3, <4>8
    <3>4. SplitOf(request.asked, shown, todo) /\ shown \in EntryLists /\ todo \in EntryLists
      BY <2>1 DEF EntryLists
    <3> HIDE DEF shown, todo, status
    <3>5. /\ FeedOK(request') /\ request'.kind = "feed"
          /\ request'.status = status /\ request'.shown = shown /\ request'.todo = todo
          /\ UNCHANGED <<request.asked, request.torn, request.lazy, request.known, request.loaded>>
      <4>1. /\ FeedOK(request) /\ status \in {None, 200, 500}
            /\ shown \in EntryLists /\ todo \in EntryLists
        BY <1>1, <3>2, <3>4
      <4> QED BY <1>1, <3>1, <4>1 DEF FeedOK, FeedFields
    <3>6. ProvidersAsked' = ProvidersAsked
      BY <3>5 DEF ProvidersAsked
    <3> QED BY <1>1, <3>2, <3>3, <3>4, <3>5, <3>6 DEF FeedInv
  <2>3. CASE ~EntryBuilt
    <3>1. request' = [request EXCEPT !.status = 500]
      BY <1>3, <2>3 DEF BuildEntry, Answer
    <3>2. /\ FeedOK(request') /\ request'.kind = "feed"
          /\ request'.status = 500 /\ UNCHANGED <<request.asked, request.torn>>
      BY <1>1, <3>1 DEF FeedOK, FeedFields
    <3>3. ProvidersAsked' = ProvidersAsked
      BY <3>2 DEF ProvidersAsked
    <3>4. request.torn \/ entry[2] \notin classes
      BY <1>1, <1>3, <2>1, <2>3 DEF EntryBuilt, BuildEntry
    <3> QED BY <1>1, <2>1, <3>2, <3>3, <3>4 DEF FeedInv
  <2> QED BY <2>2, <2>3
<1> QED BY <1>2, <1>3

LEMMA RemovalFeeds ==
  ASSUME FeedInv, IInv, NEW gone, NEW leaving, request' = Without(gone, leaving), UNCHANGED classes,
         registered \ leaving \subseteq registered'
  PROVE  FeedInv'
<1> USE ReadsAssumption DEF ReadsAssumption
<1>1. CASE ~Answered(None)
  BY <1>1 DEF Without, Answered, FeedInv, ProvidersAsked
<1>2. CASE Answered(None) /\ request.kind = "feed"
  <2> DEFINE torn == request.torn \/ ProvidersAsked \cap leaving # {}
  <2>1. request' = [request EXCEPT !.torn = torn] /\ FeedOK(request) /\ request # None
    BY <1>2 DEF Without, FeedInv, Answered
  <2>2. torn \in BOOLEAN /\ (~torn => ~request.torn /\ ProvidersAsked \cap leaving = {})
    BY <2>1 DEF FeedOK, FeedFields
  <2> HIDE DEF torn
  <2>3. /\ FeedOK(request') /\ request'.torn = torn /\ request'.kind = "feed"
        /\ UNCHANGED <<request.status, request.asked, request.shown, request.todo, request.lazy,
                       request.known, request.loaded>>
    BY <1>2, <2>1, <2>2 DEF FeedOK, FeedFields
  <2>4. ProvidersAsked' = ProvidersAsked
    BY <2>3 DEF ProvidersAsked
  <2> QED BY <1>2, <2>1, <2>2, <2>3, <2>4 DEF FeedInv, Answered
<1>3. CASE Answered(None) /\ request.kind # "feed"
  <2>1. "kind" \in DOMAIN request
    BY <1>3 DEF IInv, RequestInv, Answered
  <2>2. ASSUME NEW torn, request' = [request EXCEPT !.torn = torn] PROVE request'.kind = request.kind
    BY <2>1, <2>2
  <2>3. ASSUME NEW torn, NEW stay, request' = [request EXCEPT !.torn = torn, !.stay = stay]
        PROVE  request'.kind = request.kind
    BY <2>1, <2>3
  <2>4. request'.kind = request.kind
    <3>1. CASE request.kind = "walk"
      BY <1>3, <2>3, <3>1 DEF Without
    <3>2. CASE request.kind # "walk"
      BY <1>3, <2>2, <3>2 DEF Without
    <3> QED BY <3>1, <3>2
  <2> QED BY <1>3, <2>4 DEF FeedInv
<1> QED BY <1>1, <1>2, <1>3

-----------------------------------------------------------------------------
\* A walk: as long as it is not torn, what stays and has not been seen has its place after
\* the pages turned so far.  Additions and removals of old catalogs move no place forward.
\* And unless it is late, the list is no longer than the count says.

WalkFields == {"kind", "status", "torn", "of", "page", "total", "late", "seen", "stay"}

WalkInv ==
  request # None /\ request.kind = "walk" =>
    /\ WalkFields \subseteq DOMAIN request
    /\ request.status \in {None, 200} /\ request.torn \in BOOLEAN
    /\ request.page \in 0 .. Cardinality(CatalogId) /\ request.late \in BOOLEAN
    /\ request.total \in {None} \cup 0 .. Cardinality(CatalogId)
    /\ request.seen \subseteq CatalogId /\ request.stay \subseteq CatalogId
    /\ request.status = None =>
         /\ request.page < Cardinality(CatalogId)
         /\ request.total # None /\ ~request.late =>
              Cardinality(OnList(request.of)) <= request.total
         /\ ~request.torn =>
              /\ request.stay \subseteq OnList(request.of) \ old
              /\ \A c \in request.stay \ request.seen :
                   Rank(OnList(request.of), c) > request.page * PageSize
    /\ request.status = 200 /\ ~request.torn /\ ~request.late =>
         request.stay \subseteq request.seen

LEMMA PageTurns ==
  ASSUME NEW page \in Nat, NEW size \in Nat \ {0}
  PROVE  /\ page * size \in Nat /\ page * size >= page
         /\ (page + 1) * size = (page * size) + size
<1>1. page * size \in Nat /\ (page + 1) * size = (page * size) + size
  OBVIOUS
<1>2. page * (size - 1) \in Nat /\ page * size = (page * (size - 1)) + page
  OBVIOUS
<1> QED BY <1>1, <1>2

LEMMA WalkSets ==
  ASSUME NEW q
  PROVE  /\ OnList(q) \in SUBSET Shelved /\ OnList(q) \subseteq CatalogId
         /\ WalkList(q) = NewestFirst(OnList(q))
BY DEF OnList, WalkList, ListCatalogs, ProviderCatalogs, ShelvedOf, Shelved

LEMMA CountNotNone == \A n \in Nat : n # None
BY ReadsAssumption DEF ReadsAssumption

LEMMA CatalogsCount == Cardinality(CatalogId) \in Nat /\ Cardinality(CatalogId) > 0
BY ReadsAssumption, FS_CardinalityType, FS_EmptySet DEF ReadsAssumption

\* A place does not move forward if what was before it still is.
LEMMA RankKept ==
  ASSUME NEW S \in SUBSET Shelved, NEW T \in SUBSET CatalogId, NEW c \in S,
         \A d \in S : d = c \/ Newer(d, c) => d \in T /\ (d = c \/ Newer(d, c)')
  PROVE  Rank(S, c) \in Nat /\ Rank(S, c) <= Rank(T, c)' /\ Rank(T, c)' \in Nat
<1> DEFINE before == {d \in S : d = c \/ Newer(d, c)}
           after == {d \in T : d = c \/ Newer(d, c)'}
<1>1. IsFiniteSet(CatalogId)
  BY ReadsAssumption DEF ReadsAssumption
<1>2. after \in SUBSET CatalogId /\ before \in SUBSET after
  OBVIOUS
<1>3. Rank(S, c) = Cardinality(before) /\ Rank(T, c)' = Cardinality(after)
  BY DEF Rank
<1> HIDE DEF before, after
<1>4. IsFiniteSet(after) /\ IsFiniteSet(before) /\ Cardinality(before) <= Cardinality(after)
  BY <1>1, <1>2, FS_Subset
<1> QED BY <1>3, <1>4, FS_CardinalityType

LEMMA AskWalkKeeps ==
  ASSUME CatalogsOK, NewerOK, NEW q, AskWalk(q)
  PROVE  WalkInv'
<1> USE ReadsAssumption DEF ReadsAssumption
<1> DEFINE list == NewestFirst(OnList(q))
           stay == {list[i] : i \in DOMAIN list} \ old
<1>1. OnList(q) \in SUBSET Shelved /\ OnList(q) \subseteq CatalogId /\ WalkList(q) = list
  BY WalkSets
<1>2. stay \subseteq OnList(q) \ old
  BY <1>1, ListOf
<1>3. request' = [kind |-> "walk", status |-> None, torn |-> FALSE, of |-> q, page |-> 0,
                  total |-> None, late |-> FALSE, seen |-> {}, stay |-> stay]
  BY <1>1 DEF AskWalk
<1>4. UNCHANGED <<shelf, old, newer>>
  BY DEF AskWalk, catalogs
<1>5. \A c \in stay : Rank(OnList(q), c)' > 0
  <2>1. \A c \in OnList(q) : Rank(OnList(q), c) > 0
    BY <1>1, RankType
  <2>2. \A c : Rank(OnList(q), c)' = Rank(OnList(q), c)
    BY <1>4 DEF Rank, Newer, OnList, Shelved, ShelvedOf, ProviderOf
  <2> QED BY <1>2, <2>1, <2>2
<1>6. OnList(q)' = OnList(q)
  BY <1>4 DEF OnList, Shelved, ShelvedOf, ProviderOf
<1> HIDE DEF stay
<1>7. 0 * PageSize = 0
  OBVIOUS
<1> QED BY <1>1, <1>2, <1>3, <1>4, <1>5, <1>6, <1>7, CatalogsCount DEF WalkInv, WalkFields

LEMMA CountTotalKeeps ==
  ASSUME CatalogsOK, WalkInv, CountTotal
  PROVE  WalkInv'
<1>q. PICK q : q = request.of
  OBVIOUS
<1>t. PICK total : total = Len(WalkList(request.of))
  OBVIOUS
<1>1. /\ request # None /\ request.kind = "walk" /\ request.status = None
      /\ request' = [request EXCEPT !.total = total] /\ UNCHANGED <<shelf, old, newer>>
  BY <1>t DEF CountTotal, Walking, catalogs
<1>2. /\ total = Cardinality(OnList(q))
      /\ total \in 0 .. Cardinality(CatalogId)
  <2>1. OnList(q) \in SUBSET Shelved /\ WalkList(q) = NewestFirst(OnList(q))
    BY WalkSets
  <2>2. /\ Cardinality(OnList(q)) \in Nat
        /\ Cardinality(OnList(q)) <= Cardinality(CatalogId)
    BY <2>1, ShelvedFinite
  <2>3. Len(NewestFirst(OnList(q))) = Cardinality(OnList(q))
    BY <2>2 DEF NewestFirst
  <2> QED BY <1>q, <1>t, <2>1, <2>2, <2>3, CatalogsCount
<1>3. WalkFields \subseteq DOMAIN request
  BY <1>1 DEF WalkInv
<1>4. /\ UNCHANGED <<request.kind, request.status, request.torn, request.of, request.page,
                     request.late, request.seen, request.stay, DOMAIN request>>
      /\ request'.total = total
  BY <1>1, <1>3 DEF WalkFields
<1>5. \A c : Rank(OnList(q), c)' = Rank(OnList(q), c)
  BY <1>1 DEF Rank, Newer, OnList, Shelved, ShelvedOf, ProviderOf
<1>6. OnList(q)' = OnList(q) /\ request'.of = q
  BY <1>1, <1>q, <1>4 DEF OnList, Shelved, ShelvedOf, ProviderOf
<1>7. total # None
  BY <1>2, CountNotNone
<1>8. ~request.torn =>
        /\ request.stay \subseteq OnList(q) \ old
        /\ \A c \in request.stay \ request.seen : Rank(OnList(q), c) > request.page * PageSize
  BY <1>1, <1>q DEF WalkInv
<1> QED BY <1>1, <1>2, <1>3, <1>4, <1>5, <1>6, <1>7, <1>8 DEF WalkInv

LEMMA TurnPageKeeps ==
  ASSUME CatalogsOK, NewerOK, WalkInv, TurnPage
  PROVE  WalkInv'
<1> USE ReadsAssumption DEF ReadsAssumption
<1>q. PICK q : q = request.of
  OBVIOUS
<1> DEFINE W == OnList(q)
           list == NewestFirst(W)
           at == request.page * PageSize
           shown == {list[i] : i \in {j \in DOMAIN list : at < j /\ j <= at + PageSize}}
           seen == request.seen \cup shown
           page == request.page + 1
           last == at + PageSize >= request.total
           status == IF last THEN 200 ELSE None
           late == last /\ request.late
<1>0. /\ request # None /\ request.kind = "walk" /\ request.status = None
      /\ request.total # None
      /\ request' = [request EXCEPT !.seen = seen, !.page = page, !.total = None,
                                    !.late = late, !.status = status]
      /\ UNCHANGED <<shelf, old, newer>>
  <2>1. WalkList(request.of) = list
    BY <1>q, WalkSets
  <2>2. /\ request # None /\ request.kind = "walk" /\ request.status = None
        /\ request.total # None /\ UNCHANGED catalogs
    BY DEF TurnPage, Walking
  <2>3. request' = [request EXCEPT !.seen = seen, !.page = page, !.total = None,
                                   !.late = late, !.status = status]
    BY <2>1 DEF TurnPage, Offset
  <2> QED BY <2>2, <2>3 DEF catalogs
<1>1. /\ WalkFields \subseteq DOMAIN request /\ request.torn \in BOOLEAN
      /\ request.late \in BOOLEAN /\ request.total \in 0 .. Cardinality(CatalogId)
      /\ ~request.late => Cardinality(W) <= request.total
      /\ request.page \in Nat /\ request.page < Cardinality(CatalogId)
      /\ request.seen \subseteq CatalogId /\ request.stay \subseteq CatalogId
      /\ ~request.torn =>
           /\ request.stay \subseteq W \ old
           /\ \A c \in request.stay \ request.seen : Rank(W, c) > at
  BY <1>0, <1>q, CatalogsCount DEF WalkInv
<1>2. /\ W \in SUBSET Shelved /\ W \subseteq CatalogId /\ Cardinality(W) <= Cardinality(CatalogId)
      /\ Cardinality(W) \in Nat /\ Len(list) = Cardinality(W)
      /\ DOMAIN list = 1 .. Cardinality(W)
      /\ \A i \in DOMAIN list : list[i] \in W
      /\ \A c \in W : Rank(W, c) \in DOMAIN list /\ list[Rank(W, c)] = c
  BY WalkSets, ListOf, ShelvedFinite
<1>3. at \in Nat /\ at + PageSize >= page /\ page * PageSize = at + PageSize /\ page \in Nat
  BY <1>1, PageTurns
<1>4. \* What is not seen now either has its place after this page.
      ASSUME ~request.torn, NEW c \in request.stay \ seen
      PROVE  Rank(W, c) > at + PageSize /\ Rank(W, c) <= Len(list)
  <2>1. c \in W /\ Rank(W, c) > at
    BY <1>1, <1>4
  <2>2. Rank(W, c) \in DOMAIN list /\ list[Rank(W, c)] = c /\ c \notin shown
    BY <1>2, <1>4, <2>1
  <2>3. ~(at < Rank(W, c) /\ Rank(W, c) <= at + PageSize)
    BY <2>2
  <2> QED BY <1>2, <1>3, <2>1, <2>2, <2>3
<1>5. seen \subseteq CatalogId
  BY <1>1, <1>2
<1>6. status = 200 /\ ~request.torn /\ ~late => request.stay \subseteq seen
  <2> SUFFICES ASSUME at + PageSize >= request.total, ~request.torn, ~request.late,
                      NEW c \in request.stay \ seen
               PROVE  FALSE
    OBVIOUS
  <2>1. Rank(W, c) > at + PageSize /\ Rank(W, c) <= Len(list)
    BY <1>4
  <2>2. Rank(W, c) \in Nat
    BY <1>1, <1>2
  <2>3. Len(list) <= request.total /\ request.total \in Nat /\ Len(list) \in Nat
    BY <1>1, <1>2, CatalogsCount
  <2> HIDE DEF W, list, at
  <2> QED BY <1>3, <2>1, <2>2, <2>3
<1>7. /\ status \in {None, 200} /\ (status = None => page < Cardinality(CatalogId))
      /\ late \in BOOLEAN
  BY <1>1, <1>3, CatalogsCount
<1>8. \A c : Rank(W, c)' = Rank(W, c)
  BY <1>0 DEF Rank, Newer, OnList, Shelved, ShelvedOf, ProviderOf
<1> HIDE DEF seen, page, status, late
<1>9. /\ WalkFields \subseteq DOMAIN request' /\ request'.kind = "walk"
      /\ request'.seen = seen /\ request'.page = page /\ request'.status = status
      /\ request'.total = None /\ request'.late = late
      /\ request'.torn = request.torn /\ request'.of = request.of /\ request'.stay = request.stay
  BY <1>0, <1>1 DEF WalkFields
<1>10. W' = W /\ request'.of = q
  BY <1>0, <1>q, <1>9 DEF OnList, Shelved, ShelvedOf, ProviderOf
<1>11. page \in 0 .. Cardinality(CatalogId)
  BY <1>1, CatalogsCount DEF page
<1>12. ASSUME ~request.torn, NEW c \in request.stay \ seen PROVE Rank(W, c) > page * PageSize
  BY <1>3, <1>4, <1>12
<1>13. ~request.torn => W \subseteq CatalogId /\ request.stay \subseteq W' \ old'
  BY <1>0, <1>1, <1>2, <1>10
<1> HIDE DEF at
<1> QED BY <1>1, <1>5, <1>6, <1>7, <1>8, <1>9, <1>10, <1>11, <1>12, <1>13 DEF WalkInv

\* A change of the catalogs keeps the walk when, unless it is torn, whatever is before a
\* catalog that stays is still before it.
LEMMA WalkMoves ==
  ASSUME WalkInv, NEW q, q = request.of,
         request # None, request.kind = "walk", request.status = None,
         UNCHANGED <<request.kind, request.status, request.of, request.page, request.total,
                     request.seen>>,
         WalkFields \subseteq DOMAIN request', request'.torn \in BOOLEAN,
         request'.late \in BOOLEAN,
         request.total # None /\ ~request'.late =>
           ~request.late /\ OnList(q)' \subseteq OnList(q),
         request'.stay \subseteq request.stay,
         ~request'.torn =>
           /\ ~request.torn
           /\ OnList(q)' \subseteq CatalogId
           /\ request'.stay \subseteq OnList(q)' \ old'
           /\ \A c \in request'.stay, d \in OnList(q) :
                d = c \/ Newer(d, c) => d \in OnList(q)' /\ (d = c \/ Newer(d, c)')
  PROVE  WalkInv'
<1> USE ReadsAssumption DEF ReadsAssumption
<1>1. PICK T : T = OnList(q)'
  OBVIOUS
<1>2. PICK stay : stay = request'.stay
  OBVIOUS
<1>3. /\ request.page \in Nat /\ request.stay \subseteq CatalogId
      /\ ~request.torn =>
           /\ request.stay \subseteq OnList(q)
           /\ \A c \in request.stay \ request.seen : Rank(OnList(q), c) > request.page * PageSize
  BY CatalogsCount DEF WalkInv
<1>4. ASSUME ~request'.torn, NEW c \in stay \ request.seen
      PROVE  Rank(OnList(q), c)' > request.page * PageSize
  <2>1. ~request.torn /\ c \in OnList(q)
    BY <1>2, <1>3, <1>4
  <2>2. /\ T \in SUBSET CatalogId
        /\ \A d \in OnList(q) : d = c \/ Newer(d, c) => d \in T /\ (d = c \/ Newer(d, c)')
    BY <1>1, <1>2, <1>4
  <2>3. OnList(q) \in SUBSET Shelved
    BY WalkSets
  <2>4. /\ Rank(OnList(q), c) \in Nat /\ Rank(OnList(q), c) <= Rank(T, c)'
        /\ Rank(T, c)' \in Nat
    BY <2>1, <2>2, <2>3, RankKept
  <2>5. Rank(T, c)' = Rank(OnList(q), c)'
    BY <1>1 DEF Rank
  <2>6. Rank(OnList(q), c) > request.page * PageSize
    BY <1>2, <1>3, <1>4, <2>1
  <2>7. request.page * PageSize \in Nat
    BY <1>3, PageTurns
  <2> QED BY <2>4, <2>5, <2>6, <2>7
<1>5. OnList(q)' = OnList(request.of)'
  OBVIOUS
<1>6. \A c : Rank(OnList(q), c)' = Rank(OnList(request.of), c)'
  BY <1>5 DEF Rank
<1>7. request.page \in 0 .. Cardinality(CatalogId) /\ request.seen \subseteq CatalogId
      /\ request.page < Cardinality(CatalogId)
      /\ request.total \in {None} \cup 0 .. Cardinality(CatalogId)
  BY DEF WalkInv
<1>8. ASSUME request.total # None, ~request'.late
      PROVE  Cardinality(OnList(q)') <= request.total
  <2>1. T \subseteq OnList(q) /\ Cardinality(OnList(q)) <= request.total
    BY <1>1, <1>8 DEF WalkInv
  <2>2. OnList(q) \subseteq CatalogId /\ IsFiniteSet(CatalogId)
    BY WalkSets, ReadsAssumption DEF ReadsAssumption
  <2>3. IsFiniteSet(OnList(q)) /\ IsFiniteSet(T) /\ Cardinality(T) <= Cardinality(OnList(q))
    BY <2>1, <2>2, FS_Subset
  <2>4. Cardinality(T) \in Nat /\ Cardinality(OnList(q)) \in Nat /\ request.total \in Nat
    BY <1>7, <1>8, <2>3, FS_CardinalityType, CatalogsCount
  <2> QED BY <1>1, <2>1, <2>3, <2>4
<1> QED BY <1>2, <1>3, <1>4, <1>5, <1>6, <1>7, <1>8 DEF WalkInv, WalkFields

\* What is published comes before everything else, and takes the place of nothing.
LEMMA PublishWalks ==
  ASSUME CatalogsOK, NewerOK, WalkInv, NEW c \in CatalogId, NEW p \in ProviderId,
         NEW leaves \in Whole, NEW w \in Windows, PublishCatalog(c, p, leaves, w)
  PROVE  WalkInv'
<1> USE ReadsAssumption DEF ReadsAssumption
<1>1. /\ Shelved' = Shelved \cup {c} /\ c \notin Shelved
      /\ \A d \in Shelved : shelf'[d] = shelf[d]
  BY PublishCatalogs
<1>2. UNCHANGED old /\ shelf'[c].provider = p
  BY DEF PublishCatalog, Publish, CatalogsOK
<1>3. CASE request # None /\ request.kind = "walk" /\ request.status = None
  <2>1. PICK q : q = request.of
    OBVIOUS
  <2>2. OnList(q) \subseteq OnList(q)' /\ OnList(q)' \subseteq CatalogId
    BY <1>1 DEF OnList, ShelvedOf, ProviderOf, Shelved
  <2>3. \A d, e : Newer(d, e) => Newer(d, e)'
    BY DEF PublishCatalog, Newer
  <2>4. /\ WalkFields \subseteq DOMAIN request /\ request.torn \in BOOLEAN
        /\ request.late \in BOOLEAN
        /\ ~request.torn => request.stay \subseteq OnList(q) \ old
    BY <1>3, <2>1 DEF WalkInv
  <2> DEFINE late == request.late \/ (request.of \in {"all", p} /\ request.total # None)
  <2>5. /\ UNCHANGED <<request.kind, request.status, request.of, request.page, request.total,
                       request.seen, request.stay, request.torn, DOMAIN request>>
        /\ request'.late = late
    <3>1. CASE request.of \in {"all", p}
      <4>1. request' = [request EXCEPT !.late = late]
        BY <1>3, <3>1 DEF PublishCatalog, Answered
      <4> QED BY <2>4, <4>1 DEF WalkFields
    <3>2. CASE request.of \notin {"all", p}
      <4>1. request' = request
        BY <1>3, <3>2 DEF PublishCatalog, Answered
      <4> QED BY <2>4, <3>2, <4>1
    <3> QED BY <3>1, <3>2
  <2>6. request.total # None /\ ~request'.late => ~request.late /\ OnList(q)' \subseteq OnList(q)
    <3> SUFFICES ASSUME request.total # None, ~late PROVE ~request.late /\ OnList(q)' \subseteq OnList(q)
      BY <2>5
    <3>1. q # "all" /\ q # p
      BY <2>1
    <3>2. OnList(q) = {d \in Shelved : shelf[d].provider = q}
          /\ OnList(q)' = {d \in Shelved' : shelf'[d].provider = q}
      BY <3>1 DEF OnList, ShelvedOf, ProviderOf
    <3> QED BY <1>1, <1>2, <3>1, <3>2
  <2>7. late \in BOOLEAN
    BY <2>4
  <2>8. /\ WalkFields \subseteq DOMAIN request' /\ request'.torn \in BOOLEAN
        /\ request'.late \in BOOLEAN /\ request'.stay \subseteq request.stay
        /\ ~request'.torn =>
             /\ ~request.torn
             /\ OnList(q)' \subseteq CatalogId
             /\ request'.stay \subseteq OnList(q)' \ old'
             /\ \A b \in request'.stay, d \in OnList(q) :
                  d = b \/ Newer(d, b) => d \in OnList(q)' /\ (d = b \/ Newer(d, b)')
    <3> HIDE DEF late
    <3> QED BY <1>2, <2>2, <2>3, <2>4, <2>5, <2>7
  <2> HIDE DEF WalkFields, late
  <2> QED BY <1>3, <2>1, <2>5, <2>6, <2>8, WalkMoves
<1>4. CASE ~(request # None /\ request.kind = "walk" /\ request.status = None)
  <2>1. UNCHANGED request
    BY <1>4 DEF PublishCatalog, Answered
  <2> QED BY <1>4, <2>1 DEF WalkInv
<1> QED BY <1>3, <1>4

\* What gets old does not have to be seen any more.
LEMMA AgeWalks ==
  ASSUME CatalogsOK, WalkInv, NEW c \in CatalogId, AgeCatalog(c)
  PROVE  WalkInv'
<1> USE ReadsAssumption DEF ReadsAssumption
<1>1. UNCHANGED <<shelf, newer>> /\ old' = old \cup {c}
  BY DEF AgeCatalog, Age
<1>2. CASE request # None /\ request.kind = "walk" /\ request.status = None
  <2>1. PICK q : q = request.of
    OBVIOUS
  <2>2. request' = [request EXCEPT !.stay = request.stay \ {c}]
    BY <1>2 DEF AgeCatalog, Answered
  <2>3. OnList(q)' = OnList(q) /\ OnList(q) \subseteq CatalogId
    BY <1>1 DEF OnList, ShelvedOf, ProviderOf, Shelved
  <2>4. \A d, e : Newer(d, e)' <=> Newer(d, e)
    BY <1>1 DEF Newer
  <2>5. /\ WalkFields \subseteq DOMAIN request /\ request.torn \in BOOLEAN
        /\ request.late \in BOOLEAN
        /\ ~request.torn => request.stay \subseteq OnList(q) \ old
    BY <1>2, <2>1 DEF WalkInv
  <2>6. /\ UNCHANGED <<request.kind, request.status, request.of, request.page, request.total,
                       request.late, request.seen, request.torn, DOMAIN request>>
        /\ request'.stay = request.stay \ {c}
    BY <2>2, <2>5 DEF WalkFields
  <2>7. ~request'.torn =>
             /\ ~request.torn
             /\ OnList(q)' \subseteq CatalogId
             /\ request'.stay \subseteq OnList(q)' \ old'
             /\ \A b \in request'.stay, d \in OnList(q) :
                  d = b \/ Newer(d, b) => d \in OnList(q)' /\ (d = b \/ Newer(d, b)')
    BY <1>1, <2>3, <2>4, <2>5, <2>6
  <2> QED BY <1>2, <2>1, <2>3, <2>5, <2>6, <2>7, WalkMoves
<1>3. CASE ~(request # None /\ request.kind = "walk" /\ request.status = None)
  BY <1>3 DEF AgeCatalog, Answered, WalkInv
<1> QED BY <1>2, <1>3

\* What no removal changes of a request.
LEMMA WithoutKind ==
  ASSUME IInv, NEW gone, NEW leaving, request # None, request' = Without(gone, leaving)
  PROVE  request'.kind = request.kind
<1>1. "kind" \in DOMAIN request
  BY DEF IInv, RequestInv
<1>2. ASSUME NEW torn, request' = [request EXCEPT !.torn = torn] PROVE request'.kind = request.kind
  BY <1>1, <1>2
<1>3. ASSUME NEW torn, NEW stay, request' = [request EXCEPT !.torn = torn, !.stay = stay]
      PROVE  request'.kind = request.kind
  BY <1>1, <1>3
<1>4. CASE Answered(None) /\ request.kind = "walk"
  BY <1>3, <1>4 DEF Without
<1>5. CASE Answered(None) /\ request.kind # "walk"
  BY <1>2, <1>5 DEF Without
<1>6. CASE ~Answered(None)
  BY <1>6 DEF Without
<1> QED BY <1>4, <1>5, <1>6

\* The catalogs that are removed are the oldest of a list, or a provider's delete takes them
\* from the list, or none of them is on it.
LEMMA RemovalWalks ==
  ASSUME CatalogsOK, NewerOK, IInv, WalkInv, NEW gone, NEW leaving, Remove(gone, leaving),
         Shelved' = Shelved \ gone, \A c \in Shelved' : ProviderOf(c)' = ProviderOf(c),
         old' = old \ gone, gone \subseteq old \/ leaving # {}
  PROVE  WalkInv'
<1> USE ReadsAssumption DEF ReadsAssumption
<1>1. request' = Without(gone, leaving)
  BY DEF Remove
<1>2. CASE request # None /\ request.kind = "walk" /\ request.status = None
  <2>1. PICK q : q = request.of
    OBVIOUS
  <2> DEFINE torn == request.torn \/ (leaving # {} /\ gone \cap OnList(q) # {})
             stay == request.stay \ gone
  <2>2. request' = [request EXCEPT !.torn = torn, !.stay = stay]
    BY <1>1, <1>2, <2>1 DEF Without, Answered
  <2>3. /\ WalkFields \subseteq DOMAIN request /\ request.torn \in BOOLEAN
        /\ request.late \in BOOLEAN
        /\ ~request.torn => request.stay \subseteq OnList(q) \ old
    BY <1>2, <2>1 DEF WalkInv
  <2>4. OnList(q)' = OnList(q) \ gone /\ OnList(q) \subseteq Shelved /\ OnList(q) \subseteq CatalogId
    <3>1. ShelvedOf(q)' = ShelvedOf(q) \ gone
      BY DEF ShelvedOf
    <3> QED BY <3>1, WalkSets DEF OnList
  <2>5. \A d, e \in Shelved \ gone : Newer(d, e) => Newer(d, e)'
    BY DEF Remove, Newer
  <2>6. \* What is before a catalog that stays does not leave.
        ASSUME ~torn, NEW c \in stay, NEW d \in OnList(q), d = c \/ Newer(d, c) PROVE d \notin gone
    <3>1. c \in OnList(q) \ old /\ c \notin gone
      BY <2>3, <2>6
    <3>2. CASE gone \subseteq old
      <4>1. d \in old => c \in old
        BY <2>4, <2>6, <3>1 DEF NewerOK
      <4> QED BY <3>1, <3>2, <4>1
    <3>3. CASE leaving # {}
      BY <2>6, <3>3
    <3> QED BY <3>2, <3>3
  <2>7. ~torn => /\ ~request.torn
                 /\ stay \subseteq OnList(q)' \ old'
                 /\ \A c \in stay, d \in OnList(q) :
                      d = c \/ Newer(d, c) => d \in OnList(q)' /\ (d = c \/ Newer(d, c)')
    <3> SUFFICES ASSUME ~torn
                 PROVE  /\ ~request.torn
                        /\ stay \subseteq OnList(q)' \ old'
                        /\ \A c \in stay, d \in OnList(q) :
                             d = c \/ Newer(d, c) => d \in OnList(q)' /\ (d = c \/ Newer(d, c)')
      OBVIOUS
    <3>1. ~request.torn /\ stay \subseteq OnList(q)' \ old'
      BY <2>3, <2>4
    <3>2. \A c \in stay, d \in OnList(q) : d = c \/ Newer(d, c) => d \notin gone
      BY <2>6
    <3>3. \A c \in stay : c \in Shelved \ gone
      BY <2>3, <2>4, <3>1
    <3> HIDE DEF torn, stay
    <3> QED BY <2>4, <2>5, <3>1, <3>2, <3>3
  <2>8. torn \in BOOLEAN /\ stay \subseteq request.stay
    BY <2>3
  <2> HIDE DEF torn, stay
  <2>9. /\ UNCHANGED <<request.kind, request.status, request.of, request.page, request.total,
                       request.late, request.seen, DOMAIN request>>
        /\ request'.torn = torn /\ request'.stay = stay
    BY <2>2, <2>3 DEF WalkFields
  <2>10. OnList(q)' \subseteq CatalogId
    BY <2>4
  <2>11. ~request'.torn =>
             /\ ~request.torn
             /\ OnList(q)' \subseteq CatalogId
             /\ request'.stay \subseteq OnList(q)' \ old'
             /\ \A b \in request'.stay, d \in OnList(q) :
                  d = b \/ Newer(d, b) => d \in OnList(q)' /\ (d = b \/ Newer(d, b)')
    BY <2>7, <2>9, <2>10
  <2>12. OnList(q)' \subseteq OnList(q)
    BY <2>4
  <2> QED BY <1>2, <2>1, <2>3, <2>8, <2>9, <2>11, <2>12, WalkMoves
<1>3. CASE request # None /\ request.kind = "walk" /\ request.status # None
  BY <1>1, <1>3 DEF Without, Answered, WalkInv
<1>4. CASE request # None /\ request.kind # "walk"
  BY <1>1, <1>4, WithoutKind DEF WalkInv
<1>5. CASE request = None
  BY <1>1, <1>5 DEF Without, Answered, WalkInv
<1> QED BY <1>2, <1>3, <1>4, <1>5

-----------------------------------------------------------------------------
\* All of it together.

ReadsInv == CatalogsOK /\ NewerOK /\ IInv /\ FailInv /\ FeedInv /\ WalkInv

\* A step of a request is about one kind of request.
LEMMA DocumentSteps ==
  ASSUME IInv,
         \/ \E c, kind : kind \in {"json", "pdf", "epub"} /\ AskCatalog(kind, c)
         \/ \E c, k : AskPage(c, k)
         \/ LoadPages \/ LoadClass \/ ReadFile \/ ReadFails \/ ReadForeign
  PROVE  request'.kind \in Documents
<1>1. ASSUME NEW c, NEW kind, kind \in {"json", "pdf", "epub"}, AskCatalog(kind, c)
      PROVE  request'.kind \in Documents
  BY <1>1 DEF AskCatalog, Document, NotFound, Documents
<1>2. ASSUME NEW c, NEW k, AskPage(c, k) PROVE request'.kind \in Documents
  <2>1. CASE c \in Shelved /\ k \in DOMAIN shelf[c].leaves
    BY <1>2, <2>1 DEF AskPage, PageDocument, Document, Documents
  <2>2. CASE ~(c \in Shelved /\ k \in DOMAIN shelf[c].leaves)
    BY <1>2, <2>2 DEF AskPage, PageDocument, NotFound, Documents
  <2> QED BY <2>1, <2>2
<1>3. CASE LoadPages \/ LoadClass \/ ReadFile \/ ReadFails \/ ReadForeign
  <2>1. request.kind \in Documents /\ "kind" \in DOMAIN request
    BY <1>3 DEF LoadPages, LoadClass, ReadFile, ReadFails, ReadForeign, Reading, Documents,
       IInv, RequestInv
  <2>2. CASE LoadPages
    <3> DEFINE step == IF request.kind = "epub" THEN "class" ELSE "files"
               status == IF LeavesNow # {} \/ request.kind = "epub" THEN None
                         ELSE IF request.kind = "pdf" THEN 500 ELSE 200
    <3>1. request' = [request EXCEPT !.left = LeavesNow, !.step = step, !.status = status]
      BY <2>2 DEF LoadPages, Loaded
    <3> HIDE DEF step, status
    <3> QED BY <2>1, <3>1
  <2>3. ASSUME NEW step, request' = [request EXCEPT !.step = step] PROVE request'.kind \in Documents
    BY <2>1, <2>3
  <2>4. ASSUME request' = Answer(500) PROVE request'.kind \in Documents
    BY <2>1, <2>4 DEF Answer
  <2>5. CASE LoadClass \/ ReadFails
    BY <2>3, <2>4, <2>5 DEF LoadClass, ReadFails
  <2>6. CASE ReadFile \/ ReadForeign
    <3>1. PICK k, content : request' = Got(k, content)
      BY <2>6 DEF ReadFile, ReadForeign
    <3>2. PICK left, got, status :
            request' = [request EXCEPT !.got = got, !.left = left, !.status = status]
      BY <3>1 DEF Got
    <3> QED BY <2>1, <3>2
  <2> QED BY <1>3, <2>2, <2>5, <2>6
<1> QED BY <1>1, <1>2, <1>3

LEMMA ListSteps ==
  ASSUME FeedInv, WalkInv
  PROVE  /\ (\E f : AskFeed(f)) \/ LoadProviders \/ BuildEntry => request'.kind = "feed"
         /\ (\E q : AskWalk(q)) \/ CountTotal \/ TurnPage => request'.kind = "walk"
<1>1. ASSUME NEW f, AskFeed(f) PROVE request'.kind = "feed"
  BY <1>1 DEF AskFeed
<1>2. ASSUME LoadProviders \/ BuildEntry PROVE request'.kind = "feed"
  <2>1. request.kind = "feed" /\ "kind" \in DOMAIN request
    BY <1>2 DEF LoadProviders, BuildEntry, Feeding, FeedInv, FeedOK, FeedFields
  <2>3. ASSUME NEW shown, NEW todo, NEW status,
               request' = [request EXCEPT !.shown = shown, !.todo = todo, !.status = status]
        PROVE  request'.kind = "feed"
    BY <2>1, <2>3
  <2>4. ASSUME NEW shown, request' = NextEntry(shown) PROVE request'.kind = "feed"
    <3> DEFINE todo == Tail(request.todo)
               status == IF Len(request.todo) = 1 THEN 200 ELSE None
    <3>1. request' = [request EXCEPT !.shown = shown, !.todo = todo, !.status = status]
      BY <2>4 DEF NextEntry
    <3> HIDE DEF todo, status
    <3> QED BY <2>3, <3>1
  <2>5. ASSUME request' = Answer(500) PROVE request'.kind = "feed"
    BY <2>1, <2>5 DEF Answer
  <2>6. ASSUME LoadProviders PROVE request'.kind = "feed"
    <3> DEFINE known == registered \cap ProvidersAsked
    <3>1. request' = [request EXCEPT !.loaded = TRUE, !.known = known]
      BY <2>6 DEF LoadProviders
    <3> HIDE DEF known
    <3> QED BY <2>1, <3>1
  <2>7. ASSUME BuildEntry PROVE request'.kind = "feed"
    <3> DEFINE shown == Append(request.shown, Head(request.todo))
    <3>1. request' = NextEntry(shown) \/ request' = Answer(500)
      BY <2>7 DEF BuildEntry
    <3> HIDE DEF shown
    <3>2. request' = NextEntry(shown) => request'.kind = "feed"
      BY <2>4
    <3> QED BY <2>5, <3>1, <3>2
  <2> QED BY <1>2, <2>6, <2>7
<1>3. ASSUME NEW q, AskWalk(q) PROVE request'.kind = "walk"
  BY <1>3 DEF AskWalk
<1>4. ASSUME TurnPage PROVE request'.kind = "walk"
  <2>1. request.kind = "walk" /\ "kind" \in DOMAIN request
    BY <1>4 DEF TurnPage, Walking, WalkInv, WalkFields
  <2>2. PICK seen, page, late, status :
          request' = [request EXCEPT !.seen = seen, !.page = page, !.total = None,
                                     !.late = late, !.status = status]
    BY <1>4, Zenon DEF TurnPage
  <2> QED BY <2>1, <2>2
<1>5. ASSUME CountTotal PROVE request'.kind = "walk"
  <2>1. request.kind = "walk" /\ "kind" \in DOMAIN request
    BY <1>5 DEF CountTotal, Walking, WalkInv, WalkFields
  <2> QED BY <1>5, <2>1 DEF CountTotal
<1> QED BY <1>1, <1>2, <1>3, <1>4, <1>5

LEMMA GetHolds ==
  ASSUME ReadsInv, Get \/ Received
  PROVE  FailInv' /\ FeedInv' /\ WalkInv'
<1> USE ReadsAssumption DEF ReadsInv
<1>1. UNCHANGED catalogs
  BY DEF Get, Received, AskCatalog, AskPage, AskLatest, AskLatestPage, LoadPages, LoadClass,
     ReadFile, ReadFails, ReadForeign, AskFeed, LoadProviders, BuildEntry, AskWalk, CountTotal,
     TurnPage
<1>2. ASSUME NEW c,
             (\E kind \in {"json", "pdf", "epub"} : AskCatalog(kind, c)) \/ (\E k : AskPage(c, k))
      PROVE  FailInv' /\ request'.kind \in Documents
  BY <1>1, <1>2, AskFails, DocumentSteps
<1>3. CASE LoadPages \/ LoadClass \/ ReadFile \/ ReadFails \/ ReadForeign
  <2>1. FailInv'
    BY <1>1, <1>3, ReadFailsWhy
  <2>2. request'.kind \in Documents
    BY <1>3, DocumentSteps
  <2> QED BY <2>1, <2>2 DEF FeedInv, WalkInv, Documents
<1>4. ASSUME NEW f, AskFeed(f) PROVE FailInv' /\ FeedInv' /\ WalkInv'
  BY <1>4, AskFeedKeeps, ListSteps DEF FailInv, WalkInv, Documents
<1>5. CASE LoadProviders \/ BuildEntry
  BY <1>5, FeedKeeps, ListSteps DEF FailInv, WalkInv, Documents
<1>6. ASSUME NEW q, AskWalk(q) PROVE FailInv' /\ FeedInv' /\ WalkInv'
  BY <1>6, AskWalkKeeps, ListSteps DEF FailInv, FeedInv, Documents
<1>7. CASE CountTotal \/ TurnPage
  BY <1>7, CountTotalKeeps, TurnPageKeeps, ListSteps DEF FailInv, FeedInv, Documents
<1>8. CASE Received
  BY <1>8 DEF Received, FailInv, FeedInv, WalkInv
<1>9. ASSUME NEW c,
             (\E kind \in {"json", "pdf", "epub"} : AskCatalog(kind, c)) \/ (\E k : AskPage(c, k))
      PROVE  FailInv' /\ FeedInv' /\ WalkInv'
  <2>1. FailInv' /\ request'.kind \in Documents
    BY <1>2, <1>9
  <2> QED BY <2>1 DEF FeedInv, WalkInv, Documents
<1> HIDE DEF ReadsInv
<1>10. CASE \E c \in CatalogId :
              \/ \E kind \in {"json", "pdf", "epub"} : AskCatalog(kind, c)
              \/ \E k \in 0 .. MaxPages - 1 : AskPage(c, k)
  BY <1>9, <1>10
<1>11. CASE \E p \in ProviderId :
              \/ \E kind \in {"json", "pdf"} : AskLatest(kind, p)
              \/ \E k \in 0 .. MaxPages - 1 : AskLatestPage(p, k)
  BY <1>9, <1>11 DEF AskLatest, AskLatestPage
<1>12. CASE (\E f \in FeedNames \cup ProviderId : AskFeed(f))
            \/ \E q \in {"all"} \cup ProviderId : AskWalk(q)
  BY <1>4, <1>6, <1>12
<1> QED BY <1>3, <1>5, <1>7, <1>8, <1>10, <1>11, <1>12 DEF Get

\* Nothing goes that a request could be about.
LEMMA StillHolds ==
  ASSUME ReadsInv, UNCHANGED <<shelf, old, newer, classes, request>>, registered \subseteq registered'
  PROVE  FailInv' /\ FeedInv' /\ WalkInv'
<1>1. FailInv'
  BY AdditionFails DEF ReadsInv
<1>2. FeedInv'
  BY DEF ReadsInv, FeedInv, FeedOK, ProvidersAsked
<1>3. WalkInv'
  <2>1. \A q : OnList(q)' = OnList(q) /\ \A c : Rank(OnList(q), c)' = Rank(OnList(q), c)
    BY DEF OnList, Shelved, ShelvedOf, ProviderOf, Rank, Newer
  <2>2. PICK q : q = request.of
    OBVIOUS
  <2> QED BY <2>1, <2>2 DEF ReadsInv, WalkInv, WalkFields
<1> QED BY <1>1, <1>2, <1>3

LEMMA ChangeHolds ==
  ASSUME ReadsInv, Change
  PROVE  FailInv' /\ FeedInv' /\ WalkInv'
<1> USE ReadsAssumption DEF ReadsInv, ReadsAssumption
<1>1. ASSUME NEW p \in ProviderId, RegisterProvider(p) PROVE FailInv' /\ FeedInv' /\ WalkInv'
  BY <1>1, StillHolds DEF RegisterProvider, Register
<1>2. ASSUME NEW p \in ProviderId, UnregisterProvider(p) PROVE FailInv' /\ FeedInv' /\ WalkInv'
  <2> DEFINE gone == Shelved \ Shelved'
  <2>1. Unregister(p) /\ Remove(gone, {p}) /\ request' = Without(gone, {p}) /\ UNCHANGED classes
    BY <1>2 DEF UnregisterProvider, Remove
  <2>2. /\ registered' = registered \ {p} /\ old' = old \ gone /\ Shelved' \subseteq Shelved
        /\ \A c \in Shelved' : ProviderOf(c)' = ProviderOf(c)
    BY <2>1, UnregisterLeaves
  <2>3. Shelved' = Shelved \ gone
    BY <2>2
  <2> HIDE DEF gone
  <2>4. FailInv'
    BY <2>1, RemovalFails
  <2>5. FeedInv'
    BY <2>1, <2>2, RemovalFeeds
  <2>6. WalkInv'
    BY <2>1, <2>2, <2>3, RemovalWalks
  <2> QED BY <2>4, <2>5, <2>6
<1>3. ASSUME NEW c \in CatalogId, NEW p \in ProviderId, NEW leaves \in Whole, NEW w \in Windows,
             PublishCatalog(c, p, leaves, w)
      PROVE  FailInv' /\ FeedInv' /\ WalkInv'
  <2>1. WalkInv'
    BY <1>3, PublishWalks
  <2>2. CASE Answered(None) /\ request.kind = "walk"
    <3>1. PICK late : request' = [request EXCEPT !.late = late] \/ request' = request
      BY <1>3 DEF PublishCatalog
    <3>2. "kind" \in DOMAIN request
      BY <2>2 DEF WalkInv, WalkFields, Answered
    <3>3. request'.kind = "walk"
      BY <2>2, <3>1, <3>2
    <3> QED BY <2>1, <3>3 DEF FailInv, FeedInv, Documents
  <2>3. CASE ~(Answered(None) /\ request.kind = "walk")
    <3>1. /\ UNCHANGED <<request, classes, registered>>
          /\ \A d \in Shelved : shelf'[d] = shelf[d]
      BY <1>3, <2>3, PublishCatalogs DEF PublishCatalog, Publish
    <3> QED BY <2>1, <3>1, AdditionFails DEF FeedInv, FeedOK, ProvidersAsked
  <2> QED BY <2>2, <2>3
<1>4. ASSUME NEW c \in CatalogId, AgeCatalog(c) PROVE FailInv' /\ FeedInv' /\ WalkInv'
  <2>1. WalkInv'
    BY <1>4, AgeWalks
  <2>2. CASE Answered(None) /\ request.kind = "walk"
    <3>1. request' = [request EXCEPT !.stay = request.stay \ {c}] /\ "kind" \in DOMAIN request
      BY <1>4, <2>2 DEF AgeCatalog, WalkInv, WalkFields, Answered
    <3>2. request'.kind = "walk"
      BY <2>2, <3>1
    <3> QED BY <2>1, <3>2 DEF FailInv, FeedInv, Documents
  <2>3. CASE ~(Answered(None) /\ request.kind = "walk")
    <3>1. UNCHANGED <<request, classes, registered, shelf>>
      BY <1>4, <2>3 DEF AgeCatalog, Age
    <3> QED BY <2>1, <3>1, AdditionFails DEF FeedInv, FeedOK, ProvidersAsked
  <2> QED BY <2>2, <2>3
<1>5. ASSUME NEW c \in CatalogId, WithdrawCatalog(c) PROVE FailInv' /\ FeedInv' /\ WalkInv'
  <2>1. /\ shelf' = [shelf EXCEPT ![c] = None] /\ c \in old
        /\ old' = old \ {c} /\ registered' = registered
        /\ Remove({c}, {}) /\ request' = Without({c}, {}) /\ UNCHANGED classes
    BY <1>5 DEF WithdrawCatalog, Withdraw, Remove
  <2>2. /\ Shelved' = Shelved \ {c}
        /\ \A d \in Shelved' : ProviderOf(d)' = ProviderOf(d)
    BY <2>1 DEF Shelved, CatalogsOK, ProviderOf
  <2>3. FailInv'
    BY <2>1, RemovalFails
  <2>4. FeedInv'
    BY <2>1, RemovalFeeds
  <2>5. WalkInv'
    BY <2>1, <2>2, RemovalWalks
  <2> QED BY <2>3, <2>4, <2>5
<1>6. CASE Tick
  BY <1>6, StillHolds DEF Tick
<1>7. CASE Restart
  BY <1>7 DEF Restart, FailInv, FeedInv, WalkInv
<1> QED BY <1>1, <1>2, <1>3, <1>4, <1>5, <1>6, <1>7 DEF Change

LEMMA ReadsHold == ReadsSpec => []ReadsInv
<1>1. ReadsInit => ReadsInv
  BY ReadsAssumption, ReadsInitHolds, CatalogsStart
     DEF ReadsInit, ReadsInv, FailInv, FeedInv, WalkInv
<1>2. ReadsInv /\ IInv' /\ [ReadsNext]_readVars => ReadsInv'
  <2> SUFFICES ASSUME ReadsInv, IInv', [ReadsNext]_readVars PROVE ReadsInv'
    OBVIOUS
  <2>1. CatalogsOK' /\ NewerOK'
    BY CatalogsStep DEF ReadsInv
  <2>2. CASE UNCHANGED readVars
    BY <2>1, <2>2, StillHolds DEF readVars, ReadsInv
  <2>3. CASE ReadsNext
    BY <2>1, <2>3, GetHolds, ChangeHolds DEF ReadsNext, ReadsInv
  <2> QED BY <2>1, <2>2, <2>3
<1> QED BY <1>1, <1>2, ReadsInvariant, PTL DEF ReadsSpec

\* The catalogs keep their types, the creation order is a strict one with the old catalogs
\* at its end, and a client turns no more pages than there can be catalogs.
THEOREM ReadsTypeCorrect == ReadsSpec => []TypeOK
<1>1. ASSUME ReadsInv PROVE TypeOK
  <2> USE ReadsAssumption DEF ReadsInv, ReadsAssumption
  <2>1. ASSUME request # None
        PROVE  /\ request.kind \in Documents \cup {"feed", "walk"}
               /\ request.status \in {None, 200, 404, 500} /\ request.torn \in BOOLEAN
    <3>1. request.kind \in Documents \cup {"feed", "walk"}
      BY <1>1, <2>1 DEF IInv, RequestInv
    <3>2. CASE request.kind \in Documents
      BY <1>1, <2>1, <3>2 DEF IInv, RequestInv, DocumentInv, FailInv
    <3>3. CASE request.kind = "feed"
      BY <1>1, <2>1, <3>3 DEF FeedInv, FeedOK
    <3>4. CASE request.kind = "walk"
      BY <1>1, <2>1, <3>4 DEF WalkInv
    <3> QED BY <3>1, <3>2, <3>3, <3>4
  <2>2. request # None /\ request.kind = "walk" =>
          /\ request.page \in 0 .. Cardinality(CatalogId) /\ request.late \in BOOLEAN
          /\ request.total \in {None} \cup 0 .. Cardinality(CatalogId)
          /\ request.seen \subseteq CatalogId /\ request.stay \subseteq CatalogId
    BY <1>1 DEF WalkInv
  <2> QED BY <1>1, <2>1, <2>2 DEF TypeOK, CatalogsOK, NewerOK
<1> QED BY <1>1, ReadsHold, PTL

\* A GET is a 500 only if its catalog or a provider of the feed left under it, if the
\* module with the class of a provider is not installed any more, or if the catalog has
\* no page any more.
THEOREM UndisturbedReadsAlwaysSucceed == ReadsSpec => []UndisturbedReadsSucceed
<1>1. ASSUME ReadsInv PROVE UndisturbedReadsSucceed
  <2> SUFFICES ASSUME request # None, request.status = 500
               PROVE  \/ request.torn
                      \/ request.kind = "epub" /\ request.provider \notin classes
                      \/ request.kind \in {"pdf", "epub"} /\ DOMAIN request.leaves = {}
                      \/ request.kind = "feed" /\ ~(ProvidersAsked \subseteq classes)
    BY DEF UndisturbedReadsSucceed, Answered
  <2>1. request.kind \in Documents \cup {"feed", "walk"}
    BY <1>1 DEF ReadsInv, IInv, RequestInv
  <2>2. request.kind # "walk"
    BY <1>1, ReadsAssumption DEF ReadsInv, WalkInv, ReadsAssumption
  <2> QED BY <1>1, <2>1, <2>2 DEF ReadsInv, FailInv, FeedInv
<1> QED BY <1>1, ReadsHold, PTL

\* A feed that is answered shows all the catalogs that were asked for, in their order.
THEOREM FeedsAllOrNothing == ReadsSpec => []FeedAllOrNothing
<1>1. ASSUME ReadsInv PROVE FeedAllOrNothing
  <2> SUFFICES ASSUME request # None, request.status = 200, request.kind = "feed"
               PROVE  request.shown = request.asked /\ ProvidersAsked \subseteq classes
    BY DEF FeedAllOrNothing, Answered
  <2>1. /\ request.shown \in Seq(Entries) /\ request.asked \in Seq(Entries)
        /\ request.todo = <<>> /\ SplitOf(request.asked, request.shown, request.todo)
        /\ \A i \in 1 .. Len(request.shown) : request.shown[i][2] \in classes
    BY <1>1, ReadsAssumption DEF ReadsInv, FeedInv, FeedOK, EntryLists, ReadsAssumption
  <2>2. PICK shown \in Seq(Entries), asked \in Seq(Entries) :
          shown = request.shown /\ asked = request.asked
    BY <2>1
  <2>3. Len(shown) = Len(asked) /\ \A i \in 1 .. Len(shown) : shown[i] = asked[i]
    BY <2>1, <2>2 DEF SplitOf
  <2>4. shown = asked
    BY <2>3
  <2> QED BY <2>1, <2>2, <2>4 DEF ProvidersAsked
<1> QED BY <1>1, ReadsHold, PTL

\* A client that turns the pages of a list misses none of the catalogs that stay on it,
\* whatever is fetched, gets old or is cleaned up meanwhile, for every page size, unless
\* a delete takes catalogs from the list or its last page is late.
THEOREM WalksMissNone == ReadsSpec => []WalkMissesNone
<1>1. ReadsInv => WalkMissesNone
  BY DEF ReadsInv, WalkInv, WalkMissesNone, Answered
<1> QED BY <1>1, ReadsHold, PTL

=============================================================================
