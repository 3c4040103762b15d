--------------------------- MODULE CatalogService ---------------------------
(***************************************************************************)
(* What the catalog database promises its readers: a catalog appears whole *)
(* and belongs to a registered provider, no page ever shows anything else, *)
(* and it leaves whole when it is old.  When a provider leaves, its        *)
(* catalogs go, and others may lose pages or go as well, since row ids are *)
(* given again while the delete is under way.                              *)
(***************************************************************************)
EXTENDS Naturals

CONSTANTS ProviderId, CatalogId, Content, MaxPages, None

VARIABLES registered,  \* the providers there are
          shelf,       \* catalog -> [provider, leaves], or None
          old          \* the catalogs past their expiration

vars == <<registered, shelf, old>>

Leaves == UNION {[S -> Content] : S \in SUBSET (0 .. MaxPages - 1)}
Whole == UNION {[0 .. n - 1 -> Content] : n \in 1 .. MaxPages}
Shelved == {c \in CatalogId : shelf[c] # None}

Init ==
  /\ registered = {}
  /\ shelf = [c \in CatalogId |-> None]
  /\ old = {}

Register(p) ==
  /\ p \notin registered
  /\ registered' = registered \cup {p}
  /\ UNCHANGED <<shelf, old>>

Publish(c, p, leaves) ==
  /\ p \in registered
  /\ UNCHANGED <<registered, old>>
  /\ shelf[c] = None
  /\ shelf' = [shelf EXCEPT ![c] = [provider |-> p, leaves |-> leaves]]

Age(c) ==
  /\ old' = old \cup {c}
  /\ c \in Shelved
  /\ UNCHANGED <<registered, shelf>>

Withdraw(c) ==
  /\ c \in old
  /\ old' = old \ {c}
  /\ UNCHANGED registered
  /\ shelf' = [shelf EXCEPT ![c] = None]

\* "taken" are the catalogs that go with the provider, its own among them, "lost" the
\* pages, as pairs of catalog and number, that those which stay lose.
Unregister(p) ==
  /\ p \in registered
  /\ registered' = registered \ {p}
  /\ \E taken \in SUBSET Shelved :
       /\ {c \in Shelved : shelf[c].provider = p} \subseteq taken
       /\ old' = old \ taken
       /\ \E lost \in SUBSET ((Shelved \ taken) \X (0 .. MaxPages - 1)) :
            shelf' = [c \in CatalogId |->
              IF c \in Shelved \ taken
              THEN [shelf[c] EXCEPT
                      !.leaves = [k \in {n \in DOMAIN @ : <<c, n>> \notin lost} |-> @[k]]]
              ELSE None]

Next ==
  \/ \E p \in ProviderId : Register(p) \/ Unregister(p)
  \/ \E c \in CatalogId : Age(c) \/ Withdraw(c)
  \/ \E c \in CatalogId, p \in ProviderId, leaves \in Whole : Publish(c, p, leaves)

Spec == Init /\ [][Next]_vars

=============================================================================
