--------------------------- MODULE ContentCatalog ---------------------------
(***************************************************************************)
(* What the storage server promises its clients, with deduplication hidden: *)
(* a catalog maps file ids to contents, and the content of every catalogued *)
(* file is stored.  Content is reclaimed only when no file needs it.        *)
(*                                                                          *)
(* This is docs/FEATURES.md:42 and :88 ("real storage deleted only with the  *)
(* last reference") and README.md:133-137 stated as a machine.              *)
(* StorageService implements it; see Catalog there.                         *)
(***************************************************************************)

CONSTANTS
    Id,        \* file ids
    Content,   \* the bytes of a file
    NULL       \* the id is not in use

VARIABLES
    catalog,   \* catalog[f] is the content of file f, NULL when there is none
    stored     \* the contents the server can return the bytes of

catalogVars == <<catalog, stored>>

CatalogInit ==
    /\ catalog = [f \in Id |-> NULL]
    /\ stored = {}

Used(c) == \E f \in Id : catalog[f] = c

Keep(c) ==
    /\ stored' = stored \cup {c}
    /\ UNCHANGED catalog

Publish(f, c) ==
    /\ catalog[f] = NULL
    /\ c \in stored
    /\ catalog' = [catalog EXCEPT ![f] = c]
    /\ UNCHANGED stored

Withdraw(f) ==
    /\ catalog' = [catalog EXCEPT ![f] = NULL]
    /\ UNCHANGED stored

Reclaim(c) ==
    /\ ~ Used(c)
    /\ stored' = stored \ {c}
    /\ UNCHANGED catalog

CatalogNext ==
    \/ \E c \in Content : Keep(c) \/ Reclaim(c)
    \/ \E f \in Id : Withdraw(f) \/ \E c \in Content : Publish(f, c)

CatalogSpec == CatalogInit /\ [][CatalogNext]_catalogVars
=============================================================================
