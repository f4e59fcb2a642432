-------------------------------- MODULE Rows --------------------------------
(***************************************************************************)
(* The data the squids' handlers read and write, abstracted to what the    *)
(* entity cache can get wrong.                                             *)
(*                                                                         *)
(* There are two entity classes: Parents, with no foreign key, and         *)
(* Children, each of whose rows may hold a link to a parent (Mech ->       *)
(* Service, DeliverForMarketplace -> Deliver, ...).  A row remembers the   *)
(* numbers of the events that wrote it, in order: two tables are equal     *)
(* exactly when every row was written by the same events in the same       *)
(* order, whatever the columns are.  A row nobody wrote does not exist.    *)
(***************************************************************************)
EXTENDS Naturals, Sequences

CONSTANTS Parents,    \* ids of the referenced class
          Children,   \* ids of the referencing class
          Partial,    \* those of Children whose link no handler reads
          NULL,       \* a link column that is NULL
          UNLOADED    \* a link property that is `undefined` in memory

ASSUME RowsAssumption ==
  /\ Parents \cap Children = {}
  /\ Partial \subseteq Children
  /\ NULL \notin Parents
  /\ UNLOADED \notin Parents \cup {NULL}

Keys == Parents \cup Children

\* A row as the database holds it, and as an object in memory.
StoredRow == [hist : Seq(Nat), link : Parents \cup {NULL}]
MemoryRow == [hist : Seq(Nat), link : Parents \cup {NULL, UNLOADED}]

AbsentRow == [hist |-> <<>>, link |-> NULL]
Exists(row) == row.hist # <<>>

EmptyTable == [k \in Keys |-> AbsentRow]

(***************************************************************************)
(* The shapes a handler has.  `touch`: get-or-create a parent and save it  *)
(* (getGlobal).  `create`: get-or-create a child with its relation         *)
(* requested and save it without setting the link (handleMarketplaceDelivery *)
(* on DeliverForMarketplace).  `link`: get-or-create both and link them    *)
(* (handleMechDeliver).  `peek`: read a child with no relation and, if it  *)
(* is there, save a parent (updateFeesOnDelivery).  `follow`: read a child *)
(* with its relation and save the parent it links to                       *)
(* (updateFeesOnDelivery on request.sender).  `amend`: save a parent, and  *)
(* a Partial child read with no relation, linked only if it is new         *)
(* (mech-fees' MechModel and MechDaily).                                   *)
(***************************************************************************)
Whole == Children \ Partial

Event ==
       [op : {"touch"},          p : Parents, c : {NULL}]
  \cup [op : {"create","follow"},p : {NULL},  c : Whole]
  \cup [op : {"link","peek"},    p : Parents, c : Whole]
  \cup [op : {"amend"},          p : Parents, c : Partial]

Write(row, e) == [row EXCEPT !.hist = Append(@, e)]

\* What one event does to a table, were it read and written directly: the
\* reference the cache is compared with.
Apply(table, ev, e) ==
  CASE ev.op = "touch"  -> [table EXCEPT ![ev.p] = Write(@, e)]
    [] ev.op = "create" -> [table EXCEPT ![ev.c] = Write(@, e)]
    [] ev.op = "link"   -> [table EXCEPT ![ev.p] = Write(@, e),
                                         ![ev.c] = [Write(@, e) EXCEPT !.link = ev.p]]
    [] ev.op = "peek"   -> IF Exists(table[ev.c])
                           THEN [table EXCEPT ![ev.p] = Write(@, e)]
                           ELSE table
    [] ev.op = "amend" -> [table EXCEPT
                             ![ev.p] = Write(@, e),
                             ![ev.c] = IF Exists(@) THEN Write(@, e)
                                       ELSE [Write(@, e) EXCEPT !.link = ev.p]]
    [] ev.op = "follow" -> IF table[ev.c].link # NULL
                           THEN [table EXCEPT ![table[ev.c].link] = Write(@, e)]
                           ELSE table
=============================================================================
