------------------------------ MODULE Listing -------------------------------
(***************************************************************************)
(* A traversal of the list of claims, page by page, while other requests   *)
(* file, change and withdraw them.  A page is one request of list_claims:  *)
(* a SELECT count and a SELECT ... LIMIT ... OFFSET, two statements that   *)
(* each see what is committed by then.  The reader asks for page 1 and     *)
(* follows the Next links, which are there as long as the total of the     *)
(* answer before says so.                                                  *)
(***************************************************************************)
EXTENDS AuditOrder

CONSTANTS
  Readers,    \* the accounts that list claims
  Filters,    \* the statuses they filter by (None: no filter)
  Sorts,      \* "-created_at", the default, or "amount"
  Size,       \* rows on a page
  Id          \* the order of the random primary keys

ASSUME ListingAssumption ==
  /\ Readers \subseteq Users
  /\ Filters \subseteq ClaimStatus \cup {None}
  /\ Sorts \subseteq {"-created_at", "amount"}
  /\ Size \in Nat \ {0}
  /\ Id \in [ClaimIds -> Nat]
  /\ \A c, d \in ClaimIds : Id[c] = Id[d] => c = d

VARIABLES
  reader,     \* the traversal: what is asked, the page, the last total, rows got
  watch       \* what happened to the list since the traversal began

listingVars == <<auditVars, reader, watch>>

Reader == [pc : {"count", "page", "end"}, actor : Readers, status : Filters,
           sort : Sorts, page : Nat \ {0}, total : Nat, got : Seq(ClaimIds)]

Watch == [steady : SUBSET ClaimIds,   \* rows that were in the list all along
          gone : BOOLEAN,             \* a row has left the list, or moved in it
          come : BOOLEAN,             \* a row has entered it
          late : BOOLEAN]             \* ... since the last count

ListingTypeOK ==
  /\ AuditTypeOK
  /\ reader \in Reader
  /\ watch \in Watch
  /\ reader.total <= Cardinality(Existing)
  /\ Len(reader.got) <= Size * reader.page

-----------------------------------------------------------------------------
(* services.list_claims.                                                    *)

Matches(r) ==
  {c \in Existing :
     /\ RoleOf[r.actor] = "CUSTOMER" => IsOwner(r.actor, claims[c])
     /\ r.status = None \/ claims[c].status = r.status}

created_at(c) == stamps[c][1]

Key(r, c) == IF r.sort = "amount" THEN claims[c].amount ELSE -created_at(c)

\* Mutant of Before: no secondary key.  PostgreSQL then returns equal rows in the
\* order it finds them, and an UPDATE moves a row to another place.
Updates(c) == Cardinality(Stamped(c))
BeforeUnstable(r, c, d) ==
  \/ Key(r, c) < Key(r, d)
  \/ Key(r, c) = Key(r, d) /\ Updates(c) < Updates(d)
  \/ Key(r, c) = Key(r, d) /\ Updates(c) = Updates(d) /\ Id[c] < Id[d]

Before(r, c, d) ==
  \/ Key(r, c) < Key(r, d)
  \/ Key(r, c) = Key(r, d) /\ Id[c] < Id[d]

\* The rows that come before each row, and the rows by how many those are.
Ahead(r) == [c \in Matches(r) |-> {d \in Matches(r) : Before(r, d, c)}]

Ranked(rows, ahead) ==
  [i \in 1..Cardinality(rows) |-> CHOOSE c \in rows : Cardinality(ahead[c]) = i - 1]

Ordered(r) == Ranked(Matches(r), Ahead(r))

\* Rows first + 1 to first + Size of the list, as many of them as there are.
Slice(rows, first) ==
  SubSeq(rows, first + 1, IF Len(rows) < first + Size THEN Len(rows) ELSE first + Size)

\* Mutant of Page: the first page is numbered 0.
PageFromZero(r) == Slice(Ordered(r), r.page * Size)

Page(r) == Slice(Ordered(r), (r.page - 1) * Size)

\* ceil(total / size), and one page when there is nothing.
pages(total) == IF total = 0 THEN 1 ELSE (total + Size - 1) \div Size

-----------------------------------------------------------------------------
Quiet(rows) == [steady |-> rows, gone |-> FALSE, come |-> FALSE, late |-> FALSE]

Begun == reader.pc = "page" \/ reader.page > 1

ListingInit ==
  /\ AuditInit
  /\ \E actor \in Readers, status \in Filters, sort \in Sorts :
       reader = [pc |-> "count", actor |-> actor, status |-> status, sort |-> sort,
                 page |-> 1, total |-> 0, got |-> <<>>]
  /\ watch = Quiet({})

Count ==
  /\ reader.pc = "count"
  /\ reader' = [reader EXCEPT !.pc = "page", !.total = Cardinality(Matches(reader))]
  /\ watch' = IF Begun THEN [watch EXCEPT !.late = FALSE] ELSE Quiet(Matches(reader))
  /\ UNCHANGED auditVars

ReadPage ==
  /\ reader.pc = "page"
  /\ reader' =
       LET more == reader.page < pages(reader.total) IN
       [reader EXCEPT !.got = @ \o Page(reader),
                      !.pc = IF more THEN "count" ELSE "end",
                      !.page = IF more THEN @ + 1 ELSE @]
  /\ UNCHANGED <<auditVars, watch>>

\* Any step of the service, until the traversal has ended, and what it did to
\* the list once the traversal has begun.
Elsewhere ==
  /\ reader.pc # "end"
  /\ AuditNext
  /\ UNCHANGED reader
  /\ LET old == Matches(reader)
         new == Matches(reader)'
         entered == new \ old # {}
         moved == \E c \in old \cap new : Key(reader, c)' # Key(reader, c)
     IN watch' = IF ~Begun THEN watch ELSE
          [steady |-> watch.steady \cap new,
           gone |-> watch.gone \/ moved \/ old \ new # {},
           come |-> watch.come \/ entered,
           late |-> watch.late \/ entered]

ListingNext == Count \/ ReadPage \/ Elsewhere

ListingSpec == ListingInit /\ [][ListingNext]_listingVars

-----------------------------------------------------------------------------
(* A traversal during which no row enters, leaves or moves returns the list *)
(* as it was: every row once and in order, whatever else is changed in the  *)
(* rows, however many share the value they are sorted by.                   *)
TraversalIsExact ==
  reader.pc = "end" /\ ~watch.gone /\ ~watch.come => reader.got = Ordered(reader)

(* Rows that enter push others down, and a page repeats rows of the one     *)
(* before, but it never skips any: a row that was in the list all along is  *)
(* missed only if another left or moved, or one entered after the last      *)
(* count and the last page was computed from a total too small.             *)
NoRowIsSkipped ==
  reader.pc = "end" /\ ~watch.gone /\ ~watch.late =>
    \A c \in watch.steady : \E i \in DOMAIN reader.got : reader.got[i] = c
=============================================================================
