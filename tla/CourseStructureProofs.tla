------------------------ MODULE CourseStructureProofs ------------------------
(***************************************************************************)
(* Proofs about CourseStructure, for any number of chapters, lessons,      *)
(* materials and editors: the types are kept, no UPDATE of a shift meets   *)
(* the unique index, the positions under every parent stay 1 .. n, every   *)
(* answer shows them so, and the whole implements OrderedList: a request   *)
(* inserts or moves in one step, whatever its single UPDATEs do.           *)
(***************************************************************************)
EXTENDS CourseStructure, FiniteSetTheorems, FunctionTheorems, SequenceTheorems, TLAPS

-----------------------------------------------------------------------------
(* The inductive invariant *)

\* No two siblings have one position.
Unique(rows) ==
  \A i, j \in Items :
    /\ rows[i] # None /\ rows[j] # None /\ i # j
    /\ rows[i].parent = rows[j].parent
    => rows[i].position # rows[j].position

\* The siblings that the request t shifts.
Moved(t) ==
  IF t.item = None
  THEN {j \in ChildrenIn(item, t.parent) : item[j].position >= t.to}
  ELSE ShiftedBy(item, t.parent, t.item, item[t.item].position, t.to)

At(p, k) == [parent |-> p, position |-> k]

\* The rows of t are the committed ones, but that those in done are shifted and
\* but for row x.
ShiftedBut(t, done, x) ==
  \A j \in Items \ {x} :
    t.rows[j] = IF j \in done THEN At(t.parent, item[j].position + t.step) ELSE item[j]

\* What a request that creates a row relies on.
CreateInv(t) ==
  /\ t.step = 1
  /\ t.to <= Cardinality(ChildrenIn(item, t.parent)) + 1
  /\ t.stage # "park"
  /\ t.stage # "commit" => ShiftedBut(t, Moved(t) \ t.todo, None)
  /\ t.stage = "commit" => \E n \in Items : /\ item[n] = None
                                            /\ t.rows[n] = At(t.parent, t.to)
                                            /\ ShiftedBut(t, Moved(t), n)

\* What a request that moves a row relies on.
MoveInv(t) ==
  LET from == item[t.item].position IN
  /\ item[t.item] # None /\ item[t.item].parent = t.parent
  /\ t.to <= Cardinality(ChildrenIn(item, t.parent))
  /\ t.to # from
  /\ t.step = IF t.to > from THEN -1 ELSE 1
  /\ ShiftedBut(t, Moved(t) \ t.todo, t.item)
  /\ t.stage = "park" => t.todo = Moved(t)
  /\ t.rows[t.item] = At(t.parent, IF t.stage = "park" THEN from
                                  ELSE IF t.stage = "commit" THEN t.to ELSE -from)

Drafting == {"park", "shift", "place", "commit"}

DraftInv(t) ==
  /\ t.parent \in Parents
  /\ t.to > 0
  /\ t.todo \subseteq Moved(t)
  /\ t.stage \in {"place", "commit"} => t.todo = {}
  /\ t.item = None => CreateInv(t)
  /\ t.item # None => MoveInv(t)

LockInv == \A c \in Clients : Stage(c) \in Drafting \cup {"locked", "failed"} => lock = c

\* A request that has just got the lock, or is none, has no row in hand.
FreshInv == \A c \in Clients : Stage(c) \in {"idle", "locked"} => tx[c].item = None

IInv ==
  /\ TypeOK
  /\ LockInv
  /\ FreshInv
  /\ Unique(item)
  /\ ListsContiguous
  /\ \A c \in Clients : Stage(c) \in Drafting => DraftInv(tx[c])
  /\ NoCollision

-----------------------------------------------------------------------------
(* The arithmetic of a shift *)

\* What is known of a committed row.
LEMMA RowsTyped ==
  ASSUME TypeOK, NEW i \in Items, item[i] # None
  PROVE  /\ item[i] \in Row
         /\ item[i].parent \in Parents
         /\ item[i].position \in Int
         /\ item[i].position > 0
BY DEF TypeOK, Rows, Row

\* The siblings of a request are typed, and those it shifts are among them.
LEMMA SiblingsTyped ==
  ASSUME TypeOK, NEW t \in Tx, DraftInv(t)
  PROVE  /\ \A j \in ChildrenIn(item, t.parent) :
              /\ j \in Items
              /\ item[j] = At(t.parent, item[j].position)
              /\ item[j].position \in Int
              /\ item[j].position > 0
         /\ Moved(t) \subseteq ChildrenIn(item, t.parent)
         /\ t.item \notin Moved(t)
         /\ t.to \in Int /\ t.step \in {-1, 1}
         /\ t.item # None => t.item \in ChildrenIn(item, t.parent)
<1>1. \A j \in ChildrenIn(item, t.parent) :
        j \in Items /\ item[j] # None /\ item[j].parent = t.parent
  BY DEF ChildrenIn
<1>2. \A j \in ChildrenIn(item, t.parent) :
        item[j] \in Row /\ item[j].position \in Int /\ item[j].position > 0
  BY <1>1, RowsTyped
<1>3. \A j \in ChildrenIn(item, t.parent) : item[j] = At(t.parent, item[j].position)
  BY <1>1, <1>2 DEF Row, At
<1>4. Moved(t) \subseteq ChildrenIn(item, t.parent)
  BY DEF Moved, ShiftedBy
<1>5. t.to \in Int /\ t.step \in {-1, 0, 1} /\ t.item \in Items \cup {None}
  BY DEF Tx
<1>6. t.step \in {-1, 1}
  BY DEF DraftInv, CreateInv, MoveInv
<1>7. t.item # None => t.item \in ChildrenIn(item, t.parent)
  BY <1>5 DEF DraftInv, MoveInv, ChildrenIn
<1>8. t.item \notin Moved(t)
  <2>1. CASE t.item = None
    BY <2>1, <1>1, <1>4, StructureAssumption
  <2>2. CASE t.item # None
    BY <2>2 DEF Moved, ShiftedBy
  <2>. QED  BY <2>1, <2>2
<1>. QED
  BY <1>1, <1>2, <1>3, <1>4, <1>5, <1>6, <1>7, <1>8

\* Who is shifted goes to a place above zero that is not the one made free, and
\* where nobody is who stays; nobody who stays is at the place made free.
LEMMA ShiftFits ==
  ASSUME TypeOK, Unique(item), NEW t \in Tx, DraftInv(t)
  PROVE  /\ \A i \in Moved(t) : /\ item[i].position + t.step > 0
                                /\ item[i].position + t.step # t.to
         /\ \A j \in ChildrenIn(item, t.parent) \ Moved(t) :
              j # t.item => /\ item[j].position # t.to
                            /\ \A i \in Moved(t) :
                                 item[j].position # item[i].position + t.step
<1>. USE SiblingsTyped
<1>1. CASE t.item = None
  <2>1. Moved(t) = {j \in ChildrenIn(item, t.parent) : item[j].position >= t.to}
    BY <1>1 DEF Moved
  <2>2. t.step = 1 /\ t.to > 0
    BY <1>1 DEF DraftInv, CreateInv
  <2>. QED
    BY <2>1, <2>2
<1>2. CASE t.item # None
  <2>. DEFINE from == item[t.item].position
  <2>1. \A j \in ChildrenIn(item, t.parent) : j # t.item => item[j].position # from
    <3>1. t.item \in Items /\ item[t.item] # None /\ item[t.item].parent = t.parent
      BY <1>2 DEF ChildrenIn
    <3>. QED
      BY <3>1 DEF ChildrenIn, Unique
  <2>2. from \in Int /\ from > 0 /\ t.to \in Int /\ t.to > 0 /\ t.to # from
    BY <1>2 DEF DraftInv, MoveInv
  <2>3. CASE t.to > from
    <3>1. /\ t.step = -1
          /\ Moved(t) = {j \in ChildrenIn(item, t.parent) \ {t.item} :
                           item[j].position \in (from + 1)..t.to}
      BY <1>2, <2>3 DEF DraftInv, MoveInv, Moved, ShiftedBy
    <3>. QED
      BY <3>1, <2>1, <2>2, <2>3
  <2>4. CASE ~(t.to > from)
    <3>1. /\ t.step = 1
          /\ Moved(t) = {j \in ChildrenIn(item, t.parent) \ {t.item} :
                           item[j].position \in t.to..(from - 1)}
      BY <1>2, <2>4 DEF DraftInv, MoveInv, Moved, ShiftedBy
    <3>. QED
      BY <3>1, <2>1, <2>2, <2>4
  <2>. QED  BY <2>3, <2>4
<1>. QED  BY <1>1, <1>2

-----------------------------------------------------------------------------
(* No UPDATE meets the unique index *)

\* The other siblings as a request sees them before its last statement.
LEMMA DraftRows ==
  ASSUME TypeOK, NEW t \in Tx, DraftInv(t), t.stage \in {"park", "shift", "place"},
         NEW j \in ChildrenIn(t.rows, t.parent), j # t.item
  PROVE  /\ j \in ChildrenIn(item, t.parent)
         /\ t.rows[j].position = IF j \in Moved(t) \ t.todo
                                 THEN item[j].position + t.step ELSE item[j].position
<1>1. j \in Items /\ t.rows[j] # None /\ t.rows[j].parent = t.parent
  BY DEF ChildrenIn
<1>2. t.rows[j] = IF j \in Moved(t) \ t.todo
                  THEN At(t.parent, item[j].position + t.step) ELSE item[j]
  <2>1. CASE t.item = None
    <3>1. ShiftedBut(t, Moved(t) \ t.todo, None)
      BY <2>1 DEF DraftInv, CreateInv
    <3>2. j # None
      BY <1>1, StructureAssumption
    <3>. QED
      BY <1>1, <3>1, <3>2 DEF ShiftedBut
  <2>2. CASE t.item # None
    BY <2>2, <1>1 DEF DraftInv, MoveInv, ShiftedBut
  <2>. QED  BY <2>1, <2>2
<1>3. CASE j \in Moved(t) \ t.todo
  BY <1>2, <1>3, SiblingsTyped DEF At
<1>4. CASE j \notin Moved(t) \ t.todo
  BY <1>1, <1>2, <1>4 DEF ChildrenIn
<1>. QED  BY <1>3, <1>4

\* The place a sibling is shifted to is free when its turn comes.
LEMMA ShiftIsFree ==
  ASSUME TypeOK, Unique(item), NEW t \in Tx, DraftInv(t), t.stage = "shift",
         NEW i \in t.todo, IsNext(t, i)
  PROVE  /\ t.rows[i] = item[i]
         /\ ~Taken(t.rows, i, t.parent, t.rows[i].position + t.step)
<1>. DEFINE P == t.parent
<1>1. i \in Moved(t) /\ i \in ChildrenIn(item, P) /\ i # t.item /\ i \in Items
  BY SiblingsTyped DEF DraftInv
<1>2. \A j \in t.todo : /\ j \in ChildrenIn(item, P)
                        /\ t.rows[j] = item[j]
  <2>1. TAKE j \in t.todo
  <2>2. j \in Moved(t) /\ j \in ChildrenIn(item, P) /\ j # t.item /\ j \in Items
    BY SiblingsTyped DEF DraftInv
  <2>3. j # None
    BY <2>2, StructureAssumption
  <2>4. CASE t.item = None
    BY <2>2, <2>3, <2>4 DEF DraftInv, CreateInv, ShiftedBut
  <2>5. CASE t.item # None
    BY <2>2, <2>5 DEF DraftInv, MoveInv, ShiftedBut
  <2>. QED  BY <2>2, <2>4, <2>5
<1>3. ASSUME NEW j \in ChildrenIn(t.rows, P), j # i,
             t.rows[j].position = t.rows[i].position + t.step
      PROVE  FALSE
  <2>1. t.rows[i].position = item[i].position
    BY <1>2
  <2>2. CASE j = t.item
    <3>1. t.item # None
      BY <2>2, StructureAssumption DEF ChildrenIn
    <3>2. t.rows[j].position = -item[j].position
      BY <2>2, <3>1 DEF DraftInv, MoveInv, At
    <3>3. item[j].position > 0 /\ item[j].position \in Int
      BY <2>2, <3>1, SiblingsTyped
    <3>. QED
      BY <1>1, <1>3, <2>1, <3>2, <3>3, ShiftFits, SiblingsTyped
  <2>3. CASE j # t.item
    <3>1. /\ j \in ChildrenIn(item, P)
          /\ t.rows[j].position = IF j \in Moved(t) \ t.todo
                                  THEN item[j].position + t.step ELSE item[j].position
      BY <2>3, DraftRows
    <3>2. j \in Items /\ item[j].position \in Int /\ item[i].position \in Int
          /\ t.step \in {-1, 1}
      BY <1>1, <3>1, SiblingsTyped
    <3>3. item[i].position # item[j].position
      BY <1>1, <1>3, <3>1, <3>2 DEF Unique, ChildrenIn
    <3>4. CASE j \in t.todo
      BY <1>2, <1>3, <2>1, <3>2, <3>4 DEF IsNext
    <3>5. CASE j \in Moved(t) \ t.todo
      BY <1>3, <2>1, <3>1, <3>2, <3>3, <3>5
    <3>6. CASE j \notin Moved(t)
      BY <1>1, <1>3, <2>1, <2>3, <3>1, <3>6, ShiftFits
    <3>. QED  BY <3>4, <3>5, <3>6
  <2>. QED  BY <2>2, <2>3
<1>. QED
  BY <1>2, <1>3 DEF Taken

\* Minus its position is free for the row that is moved.
LEMMA ParkIsFree ==
  ASSUME TypeOK, NEW t \in Tx, DraftInv(t), t.stage = "park", t.item # None
  PROVE  /\ t.rows[t.item] = item[t.item]
         /\ ~Taken(t.rows, t.item, t.parent, -t.rows[t.item].position)
<1>1. /\ t.item \in ChildrenIn(item, t.parent) /\ t.todo = Moved(t)
      /\ t.rows[t.item] = At(t.parent, item[t.item].position)
  BY SiblingsTyped DEF DraftInv, MoveInv
<1>2. t.rows[t.item] = item[t.item] /\ item[t.item].position \in Int
      /\ item[t.item].position > 0
  BY <1>1, SiblingsTyped
<1>3. ASSUME NEW j \in ChildrenIn(t.rows, t.parent), j # t.item
      PROVE  t.rows[j].position # -t.rows[t.item].position
  <2>1. j \in ChildrenIn(item, t.parent) /\ t.rows[j].position = item[j].position
    BY <1>1, <1>3, DraftRows
  <2>. QED
    BY <1>2, <2>1, SiblingsTyped
<1>. QED
  BY <1>2, <1>3 DEF Taken

\* When all shifts are done the place of the row itself is free.
LEMMA PlaceIsFree ==
  ASSUME TypeOK, Unique(item), NEW t \in Tx, DraftInv(t), t.stage = "place",
         NEW i, t.item # None => i = t.item
  PROVE  ~Taken(t.rows, i, t.parent, t.to)
<1>. SUFFICES ASSUME NEW j \in ChildrenIn(t.rows, t.parent), j # i,
                     t.rows[j].position = t.to
              PROVE  FALSE
  BY DEF Taken
<1>1. j # t.item
  BY StructureAssumption DEF ChildrenIn
<1>2. /\ j \in ChildrenIn(item, t.parent)
      /\ t.rows[j].position = IF j \in Moved(t)
                              THEN item[j].position + t.step ELSE item[j].position
  <2>1. t.todo = {}
    BY DEF DraftInv
  <2>. QED
    BY <1>1, <2>1, DraftRows
<1>. QED
  BY <1>1, <1>2, ShiftFits

-----------------------------------------------------------------------------
(* What is committed *)

\* The rows of a request that is about to commit: x is created or moved, the
\* siblings are shifted, everything else is as it was.
LEMMA CommittedRows ==
  ASSUME TypeOK, NEW t \in Tx, DraftInv(t), t.stage = "commit"
  PROVE  \E x \in Items :
           /\ t.rows[x] = At(t.parent, t.to)
           /\ ShiftedBut(t, Moved(t), x)
           /\ t.item = None => item[x] = None
           /\ t.item # None => x = t.item
<1>1. CASE t.item = None
  BY <1>1 DEF DraftInv, CreateInv
<1>2. CASE t.item # None
  <2>1. t.item \in Items
    BY <1>2 DEF Tx
  <2>2. t.todo = {} /\ MoveInv(t)
    BY <1>2 DEF DraftInv
  <2>3. Moved(t) \ t.todo = Moved(t)
    BY <2>2
  <2>4. ShiftedBut(t, Moved(t), t.item)
    BY <2>2, <2>3 DEF MoveInv
  <2>5. t.rows[t.item] = At(t.parent, t.to)
    BY <2>2 DEF MoveInv
  <2>. QED
    BY <1>2, <2>1, <2>4, <2>5
<1>. QED  BY <1>1, <1>2

\* The rows under the parent of the request, but for the row itself.
LEMMA CommittedSiblings ==
  ASSUME TypeOK, Unique(item), NEW t \in Tx, DraftInv(t), t.stage = "commit",
         NEW x \in Items, t.rows[x] = At(t.parent, t.to), ShiftedBut(t, Moved(t), x),
         t.item = None => item[x] = None, t.item # None => x = t.item
  PROVE  /\ ChildrenIn(t.rows, t.parent) = ChildrenIn(item, t.parent) \cup {x}
         /\ \A j \in ChildrenIn(item, t.parent) \ {x} :
              /\ j # t.item
              /\ t.rows[j].position = IF j \in Moved(t)
                                      THEN item[j].position + t.step ELSE item[j].position
              /\ t.rows[j].position \in Int
              /\ t.rows[j].position > 0
              /\ t.rows[j].position # t.to
         /\ x \notin Moved(t)
<1>1. \A j \in Items \ {x} :
        t.rows[j] = IF j \in Moved(t) THEN At(t.parent, item[j].position + t.step)
                    ELSE item[j]
  BY DEF ShiftedBut
<1>2. Moved(t) \subseteq ChildrenIn(item, t.parent)
  BY SiblingsTyped
<1>3. t.rows[x] # None /\ t.rows[x].parent = t.parent
  <2>1. t.parent \in Parents /\ t.to \in Int
    BY DEF DraftInv, Tx
  <2>2. At(t.parent, t.to) \in Row
    BY <2>1 DEF At, Row
  <2>. QED
    BY <2>2, NoItemAssumption DEF At
<1>4. \A j \in Moved(t) \ {x} : t.rows[j] # None /\ t.rows[j].parent = t.parent
  <2>1. TAKE j \in Moved(t) \ {x}
  <2>2. j \in Items /\ item[j].position + t.step \in Int /\ t.parent \in Parents
    BY <1>2, SiblingsTyped DEF DraftInv
  <2>3. At(t.parent, item[j].position + t.step) \in Row
    BY <2>2 DEF At, Row
  <2>. QED
    BY <1>1, <2>2, <2>3, NoItemAssumption DEF At
<1>5. ChildrenIn(t.rows, t.parent) = ChildrenIn(item, t.parent) \cup {x}
  BY <1>1, <1>2, <1>3, <1>4 DEF ChildrenIn
<1>6. x \notin Moved(t)
  <2>1. CASE t.item = None
    BY <1>2, <2>1 DEF ChildrenIn
  <2>2. CASE t.item # None
    <3>1. t.item \notin Moved(t)
      BY SiblingsTyped
    <3>. QED  BY <2>2, <3>1
  <2>. QED  BY <2>1, <2>2
<1>7. ASSUME NEW j \in ChildrenIn(item, t.parent) \ {x}
      PROVE  /\ j # t.item
             /\ t.rows[j].position = IF j \in Moved(t)
                                     THEN item[j].position + t.step ELSE item[j].position
             /\ t.rows[j].position \in Int
             /\ t.rows[j].position > 0
             /\ t.rows[j].position # t.to
  <2>1. j \in Items
    BY SiblingsTyped
  <2>2. j # t.item
    BY <1>7, <2>1, StructureAssumption
  <2>3. t.rows[j].position = IF j \in Moved(t)
                             THEN item[j].position + t.step ELSE item[j].position
    <3>1. CASE j \in Moved(t)
      <4>1. t.rows[j] = At(t.parent, item[j].position + t.step)
        BY <1>1, <1>7, <2>1, <3>1
      <4>. QED  BY <3>1, <4>1 DEF At
    <3>2. CASE j \notin Moved(t)
      BY <1>1, <1>7, <2>1, <3>2
    <3>. QED  BY <3>1, <3>2
  <2>. QED
    BY <1>7, <2>2, <2>3, ShiftFits, SiblingsTyped
<1>. QED
  BY <1>5, <1>6, <1>7

\* After a commit no two siblings have one position.
LEMMA CommitKeepsUnique ==
  ASSUME TypeOK, Unique(item), NEW t \in Tx, DraftInv(t), t.stage = "commit"
  PROVE  Unique(t.rows)
<1>. PICK x \in Items :
       /\ t.rows[x] = At(t.parent, t.to)
       /\ ShiftedBut(t, Moved(t), x)
       /\ t.item = None => item[x] = None
       /\ t.item # None => x = t.item
  BY CommittedRows
<1>. DEFINE S == ChildrenIn(item, t.parent)
<1>1. /\ ChildrenIn(t.rows, t.parent) = S \cup {x}
      /\ \A j \in S \ {x} :
           /\ j # t.item
           /\ t.rows[j].position = IF j \in Moved(t)
                                   THEN item[j].position + t.step ELSE item[j].position
           /\ t.rows[j].position # t.to
  BY CommittedSiblings
<1>2. t.rows[x].position = t.to
  BY DEF At
<1>3. ASSUME NEW i \in S \ {x}, NEW j \in S \ {x}, i # j
      PROVE  t.rows[i].position # t.rows[j].position
  <2>1. item[i].position # item[j].position
    BY <1>3 DEF Unique, ChildrenIn
  <2>2. /\ item[i].position \in Int /\ item[j].position \in Int /\ t.step \in {-1, 1}
        /\ i # t.item /\ j # t.item
    BY <1>1, <1>3, SiblingsTyped
  <2>3. /\ i \in Moved(t) /\ j \notin Moved(t) => item[j].position # item[i].position + t.step
        /\ j \in Moved(t) /\ i \notin Moved(t) => item[i].position # item[j].position + t.step
    BY <1>3, <2>2, ShiftFits
  <2>. QED
    BY <1>1, <1>3, <2>1, <2>2, <2>3
<1>4. ASSUME NEW i \in Items, NEW j \in Items, i # j, t.rows[i] # None, t.rows[j] # None,
             t.rows[i].parent = t.rows[j].parent
      PROVE  t.rows[i].position # t.rows[j].position
  <2>1. CASE t.rows[i].parent = t.parent
    <3>1. i \in S \cup {x} /\ j \in S \cup {x}
      BY <1>1, <1>4, <2>1 DEF ChildrenIn
    <3>. QED
      BY <1>1, <1>2, <1>3, <1>4, <3>1
  <2>2. CASE t.rows[i].parent # t.parent
    <3>1. \A k \in {i, j} : t.rows[k] = item[k]
      <4>1. TAKE k \in {i, j}
      <4>2. k # x /\ k \notin Moved(t)
        <5>1. k # x
          BY <1>4, <2>2 DEF At
        <5>2. ~(k \in S \cup {x})
          BY <1>1, <1>4, <2>2 DEF ChildrenIn
        <5>. QED
          BY <5>1, <5>2, SiblingsTyped
      <4>. QED
        BY <4>2 DEF ShiftedBut
    <3>. QED
      BY <1>4, <3>1 DEF Unique
  <2>. QED  BY <2>1, <2>2
<1>. QED
  BY <1>4 DEF Unique

\* The children of a parent are finitely many.
LEMMA FinitelyMany ==
  ASSUME NEW rows, NEW p
  PROVE  /\ IsFiniteSet(ChildrenIn(rows, p))
         /\ Cardinality(ChildrenIn(rows, p)) \in Nat
<1>1. IsFiniteSet(Items) /\ ChildrenIn(rows, p) \subseteq Items
  BY StructureAssumption DEF ChildrenIn
<1>. QED
  BY <1>1, FS_Subset, FS_CardinalityType

\* After a commit the positions under every parent are 1 .. n again.
LEMMA CommitKeepsContiguous ==
  ASSUME TypeOK, Unique(item), ListsContiguous,
         NEW t \in Tx, DraftInv(t), t.stage = "commit", NEW p \in Parents
  PROVE  Contiguous(t.rows, p)
<1>. PICK x \in Items :
       /\ t.rows[x] = At(t.parent, t.to)
       /\ ShiftedBut(t, Moved(t), x)
       /\ t.item = None => item[x] = None
       /\ t.item # None => x = t.item
  BY CommittedRows
<1>. DEFINE S == ChildrenIn(item, t.parent)
            n == Cardinality(S)
            m == Cardinality(ChildrenIn(t.rows, t.parent))
<1>1. /\ ChildrenIn(t.rows, t.parent) = S \cup {x}
      /\ \A j \in S \ {x} :
           t.rows[j].position = IF j \in Moved(t)
                                THEN item[j].position + t.step ELSE item[j].position
  BY CommittedSiblings
<1>2. t.rows[x].position = t.to
  BY DEF At
<1>3. CASE p # t.parent
  <2>1. ChildrenIn(t.rows, p) = ChildrenIn(item, p)
        /\ \A j \in ChildrenIn(item, p) : t.rows[j] = item[j]
    <3>1. \A j \in Items : j \notin S \cup {x} => t.rows[j] = item[j]
      BY SiblingsTyped DEF ShiftedBut
    <3>2. \A j \in ChildrenIn(t.rows, p) \cup ChildrenIn(item, p) : j \in Items
      BY DEF ChildrenIn
    <3>3. \A j \in ChildrenIn(t.rows, p) : j \notin S \cup {x}
      BY <1>1, <1>3 DEF ChildrenIn
    <3>4. \A j \in ChildrenIn(item, p) : j \notin S \cup {x}
      <4>1. TAKE j \in ChildrenIn(item, p)
      <4>2. j \notin S
        BY <1>3 DEF ChildrenIn
      <4>3. x \in S \/ item[x] = None
        BY SiblingsTyped
      <4>. QED
        BY <4>2, <4>3 DEF ChildrenIn
    <3>. QED
      BY <3>1, <3>2, <3>3, <3>4 DEF ChildrenIn
  <2>. QED
    BY <2>1 DEF ListsContiguous, Contiguous
<1>4. CASE p = t.parent
  <2>1. n \in Nat /\ \A k \in 1..n : \E i \in S : item[i].position = k
    BY <1>4, FinitelyMany DEF ListsContiguous, Contiguous
  <2>2. t.to \in Int /\ t.to > 0
    BY DEF DraftInv, Tx
  <2>3. CASE t.item = None
    <3>1. m = n + 1
      <4>1. x \notin S
        BY <2>3 DEF ChildrenIn
      <4>. QED
        BY <1>1, <4>1, FinitelyMany, FS_AddElement
    <3>2. t.step = 1 /\ t.to <= n + 1
          /\ Moved(t) = {j \in S : item[j].position >= t.to}
      BY <2>3 DEF DraftInv, CreateInv, Moved
    <3>3. ASSUME NEW k \in 1..n+1
          PROVE  \E i \in S \cup {x} : t.rows[i].position = k
      <4>0. x \notin S
        BY <2>3 DEF ChildrenIn
      <4>1. CASE k = t.to
        BY <1>2, <4>1
      <4>2. CASE k < t.to
        <5>1. PICK i \in S : item[i].position = k
          BY <2>1, <2>2, <3>2, <4>2
        <5>. QED
          BY <1>1, <2>2, <3>2, <4>0, <4>2, <5>1
      <4>3. CASE k > t.to
        <5>0. k - 1 \in 1..n
          BY <2>1, <2>2, <3>2, <4>3
        <5>1. PICK i \in S : item[i].position = k - 1
          BY <2>1, <5>0
        <5>. QED
          BY <1>1, <2>2, <3>2, <4>0, <4>3, <5>1
      <4>. QED
        BY <2>2, <4>1, <4>2, <4>3
    <3>. QED
      BY <1>1, <1>4, <3>1, <3>3 DEF Contiguous
  <2>4. CASE t.item # None
    <3>. DEFINE from == item[x].position
    <3>1. x \in S /\ from \in Int /\ from > 0 /\ t.to <= n /\ t.to # from
          /\ t.step = (IF t.to > from THEN -1 ELSE 1)
          /\ Moved(t) = ShiftedBy(item, t.parent, x, from, t.to)
      BY <2>4, SiblingsTyped DEF DraftInv, MoveInv, Moved
    <3>2. m = n
      <4>1. S \cup {x} = S
        BY <3>1
      <4>. QED
        BY <1>1, <4>1
    <3>3. ASSUME NEW k \in 1..n
          PROVE  \E i \in S \cup {x} : t.rows[i].position = k
      <4>1. CASE k = t.to
        BY <1>2, <4>1
      <4>2. CASE k # t.to /\ t.to > from
        <5>1. Moved(t) = {j \in S \ {x} : item[j].position \in (from + 1)..t.to}
          BY <3>1, <4>2 DEF ShiftedBy
        <5>2. CASE k >= from /\ k < t.to
          <6>0. k + 1 \in 1..n
            BY <2>1, <2>2, <3>1, <5>2
          <6>1. PICK i \in S : item[i].position = k + 1
            BY <2>1, <6>0
          <6>. QED
            BY <1>1, <2>2, <3>1, <4>2, <5>1, <5>2, <6>1
        <5>3. CASE k < from \/ k > t.to
          <6>1. PICK i \in S : item[i].position = k
            BY <2>1
          <6>. QED
            BY <1>1, <2>2, <3>1, <4>2, <5>1, <5>3, <6>1
        <5>. QED
          BY <2>2, <3>1, <4>2, <5>2, <5>3
      <4>3. CASE k # t.to /\ ~(t.to > from)
        <5>1. Moved(t) = {j \in S \ {x} : item[j].position \in t.to..(from - 1)}
          BY <3>1, <4>3 DEF ShiftedBy
        <5>2. CASE k > t.to /\ k <= from
          <6>0. k - 1 \in 1..n
            BY <2>1, <2>2, <3>1, <5>2
          <6>1. PICK i \in S : item[i].position = k - 1
            BY <2>1, <6>0
          <6>. QED
            BY <1>1, <2>2, <3>1, <4>3, <5>1, <5>2, <6>1
        <5>3. CASE k < t.to \/ k > from
          <6>1. PICK i \in S : item[i].position = k
            BY <2>1
          <6>. QED
            BY <1>1, <2>2, <3>1, <4>3, <5>1, <5>3, <6>1
        <5>. QED
          BY <2>2, <3>1, <4>3, <5>2, <5>3
      <4>. QED
        BY <4>1, <4>2, <4>3
    <3>. QED
      BY <1>1, <1>4, <3>2, <3>3 DEF Contiguous
  <2>. QED  BY <2>3, <2>4
<1>. QED  BY <1>3, <1>4

-----------------------------------------------------------------------------
(* What a statement makes of a request *)

\* The request of c goes on as t, which relies on what DraftInv says.
Drafts(c) ==
  \E t \in Tx : /\ tx' = [tx EXCEPT ![c] = t]
                /\ t.stage \in Drafting
                /\ DraftInv(t)
                /\ UNCHANGED <<item, lock>>

\* BeginCreate gives the request what CreateInv says.
LEMMA CreateBegins ==
  ASSUME TypeOK, FreshInv, NEW c \in Clients, NEW p \in Parents, NEW asked \in Asked,
         BeginCreate(c, p, asked)
  PROVE  Drafts(c)
<1>. DEFINE n == Cardinality(ChildrenIn(item, p))
<1>1. n \in Nat
  BY FinitelyMany
<1>2. PICK k \in InsertPosition(n, asked) :
        tx' = [tx EXCEPT ![c] =
                 [@ EXCEPT !.stage = IF {j \in ChildrenIn(item, p) : item[j].position >= k} = {}
                                     THEN "place" ELSE "shift",
                           !.parent = p, !.rows = item,
                           !.todo = {j \in ChildrenIn(item, p) : item[j].position >= k},
                           !.step = 1, !.to = k]]
  BY DEF BeginCreate
<1>. DEFINE todo == {j \in ChildrenIn(item, p) : item[j].position >= k}
            t == [tx[c] EXCEPT !.stage = IF todo = {} THEN "place" ELSE "shift",
                               !.parent = p, !.rows = item,
                               !.todo = todo, !.step = 1, !.to = k]
<1>3. k \in Int /\ k > 0 /\ k <= n + 1
  <2>1. asked \in Int
    BY StructureAssumption, FS_CardinalityType DEF Asked
  <2>. QED
    BY <1>1, <2>1 DEF InsertPosition
<1>4. tx[c] \in Tx /\ tx[c].item = None
  BY DEF TypeOK, FreshInv, BeginCreate, Stage
<1>5. t \in Tx
  BY <1>3, <1>4 DEF Tx, Stages, TypeOK, ChildrenIn
<1>6. /\ t.item = None /\ t.parent = p /\ t.rows = item /\ t.todo = todo
      /\ t.step = 1 /\ t.to = k /\ t.stage = IF todo = {} THEN "place" ELSE "shift"
  BY <1>4 DEF Tx
<1>. HIDE DEF t
<1>7. Moved(t) = todo
  BY <1>6 DEF Moved
<1>8. ShiftedBut(t, Moved(t) \ t.todo, None)
  BY <1>6, <1>7 DEF ShiftedBut
<1>9. CreateInv(t)
  BY <1>3, <1>6, <1>8 DEF CreateInv
<1>10. DraftInv(t) /\ t.stage \in Drafting
  BY <1>3, <1>6, <1>7, <1>9 DEF DraftInv, Drafting
<1>. QED
  BY <1>2, <1>4, <1>5, <1>10 DEF t, Drafts, BeginCreate

\* BeginMove gives the request what MoveInv says.
LEMMA MoveBegins ==
  ASSUME TypeOK, NEW c \in Clients, NEW i \in Items, NEW asked \in Asked,
         BeginMove(c, i, asked)
  PROVE  Drafts(c)
<1>. DEFINE p == item[i].parent
            n == Cardinality(ChildrenIn(item, p))
            from == item[i].position
<1>1. n \in Nat /\ item[i] # None /\ asked # from
  BY FinitelyMany DEF BeginMove
<1>2. p \in Parents /\ from \in Int /\ from > 0 /\ item[i] = At(p, from)
  BY <1>1, RowsTyped DEF Row, At
<1>3. PICK k \in MovePosition(n, asked) :
        tx' = [tx EXCEPT ![c] =
                 [@ EXCEPT !.stage = "park", !.item = i, !.parent = p,
                           !.rows = item, !.to = k,
                           !.todo = ShiftedBy(item, p, i, from, k),
                           !.step = IF k > from THEN -1 ELSE 1]]
  BY DEF BeginMove
<1>. DEFINE todo == ShiftedBy(item, p, i, from, k)
            t == [tx[c] EXCEPT !.stage = "park", !.item = i, !.parent = p,
                               !.rows = item, !.to = k, !.todo = todo,
                               !.step = IF k > from THEN -1 ELSE 1]
<1>4. k \in Int /\ k > 0 /\ k <= n /\ k # from
  <2>1. asked \in Int
    BY StructureAssumption, FS_CardinalityType DEF Asked
  <2>. QED
    BY <1>1, <2>1 DEF MovePosition
<1>5. tx[c] \in Tx /\ todo \subseteq Items
  BY DEF TypeOK, ShiftedBy, ChildrenIn
<1>6. t \in Tx
  BY <1>2, <1>4, <1>5 DEF Tx, Stages, TypeOK
<1>7. /\ t.item = i /\ t.parent = p /\ t.rows = item /\ t.todo = todo
      /\ t.step = (IF k > from THEN -1 ELSE 1) /\ t.to = k /\ t.stage = "park"
  BY <1>5 DEF Tx
<1>. HIDE DEF t
<1>8. t.item # None
  BY <1>7, StructureAssumption
<1>9. Moved(t) = todo
  BY <1>7, <1>8 DEF Moved
<1>10. ShiftedBut(t, Moved(t) \ t.todo, t.item)
  BY <1>7, <1>9 DEF ShiftedBut
<1>11. MoveInv(t)
  BY <1>1, <1>2, <1>4, <1>7, <1>9, <1>10 DEF MoveInv
<1>12. DraftInv(t) /\ t.stage \in Drafting
  BY <1>2, <1>4, <1>7, <1>8, <1>9, <1>11 DEF DraftInv, Drafting
<1>. QED
  BY <1>3, <1>6, <1>12 DEF t, Drafts, BeginMove

\* The fields of a request after an UPDATE that meets no other row.
LEMMA PlacedFields ==
  ASSUME NEW t \in Tx, NEW i \in Items, NEW k \in Int, NEW next \in Stages,
         t.parent \in Parents, ~Taken(t.rows, i, t.parent, k),
         NEW u, u = Placed(t, i, k, next)
  PROVE  /\ u \in Tx
         /\ u.stage = next /\ u.item = t.item /\ u.parent = t.parent
         /\ u.step = t.step /\ u.to = t.to /\ u.todo = t.todo \ {i}
         /\ u.rows[i] = At(t.parent, k)
         /\ \A j \in Items \ {i} : u.rows[j] = t.rows[j]
         /\ Moved(u) = Moved(t)
<1>1. u = [t EXCEPT !.stage = next, !.todo = @ \ {i},
                    !.rows = [@ EXCEPT ![i] = At(t.parent, k)]]
  BY DEF Placed, At
<1>2. At(t.parent, k) \in Row
  BY DEF At, Row
<1>3. t.rows \in Rows
  BY DEF Tx
<1>4. [t.rows EXCEPT ![i] = At(t.parent, k)] \in Rows
  BY <1>2, <1>3 DEF Rows
<1>5. u \in Tx
  BY <1>1, <1>4 DEF Tx
<1>6. /\ u.stage = next /\ u.item = t.item /\ u.parent = t.parent
      /\ u.step = t.step /\ u.to = t.to /\ u.todo = t.todo \ {i}
      /\ u.rows = [t.rows EXCEPT ![i] = At(t.parent, k)]
  BY <1>1 DEF Tx
<1>7. /\ u.rows[i] = At(t.parent, k)
      /\ \A j \in Items \ {i} : u.rows[j] = t.rows[j]
  BY <1>3, <1>6 DEF Rows
<1>8. Moved(u) = Moved(t)
  BY <1>6 DEF Moved
<1>. QED  BY <1>5, <1>6, <1>7, <1>8

\* Park leaves all siblings where they were.
LEMMA Parks ==
  ASSUME TypeOK, NEW c \in Clients, DraftInv(tx[c]), Park(c)
  PROVE  Drafts(c)
<1>. DEFINE t == tx[c]
            u == Placed(t, t.item, -t.rows[t.item].position, Working(t))
<1>1. t \in Tx /\ t.stage = "park" /\ tx' = [tx EXCEPT ![c] = u]
      /\ UNCHANGED <<item, lock>>
  BY DEF TypeOK, Park
<1>2. t.item # None /\ t.item \in Items /\ MoveInv(t)
  BY <1>1 DEF DraftInv, CreateInv, Tx
<1>. HIDE DEF t
<1>3. /\ t.rows[t.item] = item[t.item]
      /\ ~Taken(t.rows, t.item, t.parent, -t.rows[t.item].position)
  BY <1>1, <1>2, ParkIsFree DEF t
<1>4. item[t.item].position \in Int /\ t.item \notin t.todo
  BY <1>1, <1>2, SiblingsTyped DEF DraftInv, t
<1>5. Working(t) = (IF t.todo = {} THEN "place" ELSE "shift") /\ Working(t) \in Stages
  BY DEF Working, Stages
<1>6. -t.rows[t.item].position \in Int /\ t.parent \in Parents
  BY <1>3, <1>4 DEF DraftInv, t
<1>7. /\ u \in Tx
      /\ u.stage = Working(t) /\ u.item = t.item /\ u.parent = t.parent
      /\ u.step = t.step /\ u.to = t.to /\ u.todo = t.todo \ {t.item}
      /\ u.rows[t.item] = At(t.parent, -t.rows[t.item].position)
      /\ \A j \in Items \ {t.item} : u.rows[j] = t.rows[j]
      /\ Moved(u) = Moved(t)
  BY <1>1, <1>2, <1>3, <1>5, <1>6, PlacedFields
<1>. HIDE DEF u
<1>8. u.todo = t.todo
  BY <1>4, <1>7
<1>9. ShiftedBut(u, Moved(u) \ u.todo, u.item)
  BY <1>2, <1>7, <1>8 DEF MoveInv, ShiftedBut
<1>10. MoveInv(u)
  BY <1>2, <1>3, <1>5, <1>7, <1>8, <1>9 DEF MoveInv
<1>11. DraftInv(u) /\ u.stage \in Drafting
  BY <1>2, <1>5, <1>7, <1>8, <1>10 DEF DraftInv, Drafting, t
<1>. QED
  BY <1>1, <1>7, <1>11 DEF Drafts

\* Shift takes a sibling to its new place and off the list.
LEMMA Shifts ==
  ASSUME TypeOK, Unique(item), NEW c \in Clients, DraftInv(tx[c]),
         NEW i \in Items, Shift(c, i)
  PROVE  Drafts(c)
<1>. DEFINE t == tx[c]
            next == Working([t EXCEPT !.todo = @ \ {i}])
            u == Placed(t, i, t.rows[i].position + t.step, next)
<1>1. t \in Tx /\ t.stage = "shift" /\ tx' = [tx EXCEPT ![c] = u]
      /\ i \in t.todo /\ IsNext(t, i) /\ UNCHANGED <<item, lock>>
  BY DEF TypeOK, Shift
<1>2. next = IF t.todo \ {i} = {} THEN "place" ELSE "shift"
  BY <1>1 DEF Working, Tx
<1>3. DraftInv(t)
  OBVIOUS
<1>. HIDE DEF t, next
<1>4. next \in Stages
  BY <1>2 DEF Stages
<1>5. /\ t.rows[i] = item[i]
      /\ ~Taken(t.rows, i, t.parent, t.rows[i].position + t.step)
  BY <1>1, <1>3, ShiftIsFree
<1>6. i \in Moved(t) /\ item[i].position + t.step \in Int /\ i # t.item
  BY <1>1, <1>3, SiblingsTyped DEF DraftInv
<1>7. t.parent \in Parents /\ t.rows[i].position + t.step \in Int
  BY <1>3, <1>5, <1>6 DEF DraftInv
<1>8. /\ u \in Tx
      /\ u.stage = next /\ u.item = t.item /\ u.parent = t.parent
      /\ u.step = t.step /\ u.to = t.to /\ u.todo = t.todo \ {i}
      /\ u.rows[i] = At(t.parent, item[i].position + t.step)
      /\ \A j \in Items \ {i} : u.rows[j] = t.rows[j]
      /\ Moved(u) = Moved(t)
  BY <1>1, <1>4, <1>5, <1>7, PlacedFields
<1>. HIDE DEF u
<1>9. \A x : ShiftedBut(t, Moved(t) \ t.todo, x) /\ x # i
              => ShiftedBut(u, Moved(u) \ u.todo, x)
  <2>1. TAKE x
  <2>2. HAVE ShiftedBut(t, Moved(t) \ t.todo, x) /\ x # i
  <2>3. ASSUME NEW j \in Items \ {x}
        PROVE  u.rows[j] = IF j \in Moved(u) \ u.todo
                           THEN At(u.parent, item[j].position + u.step) ELSE item[j]
    <3>1. CASE j = i
      BY <1>6, <1>8, <3>1
    <3>2. CASE j # i
      BY <1>8, <2>2, <2>3, <3>2 DEF ShiftedBut
    <3>. QED  BY <3>1, <3>2
  <2>. QED  BY <2>3 DEF ShiftedBut
<1>10. u.item = None => CreateInv(u)
  <2>1. SUFFICES ASSUME t.item = None PROVE CreateInv(u)
    BY <1>8
  <2>2. CreateInv(t) /\ ShiftedBut(t, Moved(t) \ t.todo, None)
    BY <1>1, <1>3, <2>1 DEF DraftInv, CreateInv
  <2>3. ShiftedBut(u, Moved(u) \ u.todo, None)
    BY <1>9, <2>2, StructureAssumption
  <2>. QED
    BY <1>2, <1>8, <2>2, <2>3 DEF CreateInv
<1>11. u.item # None => MoveInv(u)
  <2>1. SUFFICES ASSUME t.item # None PROVE MoveInv(u)
    BY <1>8
  <2>2. MoveInv(t)
    BY <1>3, <2>1 DEF DraftInv
  <2>3. ShiftedBut(u, Moved(u) \ u.todo, t.item)
    BY <1>6, <1>9, <2>2 DEF MoveInv
  <2>4. t.item \in Items /\ u.rows[t.item] = t.rows[t.item]
    BY <1>1, <1>6, <1>8, <2>1 DEF Tx
  <2>. QED
    BY <1>1, <1>2, <1>8, <2>2, <2>3, <2>4 DEF MoveInv
<1>12. DraftInv(u) /\ u.stage \in Drafting
  BY <1>2, <1>3, <1>8, <1>10, <1>11 DEF DraftInv, Drafting
<1>. QED
  BY <1>1, <1>8, <1>12 DEF Drafts

\* InsertRow puts the new row into the place made free.
LEMMA Inserts ==
  ASSUME TypeOK, Unique(item), NEW c \in Clients, DraftInv(tx[c]),
         NEW i \in Items, InsertRow(c, i)
  PROVE  Drafts(c)
<1>. DEFINE t == tx[c]
            u == Placed(t, i, t.to, "commit")
<1>1. t \in Tx /\ t.stage = "place" /\ t.item = None /\ t.rows[i] = None
      /\ UNCHANGED <<item, lock>> /\ tx' = [tx EXCEPT ![c] = u]
  BY DEF TypeOK, InsertRow, Stage
<1>2. DraftInv(t)
  OBVIOUS
<1>. HIDE DEF t
<1>3. /\ t.todo = {} /\ t.parent \in Parents /\ t.to \in Int /\ CreateInv(t)
  BY <1>1, <1>2 DEF DraftInv, Tx
<1>4. ShiftedBut(t, Moved(t), None)
  <2>1. Moved(t) \ t.todo = Moved(t)
    BY <1>3
  <2>. QED
    BY <1>1, <1>3, <2>1 DEF CreateInv
<1>5. item[i] = None
  <2>1. t.rows[i] = IF i \in Moved(t) THEN At(t.parent, item[i].position + t.step)
                    ELSE item[i]
    BY <1>4, StructureAssumption DEF ShiftedBut
  <2>2. CASE i \in Moved(t)
    <3>1. item[i].position + t.step \in Int
      BY <1>1, <1>2, <2>2, SiblingsTyped
    <3>2. At(t.parent, item[i].position + t.step) \in Row
      BY <1>3, <3>1 DEF At, Row
    <3>. QED
      BY <1>1, <2>1, <2>2, <3>2, NoItemAssumption
  <2>3. CASE i \notin Moved(t)
    BY <1>1, <2>1, <2>3
  <2>. QED  BY <2>2, <2>3
<1>6. ~Taken(t.rows, i, t.parent, t.to)
  BY <1>1, <1>2, PlaceIsFree
<1>7. /\ u \in Tx
      /\ u.stage = "commit" /\ u.item = t.item /\ u.parent = t.parent
      /\ u.step = t.step /\ u.to = t.to /\ u.todo = t.todo \ {i}
      /\ u.rows[i] = At(t.parent, t.to)
      /\ \A j \in Items \ {i} : u.rows[j] = t.rows[j]
      /\ Moved(u) = Moved(t)
  <2>1. "commit" \in Stages
    BY DEF Stages
  <2>. QED
    BY <1>1, <1>3, <1>6, <2>1, PlacedFields
<1>. HIDE DEF u
<1>8. ShiftedBut(u, Moved(u), i)
  BY <1>4, <1>7, StructureAssumption DEF ShiftedBut
<1>9. CreateInv(u)
  BY <1>3, <1>5, <1>7, <1>8 DEF CreateInv
<1>10. DraftInv(u) /\ u.stage \in Drafting
  BY <1>1, <1>2, <1>3, <1>7, <1>9 DEF DraftInv, Drafting
<1>. QED
  BY <1>1, <1>7, <1>10 DEF Drafts

\* Place puts the row that is moved into the place made free.
LEMMA Places ==
  ASSUME TypeOK, Unique(item), NEW c \in Clients, DraftInv(tx[c]), Place(c)
  PROVE  Drafts(c)
<1>. DEFINE t == tx[c]
            u == Placed(t, t.item, t.to, "commit")
<1>1. t \in Tx /\ t.stage = "place" /\ t.item # None
      /\ UNCHANGED <<item, lock>> /\ tx' = [tx EXCEPT ![c] = u]
  BY DEF TypeOK, Place
<1>2. DraftInv(t)
  OBVIOUS
<1>. HIDE DEF t
<1>3. /\ t.todo = {} /\ t.parent \in Parents /\ t.to \in Int /\ MoveInv(t)
      /\ t.item \in Items
  BY <1>1, <1>2 DEF DraftInv, Tx
<1>4. ~Taken(t.rows, t.item, t.parent, t.to)
  BY <1>1, <1>2, PlaceIsFree
<1>5. /\ u \in Tx
      /\ u.stage = "commit" /\ u.item = t.item /\ u.parent = t.parent
      /\ u.step = t.step /\ u.to = t.to /\ u.todo = t.todo \ {t.item}
      /\ u.rows[t.item] = At(t.parent, t.to)
      /\ \A j \in Items \ {t.item} : u.rows[j] = t.rows[j]
      /\ Moved(u) = Moved(t)
  <2>1. "commit" \in Stages
    BY DEF Stages
  <2>. QED
    BY <1>1, <1>3, <1>4, <2>1, PlacedFields
<1>. HIDE DEF u
<1>6. u.todo = t.todo
  BY <1>3, <1>5
<1>7. ShiftedBut(u, Moved(u) \ u.todo, u.item)
  BY <1>3, <1>5, <1>6 DEF MoveInv, ShiftedBut
<1>8. MoveInv(u)
  BY <1>3, <1>5, <1>7 DEF MoveInv
<1>9. DraftInv(u) /\ u.stage \in Drafting
  BY <1>1, <1>2, <1>3, <1>5, <1>6, <1>8 DEF DraftInv, Drafting
<1>. QED
  BY <1>1, <1>5, <1>9 DEF Drafts

-----------------------------------------------------------------------------
(* The invariant is inductive *)

\* What a request relies on depends on the committed rows alone.
LEMMA RowsStay ==
  ASSUME item' = item, NEW d, NEW t, tx'[d] = t, DraftInv(t)
  PROVE  DraftInv(tx[d])'
<1>1. Moved(tx[d])' = Moved(t)
  BY DEF Moved, ChildrenIn, ShiftedBy
<1>2. t.item = None => CreateInv(tx[d])'
  BY <1>1 DEF DraftInv, CreateInv, ShiftedBut, ChildrenIn, At
<1>3. t.item # None => MoveInv(tx[d])'
  BY <1>1 DEF DraftInv, MoveInv, ShiftedBut, ChildrenIn, At
<1>. QED
  BY <1>1, <1>2, <1>3 DEF DraftInv

\* A step that changes the request of c alone, and the lock only from and to c,
\* keeps the invariant if what it says of t holds.
LEMMA OneRequest ==
  ASSUME IInv, NEW c \in Clients, NEW t \in Tx, tx' = [tx EXCEPT ![c] = t],
         item' = item, lock' # lock => lock \in {c, None}, lock' \in {lock, c, None},
         t.stage \in Drafting \cup {"locked"} => lock' = c,
         t.stage \in {"idle", "locked"} => t.item = None,
         t.stage # "failed",
         t.stage \in Drafting => DraftInv(t)
  PROVE  IInv'
<1>0. tx \in [Clients -> Tx] /\ tx'[c] = t /\ \A d \in Clients \ {c} : tx'[d] = tx[d]
  BY DEF IInv, TypeOK
<1>1. TypeOK'
  BY <1>0, StructureAssumption DEF IInv, TypeOK
<1>2. LockInv'
  <2>1. SUFFICES ASSUME NEW d \in Clients, Stage(d)' \in Drafting \cup {"locked", "failed"}
                 PROVE  lock' = d
    BY DEF LockInv
  <2>2. CASE d = c
    BY <1>0, <2>1, <2>2 DEF Stage
  <2>3. CASE d # c
    <3>1. lock = d
      BY <1>0, <2>1, <2>3 DEF IInv, LockInv, Stage
    <3>2. d # None
      BY StructureAssumption
    <3>. QED
      BY <2>3, <3>1, <3>2
  <2>. QED  BY <2>2, <2>3
<1>3. FreshInv'
  BY <1>0 DEF IInv, FreshInv, Stage
<1>4. Unique(item)' /\ ListsContiguous'
  BY DEF IInv, Unique, ListsContiguous, Contiguous, ChildrenIn
<1>5. ASSUME NEW d \in Clients, Stage(d)' \in Drafting
      PROVE  DraftInv(tx[d])'
  <2>1. DraftInv(tx'[d])
    BY <1>0, <1>5 DEF IInv, Stage
  <2>. QED  BY <2>1, RowsStay
<1>6. NoCollision'
  BY <1>0 DEF IInv, NoCollision, Stage
<1>. QED
  BY <1>1, <1>2, <1>3, <1>4, <1>5, <1>6 DEF IInv

\* The statements of a transaction keep the invariant.
LEMMA DraftsKeep ==
  ASSUME IInv, NEW c \in Clients, lock = c, Drafts(c)
  PROVE  IInv'
<1>1. PICK t \in Tx : /\ tx' = [tx EXCEPT ![c] = t]
                      /\ t.stage \in Drafting /\ DraftInv(t)
                      /\ item' = item /\ lock' = lock
  BY DEF Drafts
<1>. QED
  BY <1>1, OneRequest DEF Drafting

\* A request that has ended is typed.
LEMMA IdleTyped ==
  IdleTx \in Tx
BY DEF IdleTx, Tx, Stages, Rows

\* A transaction that ends without a commit keeps the invariant.
LEMMA EndKeeps ==
  ASSUME IInv, NEW c \in Clients, lock = c, End(c), item' = item
  PROVE  IInv'
<1>1. IdleTx.stage = "idle" /\ IdleTx.item = None
  BY DEF IdleTx
<1>. QED
  BY <1>1, IdleTyped, OneRequest DEF End, Drafting

\* A commit keeps the invariant: no other transaction has begun.
LEMMA CommitKeeps ==
  ASSUME IInv, NEW c \in Clients, Commit(c)
  PROVE  IInv'
<1>. DEFINE t == tx[c]
<1>1. /\ t \in Tx /\ t.stage = "commit" /\ DraftInv(t) /\ lock = c
      /\ item' = t.rows /\ lock' = None /\ tx' = [tx EXCEPT ![c] = IdleTx]
      /\ TypeOK /\ Unique(item) /\ ListsContiguous
  BY DEF IInv, TypeOK, LockInv, Commit, End, Stage, Drafting
<1>2. tx'[c] = IdleTx /\ IdleTx.stage = "idle" /\ IdleTx.item = None
      /\ \A d \in Clients \ {c} : /\ tx'[d] = tx[d]
                                  /\ ~(Stage(d) \in Drafting \cup {"locked", "failed"})
  BY <1>1 DEF TypeOK, IInv, LockInv, IdleTx
<1>. HIDE DEF t
<1>3. TypeOK'
  <2>1. t.rows \in Rows
    BY <1>1 DEF Tx
  <2>2. ASSUME NEW i \in Items, t.rows[i] # None
        PROVE  t.rows[i].position > 0
    <3>. PICK x \in Items :
           /\ t.rows[x] = At(t.parent, t.to)
           /\ ShiftedBut(t, Moved(t), x)
           /\ t.item = None => item[x] = None
           /\ t.item # None => x = t.item
      BY <1>1, CommittedRows
    <3>1. CASE i = x
      BY <1>1, <3>1 DEF DraftInv, At
    <3>2. CASE i \in ChildrenIn(item, t.parent) \ {x}
      BY <1>1, <3>2, CommittedSiblings
    <3>3. CASE i \notin ChildrenIn(item, t.parent) \cup {x}
      <4>1. i \notin Moved(t)
        BY <1>1, <3>3, SiblingsTyped
      <4>2. t.rows[i] = item[i]
        BY <3>3, <4>1 DEF ShiftedBut
      <4>. QED
        BY <1>1, <2>2, <4>2, RowsTyped
    <3>. QED  BY <3>1, <3>2, <3>3
  <2>3. tx' \in [Clients -> Tx]
    BY <1>1, IdleTyped DEF TypeOK
  <2>. QED
    BY <1>1, <2>1, <2>2, <2>3 DEF TypeOK
<1>4. LockInv' /\ FreshInv' /\ NoCollision'
  BY <1>2 DEF IInv, LockInv, FreshInv, NoCollision, Stage, Drafting
<1>5. Unique(item)'
  <2>1. Unique(t.rows)
    BY <1>1, CommitKeepsUnique
  <2>. QED
    BY <1>1, <2>1 DEF Unique
<1>6. ListsContiguous'
  <2>1. \A p \in Parents : Contiguous(t.rows, p)
    BY <1>1, CommitKeepsContiguous
  <2>. QED
    BY <1>1, <2>1 DEF ListsContiguous, Contiguous, ChildrenIn
<1>7. \A d \in Clients : Stage(d)' \in Drafting => DraftInv(tx[d])'
  BY <1>2 DEF Stage, Drafting
<1>. QED
  BY <1>3, <1>4, <1>5, <1>6, <1>7 DEF IInv

\* What a reader has seen so far are rows.
LEMMA SeenTyped ==
  ASSUME TypeOK, NEW rows \in Rows, NEW S
  PROVE  Seen(rows, S) \in Rows
BY DEF TypeOK, Rows, Seen

\* A reader changes nothing that the invariant speaks of.
LEMMA ViewKeeps ==
  ASSUME IInv, NEW c \in Clients, View(c)
  PROVE  IInv'
<1>. DEFINE t == tx[c]
<1>1. TypeOK /\ t \in Tx /\ t.rows \in Rows /\ FreshInv
  BY DEF IInv, TypeOK, Tx
<1>2. ASSUME NEW stage \in {"lessons", "materials", "shown"}, NEW S,
             tx' = [tx EXCEPT ![c].stage = stage, ![c].rows = Seen(@, S)],
             UNCHANGED <<item, lock>>
      PROVE  IInv'
  <2>1. Seen(t.rows, S) \in Rows
    BY <1>1, SeenTyped
  <2>2. tx' = [tx EXCEPT ![c] = [t EXCEPT !.stage = stage, !.rows = Seen(t.rows, S)]]
    BY <1>1, <1>2 DEF TypeOK
  <2>3. [t EXCEPT !.stage = stage, !.rows = Seen(t.rows, S)] \in Tx
    BY <1>1, <2>1 DEF Tx, Stages
  <2>4. [t EXCEPT !.stage = stage, !.rows = Seen(t.rows, S)].stage = stage
    BY <1>1 DEF Tx
  <2>. QED
    BY <1>2, <2>2, <2>3, <2>4, OneRequest DEF Drafting
<1>3. CASE ReadChapters(c)
  BY <1>2, <1>3 DEF ReadChapters
<1>4. CASE ReadLessons(c)
  BY <1>2, <1>4 DEF ReadLessons
<1>5. CASE ReadMaterials(c)
  BY <1>2, <1>5 DEF ReadMaterials
<1>6. CASE Answer(c)
  <2>1. IdleTx.stage = "idle" /\ IdleTx.item = None
    BY DEF IdleTx
  <2>. QED
    BY <1>6, <2>1, IdleTyped, OneRequest DEF Answer, Drafting
<1>. QED
  BY <1>3, <1>4, <1>5, <1>6 DEF View

\* Every step of an editor keeps the invariant.
LEMMA EditKeeps ==
  ASSUME IInv, NEW c \in Clients, Edit(c)
  PROVE  IInv'
<1>1. /\ TypeOK /\ FreshInv /\ Unique(item) /\ tx[c] \in Tx
      /\ Stage(c) \in Drafting => DraftInv(tx[c])
      /\ Stage(c) \in Drafting \cup {"locked", "failed"} => lock = c
  BY DEF IInv, TypeOK, LockInv
<1>2. CASE LockCourse(c)
  <2>. DEFINE t == [tx[c] EXCEPT !.stage = "locked"]
  <2>1. /\ tx' = [tx EXCEPT ![c] = t] /\ item' = item /\ lock = None /\ lock' = c
        /\ Stage(c) = "idle"
    BY <1>1, <1>2 DEF LockCourse, CourseFree, TypeOK
  <2>2. t \in Tx /\ t.stage = "locked" /\ t.item = None
    BY <1>1, <2>1 DEF Tx, Stages, FreshInv
  <2>. QED
    BY <2>1, <2>2, OneRequest DEF Drafting
<1>3. CASE Rollback(c)
  BY <1>1, <1>3, EndKeeps DEF Rollback, Drafting
<1>4. CASE Park(c)
  <2>1. Drafts(c) /\ lock = c
    BY <1>1, <1>4, Parks DEF Park, Stage, Drafting
  <2>. QED  BY <2>1, DraftsKeep
<1>5. CASE Place(c)
  <2>1. Drafts(c) /\ lock = c
    BY <1>1, <1>5, Places DEF Place, Stage, Drafting
  <2>. QED  BY <2>1, DraftsKeep
<1>6. CASE Commit(c)
  BY <1>6, CommitKeeps
<1>7. ASSUME NEW i \in Items, InsertRow(c, i)
      PROVE  IInv'
  <2>1. Drafts(c) /\ lock = c
    BY <1>1, <1>7, Inserts DEF InsertRow, Stage, Drafting
  <2>. QED  BY <2>1, DraftsKeep
<1>8. ASSUME NEW i \in Items, Shift(c, i)
      PROVE  IInv'
  <2>1. Drafts(c) /\ lock = c
    BY <1>1, <1>8, Shifts DEF Shift, Stage, Drafting
  <2>. QED  BY <2>1, DraftsKeep
<1>9. ASSUME NEW p \in Parents, NEW k \in Asked, BeginCreate(c, p, k)
      PROVE  IInv'
  <2>1. Drafts(c) /\ lock = c
    BY <1>1, <1>9, CreateBegins DEF BeginCreate
  <2>. QED  BY <2>1, DraftsKeep
<1>10. ASSUME NEW i \in Items, NEW k \in Asked, Update(c, i, k)
       PROVE  IInv'
  <2>1. CASE UpdateText(c, i, k)
    BY <1>1, <2>1, EndKeeps DEF UpdateText
  <2>2. CASE BeginMove(c, i, k)
    <3>1. Drafts(c) /\ lock = c
      BY <1>1, <1>10, <2>2, MoveBegins DEF BeginMove
    <3>. QED  BY <3>1, DraftsKeep
  <2>. QED  BY <1>10, <2>1, <2>2 DEF Update
<1>11. Course \in Parents
  BY DEF Parents
<1>. QED
  BY <1>2, <1>3, <1>4, <1>5, <1>6, <1>7, <1>8, <1>9, <1>10, <1>11
     DEF Edit, CreateChapter, CreateLesson, CreateMaterial, UpdateChapter, UpdateLesson,
         UpdateMaterial

\* A course without chapters satisfies the invariant.
LEMMA InitKeeps == Init => IInv
<1>. SUFFICES ASSUME Init PROVE IInv
  OBVIOUS
<1>1. \A i \in Items : item[i] = None
  BY DEF Init
<1>2. \A c \in Clients : tx[c] = IdleTx /\ Stage(c) = "idle" /\ tx[c].item = None
  BY DEF Init, Stage, IdleTx
<1>3. TypeOK
  BY <1>1, IdleTyped DEF Init, TypeOK, Rows
<1>4. ListsContiguous
  <2>1. SUFFICES ASSUME NEW p \in Parents PROVE Contiguous(item, p)
    BY DEF ListsContiguous
  <2>2. ChildrenIn(item, p) = {}
    BY <1>1 DEF ChildrenIn
  <2>3. Cardinality(ChildrenIn(item, p)) = 0
    BY <2>2, FS_EmptySet
  <2>. QED
    BY <2>3 DEF Contiguous
<1>5. LockInv /\ FreshInv /\ NoCollision /\ Unique(item)
  BY <1>1, <1>2 DEF LockInv, FreshInv, NoCollision, Unique, Drafting
<1>. QED
  BY <1>2, <1>3, <1>4, <1>5 DEF IInv, Drafting

\* Every step, and every stutter, keeps the invariant.
LEMMA StepKeeps == IInv /\ [Next]_<<item, lock, tx>> => IInv'
<1>. SUFFICES ASSUME IInv, [Next]_<<item, lock, tx>> PROVE IInv'
  OBVIOUS
<1>1. CASE Next
  BY <1>1, EditKeeps, ViewKeeps DEF Next
<1>2. CASE UNCHANGED <<item, lock, tx>>
  <2>1. TypeOK' /\ LockInv' /\ FreshInv' /\ NoCollision'
    BY <1>2 DEF IInv, TypeOK, LockInv, FreshInv, NoCollision, Stage
  <2>2. Unique(item)' /\ ListsContiguous'
    BY <1>2 DEF IInv, Unique, ListsContiguous, Contiguous, ChildrenIn
  <2>3. ASSUME NEW c \in Clients, Stage(c)' \in Drafting
        PROVE  DraftInv(tx[c])'
    <3>1. DraftInv(tx[c]) /\ tx'[c] = tx[c] /\ item' = item
      BY <1>2, <2>3 DEF IInv, Stage
    <3>. QED  BY <3>1, RowsStay
  <2>. QED
    BY <2>1, <2>2, <2>3 DEF IInv
<1>. QED  BY <1>1, <1>2

-----------------------------------------------------------------------------
(* Reading the structure *)

\* Chapters stand under the course, lessons under chapters, materials under lessons.
Fits(rows) == \A i \in Items : rows[i] # None => i \in Kind(rows[i].parent)

\* The children of the parents in Q that exist are there in one order.
Complete(rows, Q) == \A p \in Q : IsParent(rows, p) => Contiguous(rows, p)

\* What a reader has seen after each query.
ViewInv(t) ==
  /\ t.stage = "idle" => t = IdleTx
  /\ t.stage = "lessons" => /\ \A i \in Lessons \cup Materials : t.rows[i] = None
                            /\ Complete(t.rows, {Course})
  /\ t.stage = "materials" => /\ \A i \in Materials : t.rows[i] = None
                              /\ Complete(t.rows, {Course} \cup Chapters)
  /\ t.stage = "shown" => Complete(t.rows, Parents)

ReadInv ==
  /\ Fits(item)
  /\ \A c \in Clients : Fits(tx[c].rows) /\ ViewInv(tx[c])

\* The query for the children of q in S completes the lists of q and leaves
\* those of Q.
LEMMA ReadLevel ==
  ASSUME TypeOK, ListsContiguous, Fits(item), NEW rows \in Rows, Fits(rows),
         NEW S \in SUBSET Items, NEW Q \in SUBSET Parents, NEW q \in SUBSET Parents,
         \A p \in Q : Kind(p) \cap S = {}, \A p \in q : Kind(p) = S,
         \A i \in S : rows[i] = None, Complete(rows, Q), S \cap (Q \cup q) = {}
  PROVE  /\ Fits(Seen(rows, S))
         /\ \A i \in Items \ S : Seen(rows, S)[i] = rows[i]
         /\ Complete(Seen(rows, S), Q \cup q)
<1>. DEFINE seen == Seen(rows, S)
<1>1. \A i \in Items : seen[i] = IF i \in S /\ item[i] # None
                                        /\ IsParent(rows, item[i].parent)
                                 THEN item[i] ELSE rows[i]
  BY DEF Seen
<1>. HIDE DEF seen
<1>2. Fits(seen)
  BY <1>1 DEF Fits
<1>3. \A i \in Items \ S : seen[i] = rows[i]
  BY <1>1
<1>4. \A p \in Q \cup q : IsParent(seen, p) <=> IsParent(rows, p)
  BY <1>3 DEF IsParent, Parents, Items
<1>5. ASSUME NEW p \in Q PROVE ChildrenIn(seen, p) = ChildrenIn(rows, p)
                               /\ \A i \in ChildrenIn(rows, p) : seen[i] = rows[i]
  <2>1. \A i \in ChildrenIn(seen, p) \cup ChildrenIn(rows, p) : i \in Kind(p)
    BY <1>2 DEF ChildrenIn, Fits
  <2>2. \A i \in ChildrenIn(seen, p) \cup ChildrenIn(rows, p) : seen[i] = rows[i]
    BY <1>3, <2>1 DEF ChildrenIn
  <2>. QED  BY <2>2 DEF ChildrenIn
<1>6. ASSUME NEW p \in q, IsParent(rows, p)
      PROVE  ChildrenIn(seen, p) = ChildrenIn(item, p)
             /\ \A i \in ChildrenIn(item, p) : seen[i] = item[i]
  <2>1. \A i \in ChildrenIn(seen, p) \cup ChildrenIn(item, p) : i \in S /\ i \in Items
    BY <1>2 DEF ChildrenIn, Fits
  <2>2. \A i \in ChildrenIn(item, p) : seen[i] = item[i]
    BY <1>1, <1>6, <2>1 DEF ChildrenIn
  <2>3. \A i \in ChildrenIn(seen, p) : seen[i] = item[i]
    BY <1>1, <2>1 DEF ChildrenIn
  <2>. QED  BY <2>2, <2>3 DEF ChildrenIn
<1>7. Complete(seen, Q \cup q)
  <2>1. SUFFICES ASSUME NEW p \in Q \cup q, IsParent(rows, p) PROVE Contiguous(seen, p)
    BY <1>4 DEF Complete
  <2>2. CASE p \in Q
    BY <1>5, <2>1, <2>2 DEF Complete, Contiguous
  <2>3. CASE p \in q
    BY <1>6, <2>1, <2>3 DEF ListsContiguous, Contiguous
  <2>. QED  BY <2>2, <2>3
<1>. QED
  BY <1>2, <1>3, <1>7 DEF seen

\* The three levels of the structure.
LEMMA Levels ==
  /\ Kind(Course) = Chapters
  /\ \A p \in Chapters : Kind(p) = Lessons
  /\ \A p \in Lessons : Kind(p) = Materials
  /\ Course \notin Chapters \cup Lessons \cup Materials
BY StructureAssumption DEF Kind, Items

\* Every query of a reader leaves what ViewInv says.
LEMMA Views ==
  ASSUME IInv, ReadInv, NEW c \in Clients, View(c)
  PROVE  ReadInv'
<1>. DEFINE t == tx[c]
<1>1. /\ TypeOK /\ ListsContiguous /\ Fits(item) /\ t \in Tx /\ t.rows \in Rows
      /\ Fits(t.rows) /\ ViewInv(t)
  BY DEF IInv, TypeOK, Tx, ReadInv
<1>2. ASSUME NEW u, tx' = [tx EXCEPT ![c] = u], item' = item, Fits(u.rows), ViewInv(u)
      PROVE  ReadInv'
  <2>1. \A d \in Clients : tx'[d] = IF d = c THEN u ELSE tx[d]
    BY <1>1, <1>2 DEF TypeOK
  <2>2. Fits(item)' /\ \A d \in Clients : Fits(tx[d].rows)'
    BY <1>2, <2>1 DEF ReadInv, Fits
  <2>3. ASSUME NEW d \in Clients PROVE ViewInv(tx[d])'
    <3>1. ViewInv(tx'[d])
      BY <1>2, <2>1 DEF ReadInv
    <3>. QED  BY <3>1 DEF ViewInv, Complete, IsParent, Contiguous, ChildrenIn
  <2>. QED  BY <2>2, <2>3 DEF ReadInv
<1>3. ASSUME NEW stage \in {"lessons", "materials", "shown"}, NEW S,
             tx' = [tx EXCEPT ![c].stage = stage, ![c].rows = Seen(@, S)], item' = item
      PROVE  \E u : /\ tx' = [tx EXCEPT ![c] = u]
                    /\ u.rows = Seen(t.rows, S) /\ u.stage = stage
  <2>. DEFINE u == [t EXCEPT !.stage = stage, !.rows = Seen(t.rows, S)]
  <2>1. tx' = [tx EXCEPT ![c] = u]
    BY <1>1, <1>3 DEF TypeOK
  <2>2. u.rows = Seen(t.rows, S) /\ u.stage = stage
    BY <1>1 DEF Tx
  <2>. QED  BY <2>1, <2>2
<1>4. CASE ReadChapters(c)
  <2>1. PICK u : /\ tx' = [tx EXCEPT ![c] = u]
                 /\ u.rows = Seen(t.rows, Chapters) /\ u.stage = "lessons"
    BY <1>3, <1>4 DEF ReadChapters
  <2>2. \A i \in Items : t.rows[i] = None
    BY <1>1, <1>4 DEF ReadChapters, Stage, ViewInv, IdleTx
  <2>3. Chapters \subseteq Items /\ Course \in Parents
    BY DEF Items, Parents
  <2>4. /\ Fits(u.rows) /\ \A i \in Items \ Chapters : u.rows[i] = t.rows[i]
        /\ Complete(u.rows, {} \cup {Course})
    <3>. DEFINE Q == {}
                q == {Course}
    <3>. HIDE DEF t
    <3>1. /\ Chapters \in SUBSET Items /\ Q \in SUBSET Parents /\ q \in SUBSET Parents
          /\ \A p \in Q : Kind(p) \cap Chapters = {}
          /\ \A p \in q : Kind(p) = Chapters
          /\ \A i \in Chapters : t.rows[i] = None
          /\ Complete(t.rows, Q) /\ Chapters \cap (Q \cup q) = {}
      BY <2>2, <2>3, Levels DEF Complete
    <3>. HIDE DEF Q, q
    <3>2. /\ Fits(Seen(t.rows, Chapters))
          /\ \A i \in Items \ Chapters : Seen(t.rows, Chapters)[i] = t.rows[i]
          /\ Complete(Seen(t.rows, Chapters), Q \cup q)
      BY <1>1, <3>1, ReadLevel
    <3>. QED
      BY <2>1, <3>2 DEF Q, q
  <2>5. ViewInv(u)
    BY <2>1, <2>2, <2>4, StructureAssumption DEF ViewInv, Items
  <2>. QED
    BY <1>2, <1>4, <2>1, <2>4, <2>5 DEF ReadChapters
<1>5. CASE ReadLessons(c)
  <2>1. PICK u : /\ tx' = [tx EXCEPT ![c] = u]
                 /\ u.rows = Seen(t.rows, Lessons) /\ u.stage = "materials"
    BY <1>3, <1>5 DEF ReadLessons
  <2>2. /\ \A i \in Lessons \cup Materials : t.rows[i] = None
        /\ Complete(t.rows, {Course})
    BY <1>1, <1>5 DEF ReadLessons, Stage, ViewInv
  <2>3. Lessons \in SUBSET Items /\ {Course} \in SUBSET Parents
        /\ Chapters \in SUBSET Parents
    BY DEF Items, Parents
  <2>4. /\ Fits(u.rows) /\ \A i \in Items \ Lessons : u.rows[i] = t.rows[i]
        /\ Complete(u.rows, {Course} \cup Chapters)
    <3>. DEFINE Q == {Course}
                q == Chapters
    <3>. HIDE DEF t
    <3>1. /\ Lessons \in SUBSET Items /\ Q \in SUBSET Parents /\ q \in SUBSET Parents
          /\ \A p \in Q : Kind(p) \cap Lessons = {}
          /\ \A p \in q : Kind(p) = Lessons
          /\ \A i \in Lessons : t.rows[i] = None
          /\ Complete(t.rows, Q) /\ Lessons \cap (Q \cup q) = {}
      BY <2>2, <2>3, Levels, StructureAssumption
    <3>. HIDE DEF Q, q
    <3>2. /\ Fits(Seen(t.rows, Lessons))
          /\ \A i \in Items \ Lessons : Seen(t.rows, Lessons)[i] = t.rows[i]
          /\ Complete(Seen(t.rows, Lessons), Q \cup q)
      BY <1>1, <3>1, ReadLevel
    <3>. QED
      BY <2>1, <3>2 DEF Q, q
  <2>5. ViewInv(u)
    BY <2>1, <2>2, <2>4, StructureAssumption DEF ViewInv, Items
  <2>. QED
    BY <1>2, <1>5, <2>1, <2>4, <2>5 DEF ReadLessons
<1>6. CASE ReadMaterials(c)
  <2>1. PICK u : /\ tx' = [tx EXCEPT ![c] = u]
                 /\ u.rows = Seen(t.rows, Materials) /\ u.stage = "shown"
    BY <1>3, <1>6 DEF ReadMaterials
  <2>2. /\ \A i \in Materials : t.rows[i] = None
        /\ Complete(t.rows, {Course} \cup Chapters)
    BY <1>1, <1>6 DEF ReadMaterials, Stage, ViewInv
  <2>3. Materials \in SUBSET Items /\ {Course} \cup Chapters \in SUBSET Parents
        /\ Lessons \in SUBSET Parents
    BY DEF Items, Parents
  <2>4. Fits(u.rows) /\ Complete(u.rows, ({Course} \cup Chapters) \cup Lessons)
    <3>. DEFINE Q == {Course} \cup Chapters
                q == Lessons
    <3>. HIDE DEF t
    <3>1. /\ Materials \in SUBSET Items /\ Q \in SUBSET Parents /\ q \in SUBSET Parents
          /\ \A p \in Q : Kind(p) \cap Materials = {}
          /\ \A p \in q : Kind(p) = Materials
          /\ \A i \in Materials : t.rows[i] = None
          /\ Complete(t.rows, Q) /\ Materials \cap (Q \cup q) = {}
      BY <2>2, <2>3, Levels, StructureAssumption
    <3>. HIDE DEF Q, q
    <3>2. /\ Fits(Seen(t.rows, Materials))
          /\ Complete(Seen(t.rows, Materials), Q \cup q)
      BY <1>1, <3>1, ReadLevel
    <3>. QED
      BY <2>1, <3>2 DEF Q, q
  <2>5. ViewInv(u)
    BY <2>1, <2>4 DEF ViewInv, Parents
  <2>. QED
    BY <1>2, <1>6, <2>1, <2>4, <2>5 DEF ReadMaterials
<1>7. CASE Answer(c)
  <2>1. Fits(IdleTx.rows) /\ ViewInv(IdleTx)
    BY DEF Fits, ViewInv, IdleTx
  <2>. QED
    BY <1>2, <1>7, <2>1 DEF Answer
<1>. QED
  BY <1>4, <1>5, <1>6, <1>7 DEF View

\* An UPDATE of a child of the request's parent keeps the levels, whether or
\* not it meets the unique index.
LEMMA PlacedFits ==
  ASSUME NEW t \in Tx, Fits(t.rows), NEW i \in Items, i \in Kind(t.parent), NEW k,
         NEW next
  PROVE  /\ Fits(Placed(t, i, k, next).rows)
         /\ Placed(t, i, k, next).stage \in {"failed", next}
BY DEF Placed, Fits, Tx, Rows

\* Every step of an editor keeps what readers have seen and the levels.
LEMMA Edits ==
  ASSUME IInv, ReadInv, NEW c \in Clients, Edit(c)
  PROVE  ReadInv'
<1>. DEFINE t == tx[c]
            Writing == {"locked", "park", "shift", "place", "commit", "failed"}
<1>1. /\ TypeOK /\ Fits(item) /\ t \in Tx /\ Fits(t.rows) /\ ViewInv(t)
      /\ t.stage \in Drafting => DraftInv(t)
  BY DEF IInv, TypeOK, ReadInv, Stage
<1>2. ASSUME NEW u, tx' = [tx EXCEPT ![c] = u], item' = item \/ item' = t.rows,
             Fits(u.rows), u = IdleTx \/ u.stage \in Writing
      PROVE  ReadInv'
  <2>1. \A d \in Clients : tx'[d] = IF d = c THEN u ELSE tx[d]
    BY <1>1, <1>2 DEF TypeOK
  <2>2. Fits(item)' /\ \A d \in Clients : Fits(tx[d].rows)'
    BY <1>1, <1>2, <2>1 DEF ReadInv, Fits
  <2>3. ViewInv(u)
    BY <1>2 DEF ViewInv, IdleTx
  <2>4. ASSUME NEW d \in Clients PROVE ViewInv(tx[d])'
    <3>1. ViewInv(tx'[d])
      BY <2>1, <2>3 DEF ReadInv
    <3>. QED  BY <3>1 DEF ViewInv, Complete, IsParent, Contiguous, ChildrenIn
  <2>. QED  BY <2>2, <2>4 DEF ReadInv
<1>3. ASSUME End(c), item' = item \/ item' = t.rows PROVE ReadInv'
  <2>1. Fits(IdleTx.rows)
    BY DEF Fits, IdleTx
  <2>. QED  BY <1>2, <1>3, <2>1 DEF End
<1>4. ASSUME NEW i \in Items, i \in Kind(t.parent), NEW k, NEW next \in Writing,
             tx' = [tx EXCEPT ![c] = Placed(t, i, k, next)], item' = item
      PROVE  ReadInv'
  <2>1. Fits(Placed(t, i, k, next).rows) /\ Placed(t, i, k, next).stage \in Writing
    BY <1>1, <1>4, PlacedFits
  <2>. QED  BY <1>2, <1>4, <2>1
<1>5. \A u : Working(u) \in Writing
  BY DEF Working
<1>6. ASSUME t.stage \in Drafting
      PROVE  /\ t.item # None => t.item \in Items /\ t.item \in Kind(t.parent)
             /\ \A i \in t.todo : i \in Items /\ i \in Kind(t.parent)
  <2>. HIDE DEF t
  <2>1. /\ t.item # None => t.item \in ChildrenIn(item, t.parent)
        /\ t.todo \subseteq ChildrenIn(item, t.parent)
    BY <1>1, <1>6, SiblingsTyped DEF DraftInv
  <2>. QED
    BY <1>1, <2>1 DEF Fits, ChildrenIn
<1>7. CASE LockCourse(c)
  <2>. DEFINE u == [t EXCEPT !.stage = "locked"]
  <2>1. /\ tx' = [tx EXCEPT ![c] = u] /\ u.rows = t.rows /\ u.stage = "locked"
        /\ item' = item
    BY <1>1, <1>7 DEF LockCourse, TypeOK, Tx
  <2>. HIDE DEF u
  <2>. QED  BY <1>1, <1>2, <2>1
<1>8. CASE Rollback(c)
  BY <1>3, <1>8 DEF Rollback
<1>9. CASE Park(c)
  <2>1. t.item # None /\ t.stage \in Drafting
    BY <1>1, <1>9 DEF Park, Drafting, DraftInv, CreateInv
  <2>. QED  BY <1>4, <1>5, <1>6, <1>9, <2>1 DEF Park
<1>10. CASE Place(c)
  BY <1>4, <1>6, <1>10 DEF Place, Drafting
<1>11. CASE Commit(c)
  BY <1>3, <1>11 DEF Commit
<1>12. ASSUME NEW i \in Items, InsertRow(c, i) PROVE ReadInv'
  BY <1>4, <1>12 DEF InsertRow
<1>13. ASSUME NEW i \in Items, Shift(c, i) PROVE ReadInv'
  BY <1>4, <1>5, <1>6, <1>13 DEF Shift, Drafting
<1>14. ASSUME NEW p \in Parents, NEW k \in Asked, BeginCreate(c, p, k) PROVE ReadInv'
  <2>1. PICK todo, to :
          tx' = [tx EXCEPT ![c] =
                   [@ EXCEPT !.stage = IF todo = {} THEN "place" ELSE "shift",
                             !.parent = p, !.rows = item,
                             !.todo = todo, !.step = 1, !.to = to]]
    BY <1>14 DEF BeginCreate
  <2>. DEFINE u == [t EXCEPT !.stage = IF todo = {} THEN "place" ELSE "shift",
                             !.parent = p, !.rows = item,
                             !.todo = todo, !.step = 1, !.to = to]
  <2>2. u.rows = item /\ u.stage \in Writing /\ tx' = [tx EXCEPT ![c] = u]
    BY <1>1, <2>1 DEF Tx, TypeOK
  <2>. HIDE DEF u
  <2>. QED  BY <1>1, <1>2, <1>14, <2>2 DEF BeginCreate
<1>15. ASSUME NEW i \in Items, NEW k \in Asked, Update(c, i, k) PROVE ReadInv'
  <2>1. CASE UpdateText(c, i, k)
    BY <1>3, <2>1 DEF UpdateText
  <2>2. CASE BeginMove(c, i, k)
    <3>1. PICK todo, to, step :
            tx' = [tx EXCEPT ![c] =
                     [@ EXCEPT !.stage = "park", !.item = i, !.parent = item[i].parent,
                               !.rows = item, !.to = to, !.todo = todo, !.step = step]]
      BY <2>2 DEF BeginMove
    <3>. DEFINE u == [t EXCEPT !.stage = "park", !.item = i, !.parent = item[i].parent,
                               !.rows = item, !.to = to, !.todo = todo, !.step = step]
    <3>2. u.rows = item /\ u.stage \in Writing /\ tx' = [tx EXCEPT ![c] = u]
      BY <1>1, <3>1 DEF Tx, TypeOK
    <3>. HIDE DEF u
    <3>. QED  BY <1>1, <1>2, <2>2, <3>2 DEF BeginMove
  <2>. QED  BY <1>15, <2>1, <2>2 DEF Update
<1>16. Course \in Parents
  BY DEF Parents
<1>. QED
  BY <1>7, <1>8, <1>9, <1>10, <1>11, <1>12, <1>13, <1>14, <1>15, <1>16
     DEF Edit, CreateChapter, CreateLesson, CreateMaterial, UpdateChapter, UpdateLesson,
         UpdateMaterial

\* Nobody has read anything at first.
LEMMA InitReads == Init => ReadInv
BY DEF Init, ReadInv, Fits, ViewInv, IdleTx

\* Every step, and every stutter, keeps what readers have seen.
LEMMA StepReads == IInv /\ ReadInv /\ [Next]_<<item, lock, tx>> => ReadInv'
<1>. SUFFICES ASSUME IInv, ReadInv, [Next]_<<item, lock, tx>> PROVE ReadInv'
  OBVIOUS
<1>1. CASE Next
  BY <1>1, Edits, Views DEF Next
<1>2. CASE UNCHANGED <<item, lock, tx>>
  BY <1>2 DEF ReadInv, Fits, ViewInv, Complete, IsParent, Contiguous, ChildrenIn
<1>. QED  BY <1>1, <1>2

-----------------------------------------------------------------------------
(* Theorems *)

\* The invariant holds in every state that editors and readers reach.
THEOREM Invariance == Spec => []IInv
BY InitKeeps, StepKeeps, PTL DEF Spec

\* Every committed row has a parent and a position above zero, and the lock and
\* every request are typed.
THEOREM TypesKept == Spec => []TypeOK
<1>1. IInv => TypeOK
  BY DEF IInv
<1>. QED  BY Invariance, <1>1, PTL

\* However many siblings there are and wherever a row is created or moved to, no
\* UPDATE of shiftForInsert or shiftForMove meets the unique index.
THEOREM ShiftsNeverCollide == Spec => []NoCollision
<1>1. IInv => NoCollision
  BY DEF IInv
<1>. QED  BY Invariance, <1>1, PTL

\* The committed positions under every parent are always 1 .. n, whatever
\* requests are working on the course.
THEOREM ListsStayContiguous == Spec => []ListsContiguous
<1>1. IInv => ListsContiguous
  BY DEF IInv
<1>. QED  BY Invariance, <1>1, PTL

\* A structure is answered in which every parent has its children in one
\* complete order, although its three queries are separate and other requests
\* commit between them.
THEOREM ShownStaysInOrder == Spec => []ShownInOrder
<1>1. ReadInv => ShownInOrder
  BY DEF ReadInv, ViewInv, Complete, ShownInOrder, Stage
<1>. QED
  BY Invariance, InitReads, StepReads, <1>1, PTL DEF Spec
-----------------------------------------------------------------------------
(* The positions as a list *)

\* The positions under a parent are 1 .. n, and the child at position k has k
\* siblings, itself among them, that do not stand behind it.
LEMMA RankIsPosition ==
  ASSUME NEW rows, NEW p, Unique(rows), Contiguous(rows, p), NEW i \in ChildrenIn(rows, p)
  PROVE  LET S == ChildrenIn(rows, p) IN
         /\ rows[i].position \in 1..Cardinality(S)
         /\ Cardinality({j \in S : rows[j].position <= rows[i].position}) = rows[i].position
<1>. DEFINE S == ChildrenIn(rows, p)
            n == Cardinality(S)
            f == [k \in 1..n |-> CHOOSE j \in S : rows[j].position = k]
<1>1. n \in Nat /\ IsFiniteSet(S)
  BY FinitelyMany
<1>2. \A j, k \in S : rows[j].position = rows[k].position => j = k
  BY DEF Unique, ChildrenIn
<1>3. ASSUME NEW k \in 1..n
      PROVE  f[k] \in S /\ rows[f[k]].position = k
  <2>1. \E j \in S : rows[j].position = k
    BY DEF Contiguous
  <2>. QED  BY <2>1
<1>. HIDE DEF f
<1>4. DOMAIN f = 1..n /\ f = [k \in 1..n |-> f[k]]
  BY DEF f
<1>. HIDE DEF S, n
<1>5. f \in [1..n -> S]
  BY <1>3, <1>4
<1>6. f \in Injection(1..n, S)
  BY <1>3, <1>5, Fun_IsInj
<1>7. f \in Surjection(1..n, S)
  <2>1. Cardinality(1..n) = n
    BY <1>1, FS_Interval
  <2>. QED
    BY <1>1, <1>6, <2>1, FS_Injection DEF n
<1>8. \A j \in S : \E k \in 1..n : f[k] = j
  BY <1>7 DEF Surjection
<1>9. i \in S
  BY DEF S
<1>10. PICK m \in 1..n : f[m] = i
  BY <1>8, <1>9
<1>11. rows[i].position = m
  BY <1>3, <1>10
<1>. DEFINE T == {j \in S : rows[j].position <= m}
            g == [k \in 1..m |-> f[k]]
<1>12. \A k \in 1..m : k \in 1..n /\ f[k] \in T
  BY <1>1, <1>3
<1>13. \A j \in T : \E k \in 1..m : f[k] = j
  <2>1. TAKE j \in T
  <2>2. PICK k \in 1..n : f[k] = j
    BY <1>8
  <2>3. rows[j].position = k
    BY <1>3, <2>2
  <2>. QED
    BY <2>2, <2>3
<1>14. /\ g \in [1..m -> T]
       /\ \A a, b \in 1..m : g[a] = g[b] => a = b
       /\ \A j \in T : \E k \in 1..m : g[k] = j
  <2>. HIDE DEF T
  <2>1. \A a, b \in 1..m : f[a] = f[b] => a = b
    BY <1>3, <1>12
  <2>. QED
    BY <1>12, <1>13, <2>1
<1>. HIDE DEF g, T
<1>15. g \in Bijection(1..m, T)
  BY <1>14, Fun_IsBij
<1>16. Cardinality(T) = Cardinality(1..m) /\ IsFiniteSet(1..m)
  <2>1. IsFiniteSet(1..m) /\ ExistsBijection(1..m, T)
    BY <1>15, FS_Interval, Fun_ExistsBij
  <2>. QED
    BY <2>1, FS_Bijection
<1>17. Cardinality(1..m) = m
  BY FS_Interval
<1>. QED
  BY <1>11, <1>16, <1>17 DEF T, S, n

\* The list of a parent has its child with position k at place k.
LEMMA ListIs ==
  ASSUME NEW rows, NEW p, Unique(rows), Contiguous(rows, p)
  PROVE  LET S == ChildrenIn(rows, p)
             s == ListOf(rows, p)
         IN /\ s \in Seq(S)
            /\ Len(s) = Cardinality(S)
            /\ \A k \in 1..Len(s) : s[k] \in S /\ rows[s[k]].position = k
            /\ \A i \in S : rows[i].position \in 1..Len(s) /\ s[rows[i].position] = i
<1>. DEFINE S == ChildrenIn(rows, p)
            n == Cardinality(S)
            s == ListOf(rows, p)
            rank(i) == Cardinality({j \in S : rows[j].position <= rows[i].position})
<1>1. n \in Nat
  BY FinitelyMany
<1>2. \A i \in S : rows[i].position \in 1..n /\ rank(i) = rows[i].position
  BY RankIsPosition
<1>3. \A k \in 1..n : \E i \in S : rows[i].position = k
  BY DEF Contiguous
<1>4. s = [k \in 1..n |-> CHOOSE i \in S : rank(i) = k]
  BY DEF ListOf
<1>5. \A i, j \in S : rows[i].position = rows[j].position => i = j
  BY DEF Unique, ChildrenIn
<1>. HIDE DEF S, n, s, rank
<1>6. \A k \in 1..n : s[k] \in S /\ rows[s[k]].position = k
  <2>1. TAKE k \in 1..n
  <2>2. \E i \in S : rank(i) = k
    BY <1>2, <1>3
  <2>3. s[k] = CHOOSE i \in S : rank(i) = k
    BY <1>4
  <2>4. s[k] \in S /\ rank(s[k]) = k
    BY <2>2, <2>3
  <2>. QED  BY <1>2, <2>4
<1>7. s \in [1..n -> S]
  BY <1>4, <1>6
<1>8. s \in Seq(S) /\ Len(s) = n
  BY <1>1, <1>7
<1>. QED
  BY <1>2, <1>5, <1>6, <1>8 DEF S, n, s
\* What InsertAt makes of a sequence.
LEMMA InsertAtIs ==
  ASSUME NEW S, NEW s \in Seq(S), NEW e \in S, NEW k \in 1..Len(s) + 1
  PROVE  LET r == Ordered!InsertAt(s, k, e) IN
         /\ r \in Seq(S)
         /\ Len(r) = Len(s) + 1
         /\ \A j \in 1..Len(s) + 1 :
              r[j] = IF j < k THEN s[j] ELSE IF j = k THEN e ELSE s[j - 1]
<1>. DEFINE a == SubSeq(s, 1, k - 1)
            b == SubSeq(s, k, Len(s))
            n == Len(s)
<1>1. n \in Nat /\ \A j \in 1..n : s[j] \in S
  BY ElementOfSeq
<1>2. /\ a \in Seq(S) /\ Len(a) = k - 1
      /\ \A j \in 1..k - 1 : a[j] = s[j]
  BY <1>1, SubSeqProperties
<1>3. /\ b \in Seq(S) /\ Len(b) = n - k + 1
      /\ \A j \in 1..n - k + 1 : b[j] = s[k + j - 1]
  BY <1>1, SubSeqProperties
<1>4. <<e>> \in Seq(S) /\ Len(<<e>>) = 1 /\ <<e>>[1] = e
  OBVIOUS
<1>. HIDE DEF a, b, n
<1>. DEFINE ae == a \o <<e>>
<1>5. /\ ae \in Seq(S) /\ Len(ae) = k
      /\ \A j \in 1..k : ae[j] = IF j <= k - 1 THEN a[j] ELSE <<e>>[j - (k - 1)]
  BY <1>1, <1>2, <1>4, ConcatProperties
<1>6. \A j \in 1..k : ae[j] = IF j < k THEN s[j] ELSE e
  BY <1>1, <1>2, <1>4, <1>5
<1>. HIDE DEF ae
<1>. DEFINE r == ae \o b
<1>7. /\ r \in Seq(S) /\ Len(r) = k + (n - k + 1)
      /\ \A j \in 1..k + (n - k + 1) : r[j] = IF j <= k THEN ae[j] ELSE b[j - k]
  <2>1. /\ r \in Seq(S) /\ Len(r) = Len(ae) + Len(b)
        /\ \A j \in 1..Len(ae) + Len(b) : r[j] = IF j <= Len(ae) THEN ae[j] ELSE b[j - Len(ae)]
    BY <1>3, <1>5, ConcatProperties, Zenon
  <2>2. Len(ae) = k /\ Len(b) = n - k + 1
    BY <1>3, <1>5
  <2>. QED  BY <2>1, <2>2, Zenon
<1>. HIDE DEF r
<1>8. Len(r) = n + 1 /\ k + (n - k + 1) = n + 1
  BY <1>1, <1>7
<1>9. ASSUME NEW j \in 1..n + 1
      PROVE  r[j] = IF j < k THEN s[j] ELSE IF j = k THEN e ELSE s[j - 1]
  <2>1. CASE j <= k
    BY <1>1, <1>6, <1>7, <1>8, <2>1
  <2>2. CASE j > k
    <3>1. j - k \in 1..n - k + 1 /\ k + (j - k) - 1 = j - 1
      BY <1>1, <2>2
    <3>2. r[j] = b[j - k]
      BY <1>1, <1>7, <1>8, <2>2
    <3>. QED
      BY <1>1, <1>3, <2>2, <3>1, <3>2
  <2>. QED  BY <1>1, <2>1, <2>2
<1>10. Ordered!InsertAt(s, k, e) = r
  BY DEF Ordered!InsertAt, r, ae, a, b, n
<1>. QED
  BY <1>7, <1>8, <1>9, <1>10 DEF n

\* What RemoveAt makes of a sequence.
LEMMA RemoveAtIs ==
  ASSUME NEW S, NEW s \in Seq(S), NEW k \in 1..Len(s)
  PROVE  LET r == Ordered!RemoveAt(s, k) IN
         /\ r \in Seq(S)
         /\ Len(r) = Len(s) - 1
         /\ \A j \in 1..Len(s) - 1 : r[j] = IF j < k THEN s[j] ELSE s[j + 1]
<1>. DEFINE a == SubSeq(s, 1, k - 1)
            b == SubSeq(s, k + 1, Len(s))
            n == Len(s)
<1>1. n \in Nat /\ \A j \in 1..n : s[j] \in S
  BY ElementOfSeq
<1>2. /\ a \in Seq(S) /\ Len(a) = k - 1
      /\ \A j \in 1..k - 1 : a[j] = s[j]
  BY <1>1, SubSeqProperties
<1>3. /\ b \in Seq(S) /\ Len(b) = n - k
      /\ \A j \in 1..n - k : b[j] = s[k + j]
  BY <1>1, SubSeqProperties
<1>. HIDE DEF a, b, n
<1>. DEFINE r == a \o b
<1>4. /\ r \in Seq(S) /\ Len(r) = k - 1 + (n - k)
      /\ \A j \in 1..k - 1 + (n - k) : r[j] = IF j <= k - 1 THEN a[j] ELSE b[j - (k - 1)]
  <2>1. /\ r \in Seq(S) /\ Len(r) = Len(a) + Len(b)
        /\ \A j \in 1..Len(a) + Len(b) : r[j] = IF j <= Len(a) THEN a[j] ELSE b[j - Len(a)]
    BY <1>2, <1>3, ConcatProperties, Zenon
  <2>2. Len(a) = k - 1 /\ Len(b) = n - k
    BY <1>2, <1>3
  <2>. QED  BY <2>1, <2>2, Zenon
<1>. HIDE DEF r
<1>5. Len(r) = n - 1 /\ k - 1 + (n - k) = n - 1
  BY <1>1, <1>4 DEF n
<1>6. ASSUME NEW j \in 1..n - 1
      PROVE  r[j] = IF j < k THEN s[j] ELSE s[j + 1]
  <2>1. CASE j < k
    BY <1>1, <1>2, <1>4, <1>5, <2>1
  <2>2. CASE j >= k
    <3>1. j - (k - 1) \in 1..n - k /\ k + (j - (k - 1)) = j + 1
      BY <1>1, <2>2
    <3>2. r[j] = b[j - (k - 1)]
      BY <1>1, <1>4, <1>5, <2>2
    <3>. QED
      BY <1>1, <1>3, <2>2, <3>1, <3>2
  <2>. QED  BY <1>1, <2>1, <2>2
<1>7. Ordered!RemoveAt(s, k) = r
  BY DEF Ordered!RemoveAt, r, a, b, n
<1>. QED
  BY <1>4, <1>5, <1>6, <1>7 DEF n
\* What a sequence becomes when its element at a place is put at another one.
LEMMA ReplacedIs ==
  ASSUME NEW S, NEW s \in Seq(S), NEW e \in S, NEW from \in 1..Len(s), NEW to \in 1..Len(s)
  PROVE  LET r == Ordered!InsertAt(Ordered!RemoveAt(s, from), to, e) IN
         /\ r \in Seq(S)
         /\ Len(r) = Len(s)
         /\ \A k \in 1..Len(s) :
              r[k] = IF k < to THEN IF k < from THEN s[k] ELSE s[k + 1]
                     ELSE IF k = to THEN e
                     ELSE IF k - 1 < from THEN s[k - 1] ELSE s[k]
<1>. DEFINE n == Len(s)
            q == Ordered!RemoveAt(s, from)
            r == Ordered!InsertAt(q, to, e)
<1>1. n \in Nat
  OBVIOUS
<1>2. /\ q \in Seq(S) /\ Len(q) = n - 1
      /\ \A k \in 1..n - 1 : q[k] = IF k < from THEN s[k] ELSE s[k + 1]
  BY RemoveAtIs
<1>. HIDE DEF q
<1>3. to \in 1..Len(q) + 1
  BY <1>1, <1>2
<1>4. /\ r \in Seq(S) /\ Len(r) = Len(q) + 1
      /\ \A k \in 1..Len(q) + 1 :
           r[k] = IF k < to THEN q[k] ELSE IF k = to THEN e ELSE q[k - 1]
  BY <1>2, <1>3, InsertAtIs
<1>. HIDE DEF r
<1>5. ASSUME NEW k \in 1..n
      PROVE  r[k] = IF k < to THEN IF k < from THEN s[k] ELSE s[k + 1]
                    ELSE IF k = to THEN e
                    ELSE IF k - 1 < from THEN s[k - 1] ELSE s[k]
  <2>1. r[k] = IF k < to THEN q[k] ELSE IF k = to THEN e ELSE q[k - 1]
    BY <1>1, <1>2, <1>4
  <2>2. CASE k < to
    <3>1. k \in 1..n - 1
      BY <1>1, <2>2
    <3>. QED  BY <1>2, <2>1, <2>2, <3>1
  <2>3. CASE k = to
    BY <2>1, <2>3
  <2>4. CASE k > to
    <3>1. k - 1 \in 1..n - 1 /\ (k - 1) + 1 = k
      BY <1>1, <2>4
    <3>2. q[k - 1] = IF k - 1 < from THEN s[k - 1] ELSE s[(k - 1) + 1]
      BY <1>2, <3>1
    <3>. QED  BY <2>1, <2>4, <3>1, <3>2
  <2>. QED  BY <1>1, <2>2, <2>3, <2>4
<1>. QED
  BY <1>1, <1>2, <1>4, <1>5 DEF r, q, n

-----------------------------------------------------------------------------
(* Every commit is a step of OrderedList *)

\* A list of the children, each at its position, is the list.
LEMMA ListIsUnique ==
  ASSUME NEW rows, NEW p, Unique(rows), Contiguous(rows, p),
         NEW r \in Seq(ChildrenIn(rows, p)), Len(r) = Cardinality(ChildrenIn(rows, p)),
         \A k \in 1..Len(r) : rows[r[k]].position = k
  PROVE  ListOf(rows, p) = r
<1>. DEFINE S == ChildrenIn(rows, p)
            s == ListOf(rows, p)
<1>1. s \in Seq(S) /\ Len(s) = Len(r) /\ \A i \in S : s[rows[i].position] = i
  BY ListIs
<1>2. \A k \in 1..Len(r) : r[k] \in S
  BY ElementOfSeq
<1>3. r \in Seq(S)
  OBVIOUS
<1>. HIDE DEF S, s
<1>4. \A k \in 1..Len(s) : s[k] = r[k]
  BY <1>1, <1>2
<1>5. s = r
  BY <1>1, <1>3, <1>4, SeqEqual
<1>. QED
  BY <1>5 DEF s

\* A commit leaves the children of the other parents alone.
LEMMA OthersStay ==
  ASSUME TypeOK, Unique(item), NEW t \in Tx, DraftInv(t), t.stage = "commit",
         NEW p \in Parents \ {t.parent}
  PROVE  /\ ChildrenIn(t.rows, p) = ChildrenIn(item, p)
         /\ \A j \in ChildrenIn(item, p) : t.rows[j] = item[j]
<1>. PICK x \in Items :
       /\ t.rows[x] = At(t.parent, t.to)
       /\ ShiftedBut(t, Moved(t), x)
       /\ t.item = None => item[x] = None
       /\ t.item # None => x = t.item
  BY CommittedRows
<1>. DEFINE S == ChildrenIn(item, t.parent)
<1>1. ChildrenIn(t.rows, t.parent) = S \cup {x}
  BY CommittedSiblings
<1>2. \A j \in Items : j \notin S \cup {x} => t.rows[j] = item[j]
  BY SiblingsTyped DEF ShiftedBut
<1>3. \A j \in ChildrenIn(t.rows, p) \cup ChildrenIn(item, p) : j \in Items
  BY DEF ChildrenIn
<1>4. \A j \in ChildrenIn(t.rows, p) : j \notin S \cup {x}
  BY <1>1 DEF ChildrenIn
<1>5. \A j \in ChildrenIn(item, p) : j \notin S \cup {x}
  <2>1. TAKE j \in ChildrenIn(item, p)
  <2>2. j \notin S
    BY DEF ChildrenIn
  <2>3. x \in S \/ item[x] = None
    BY SiblingsTyped
  <2>. QED
    BY <2>2, <2>3 DEF ChildrenIn
<1>. QED
  BY <1>2, <1>3, <1>4, <1>5 DEF ChildrenIn

\* A row that is created is inserted at its position.
LEMMA CreateInserts ==
  ASSUME TypeOK, Unique(item), NEW t \in Tx, DraftInv(t), t.stage = "commit",
         t.item = None, Contiguous(item, t.parent),
         Unique(t.rows), Contiguous(t.rows, t.parent),
         NEW x \in Items, t.rows[x] = At(t.parent, t.to), ShiftedBut(t, Moved(t), x),
         item[x] = None
  PROVE  /\ t.to \in 1..Len(ListOf(item, t.parent)) + 1
         /\ ListOf(t.rows, t.parent) = Ordered!InsertAt(ListOf(item, t.parent), t.to, x)
<1>. DEFINE S == ChildrenIn(item, t.parent)
            S2 == ChildrenIn(t.rows, t.parent)
            s == ListOf(item, t.parent)
            r == Ordered!InsertAt(s, t.to, x)
<1>1. /\ S2 = S \cup {x} /\ x \notin S
      /\ \A j \in S \ {x} :
           t.rows[j].position = IF j \in Moved(t)
                                THEN item[j].position + t.step ELSE item[j].position
  BY CommittedSiblings DEF ChildrenIn
<1>2. /\ s \in Seq(S) /\ Len(s) = Cardinality(S)
      /\ \A k \in 1..Len(s) : s[k] \in S /\ item[s[k]].position = k
  BY ListIs
<1>3. /\ t.step = 1 /\ t.to \in Int /\ t.to > 0 /\ t.to <= Cardinality(S) + 1
      /\ Moved(t) = {j \in S : item[j].position >= t.to}
  BY SiblingsTyped DEF DraftInv, CreateInv, Moved
<1>4. t.rows[x].position = t.to
  BY DEF At
<1>5. Len(s) \in Nat /\ Cardinality(S2) = Len(s) + 1
  <2>1. IsFiniteSet(S) /\ Cardinality(S) \in Nat
    BY FinitelyMany
  <2>. HIDE DEF S, S2, s
  <2>2. Cardinality(S \cup {x}) = Cardinality(S) + 1
    BY <1>1, <2>1, FS_AddElement
  <2>. QED
    BY <1>1, <1>2, <2>1, <2>2
<1>6. t.to \in 1..Len(s) + 1
  BY <1>2, <1>3, <1>5
<1>. HIDE DEF S, S2, s
<1>7. s \in Seq(S2) /\ x \in S2
  BY <1>1, <1>2, SeqMonotonic
<1>8. /\ r \in Seq(S2) /\ Len(r) = Len(s) + 1
      /\ \A k \in 1..Len(s) + 1 :
           r[k] = IF k < t.to THEN s[k] ELSE IF k = t.to THEN x ELSE s[k - 1]
  BY <1>6, <1>7, InsertAtIs
<1>. HIDE DEF r
<1>9. ASSUME NEW k \in 1..Len(r)
      PROVE  t.rows[r[k]].position = k
  <2>1. CASE k < t.to
    <3>1. r[k] = s[k] /\ k \in 1..Len(s)
      BY <1>5, <1>6, <1>8, <2>1
    <3>. QED
      BY <1>1, <1>2, <1>3, <2>1, <3>1
  <2>2. CASE k = t.to
    BY <1>4, <1>8, <2>2
  <2>3. CASE k > t.to
    <3>1. r[k] = s[k - 1] /\ k - 1 \in 1..Len(s) /\ k - 1 >= t.to
      BY <1>5, <1>6, <1>8, <2>3
    <3>2. r[k] \in Moved(t) /\ r[k] \in S \ {x} /\ item[r[k]].position = k - 1
      BY <1>1, <1>2, <1>3, <3>1
    <3>. QED
      BY <1>1, <1>3, <3>2
  <2>. QED  BY <1>6, <2>1, <2>2, <2>3
<1>10. ListOf(t.rows, t.parent) = r
  BY <1>5, <1>8, <1>9, ListIsUnique DEF S2
<1>. QED
  BY <1>6, <1>10 DEF r, s

\* A row that is moved is taken out of its place and inserted at the new one.
LEMMA MoveMoves ==
  ASSUME TypeOK, Unique(item), NEW t \in Tx, DraftInv(t), t.stage = "commit",
         t.item # None, Contiguous(item, t.parent),
         Unique(t.rows), Contiguous(t.rows, t.parent)
  PROVE  LET s == ListOf(item, t.parent)
             from == item[t.item].position
         IN /\ t.to \in 1..Len(s) /\ from \in 1..Len(s) /\ s[from] = t.item
            /\ ListOf(t.rows, t.parent)
                 = Ordered!InsertAt(Ordered!RemoveAt(s, from), t.to, t.item)
<1>. DEFINE x == t.item
            S == ChildrenIn(item, t.parent)
            s == ListOf(item, t.parent)
            from == item[x].position
            r == Ordered!InsertAt(Ordered!RemoveAt(s, from), t.to, x)
<1>1. x \in Items /\ t.rows[x] = At(t.parent, t.to) /\ ShiftedBut(t, Moved(t), x)
  BY CommittedRows
<1>2. /\ ChildrenIn(t.rows, t.parent) = S \cup {x}
      /\ \A j \in S \ {x} :
           t.rows[j].position = IF j \in Moved(t)
                                THEN item[j].position + t.step ELSE item[j].position
  BY <1>1, CommittedSiblings
<1>3. /\ x \in S /\ t.to \in Int /\ t.to > 0 /\ t.to <= Cardinality(S) /\ t.to # from
      /\ t.step = (IF t.to > from THEN -1 ELSE 1)
      /\ Moved(t) = ShiftedBy(item, t.parent, x, from, t.to)
  BY SiblingsTyped DEF DraftInv, MoveInv, Moved
<1>4. /\ s \in Seq(S) /\ Len(s) = Cardinality(S)
      /\ \A k \in 1..Len(s) : s[k] \in S /\ item[s[k]].position = k
      /\ \A i \in S : item[i].position \in 1..Len(s) /\ s[item[i].position] = i
  BY ListIs
<1>5. ChildrenIn(t.rows, t.parent) = S
  BY <1>2, <1>3
<1>6. /\ t.to > from => Moved(t) = {j \in S \ {x} : item[j].position \in (from + 1)..t.to}
      /\ t.to < from => Moved(t) = {j \in S \ {x} : item[j].position \in t.to..(from - 1)}
  BY <1>3, <1>4 DEF ShiftedBy
<1>7. t.rows[x].position = t.to
  BY <1>1 DEF At
<1>8. Len(s) \in Nat
  BY <1>4, FinitelyMany
<1>. HIDE DEF S, s, from, x
<1>9. t.to \in 1..Len(s) /\ from \in 1..Len(s) /\ s[from] = x
  BY <1>3, <1>4, <1>8 DEF from
<1>12. /\ r \in Seq(S) /\ Len(r) = Len(s)
       /\ \A k \in 1..Len(s) :
            r[k] = IF k < t.to THEN IF k < from THEN s[k] ELSE s[k + 1]
                   ELSE IF k = t.to THEN x
                   ELSE IF k - 1 < from THEN s[k - 1] ELSE s[k]
  <2>1. s \in Seq(S) /\ x \in S
    BY <1>3, <1>4
  <2>. QED  BY <1>9, <2>1, ReplacedIs
<1>. HIDE DEF r
<1>13. Len(r) = Len(s)
  BY <1>12
<1>14. \A k \in 1..Len(s) : k # from =>
         t.rows[s[k]].position = IF s[k] \in Moved(t) THEN k + t.step ELSE k
  <2>1. \A k \in 1..Len(s) : k # from => s[k] \in S \ {x}
    BY <1>4 DEF from
  <2>. QED  BY <1>2, <1>4, <2>1
<1>15. /\ t.to > from => \A k \in 1..Len(s) :
            k # from => (s[k] \in Moved(t) <=> k > from /\ k <= t.to)
       /\ t.to < from => \A k \in 1..Len(s) :
            k # from => (s[k] \in Moved(t) <=> k >= t.to /\ k < from)
  <2>1. \A k \in 1..Len(s) : k # from => s[k] \in S \ {x} /\ item[s[k]].position = k
    BY <1>4 DEF from
  <2>. QED  BY <1>6, <1>8, <1>9, <2>1
<1>16. ASSUME NEW k \in 1..Len(r)
       PROVE  t.rows[r[k]].position = k
  <2>0. k \in 1..Len(s) /\ Len(s) \in Nat
    BY <1>8, <1>13
  <2>1. CASE k = t.to
    BY <1>7, <1>12, <2>0, <2>1
  <2>2. CASE k < t.to
    <3>1. r[k] = IF k < from THEN s[k] ELSE s[k + 1]
      BY <1>12, <2>0, <2>2
    <3>2. CASE k < from
      <4>1. s[k] \notin Moved(t)
        BY <1>3, <1>9, <1>15, <2>0, <2>2, <3>2
      <4>. QED
        BY <1>9, <1>14, <2>0, <3>1, <3>2, <4>1
    <3>3. CASE k >= from
      <4>1. k + 1 \in 1..Len(s) /\ k + 1 # from /\ t.to > from /\ k + 1 <= t.to
        BY <1>9, <2>0, <2>2, <3>3
      <4>2. s[k + 1] \in Moved(t)
        BY <1>9, <1>15, <2>0, <3>3, <4>1
      <4>3. t.rows[s[k + 1]].position = k + 1 + t.step
        BY <1>14, <4>1, <4>2
      <4>. QED
        BY <1>3, <1>9, <2>0, <3>1, <3>3, <4>1, <4>3
    <3>. QED  BY <1>9, <2>0, <3>2, <3>3
  <2>3. CASE k > t.to
    <3>1. r[k] = IF k - 1 < from THEN s[k - 1] ELSE s[k]
      BY <1>9, <1>12, <2>0, <2>3
    <3>2. CASE k - 1 < from
      <4>1. k - 1 \in 1..Len(s) /\ k - 1 # from /\ t.to < from /\ k - 1 >= t.to
        BY <1>3, <1>9, <2>0, <2>3, <3>2
      <4>2. s[k - 1] \in Moved(t)
        BY <1>9, <1>15, <2>0, <3>2, <4>1
      <4>3. t.rows[s[k - 1]].position = k - 1 + t.step
        BY <1>14, <4>1, <4>2
      <4>. QED
        BY <1>3, <1>9, <2>0, <3>1, <3>2, <4>1, <4>3
    <3>3. CASE k - 1 >= from
      <4>1. k # from
        BY <1>9, <2>0, <3>3
      <4>2. s[k] \notin Moved(t)
        BY <1>3, <1>9, <1>15, <2>0, <2>3, <3>3, <4>1
      <4>. QED
        BY <1>9, <1>14, <2>0, <3>1, <3>3, <4>1, <4>2
    <3>. QED  BY <1>9, <2>0, <3>2, <3>3
  <2>. QED  BY <1>9, <2>0, <2>1, <2>2, <2>3
<1>17. ListOf(t.rows, t.parent) = r
  <2>1. r \in Seq(ChildrenIn(t.rows, t.parent))
        /\ Len(r) = Cardinality(ChildrenIn(t.rows, t.parent))
    BY <1>4, <1>5, <1>12, <1>13
  <2>. QED
    BY <1>16, <2>1, ListIsUnique
<1>. QED
  BY <1>9, <1>17 DEF r, s, from, x
\* A commit inserts one child into a list, or moves one within its list.
LEMMA CommitIsOrdered ==
  ASSUME IInv, NEW c \in Clients, Commit(c)
  PROVE  [Ordered!Next]_(Lists(item))
<1>. DEFINE t == tx[c]
            p == t.parent
            s == ListOf(item, p)
            s2 == ListOf(t.rows, p)
<1>1. /\ t \in Tx /\ t.stage = "commit" /\ DraftInv(t) /\ item' = t.rows
      /\ TypeOK /\ Unique(item) /\ ListsContiguous
  BY DEF IInv, TypeOK, LockInv, Commit, End, Stage, Drafting
<1>. HIDE DEF t
<1>2. /\ Unique(t.rows)
      /\ \A q \in Parents : Contiguous(item, q) /\ Contiguous(t.rows, q)
      /\ p \in Parents
  BY <1>1, CommitKeepsUnique, CommitKeepsContiguous DEF ListsContiguous, DraftInv
<1>3. ASSUME NEW q \in Parents \ {p}
      PROVE  ListOf(t.rows, q) = ListOf(item, q)
  <2>. DEFINE l == ListOf(item, q)
  <2>1. /\ ChildrenIn(t.rows, q) = ChildrenIn(item, q)
        /\ \A j \in ChildrenIn(item, q) : t.rows[j] = item[j]
    BY <1>1, OthersStay
  <2>2. /\ l \in Seq(ChildrenIn(item, q)) /\ Len(l) = Cardinality(ChildrenIn(item, q))
        /\ \A k \in 1..Len(l) : l[k] \in ChildrenIn(item, q) /\ item[l[k]].position = k
    BY <1>1, <1>2, ListIs
  <2>. HIDE DEF l
  <2>3. /\ l \in Seq(ChildrenIn(t.rows, q)) /\ Len(l) = Cardinality(ChildrenIn(t.rows, q))
        /\ \A k \in 1..Len(l) : t.rows[l[k]].position = k
    BY <2>1, <2>2
  <2>4. ListOf(t.rows, q) = l
    BY <1>2, <2>3, ListIsUnique
  <2>. QED  BY <2>4 DEF l
<1>4. /\ Lists(item)' = [Lists(item) EXCEPT ![p] = s2]
      /\ Lists(item)[p] = s
  <2>1. Lists(item)' = Lists(t.rows)
    BY <1>1 DEF Lists
  <2>. HIDE DEF p
  <2>2. Lists(t.rows) = [Lists(item) EXCEPT ![p] = s2]
    BY <1>3 DEF Lists
  <2>. QED  BY <1>2, <2>1, <2>2 DEF Lists
<1>. HIDE DEF s, s2
<1>5. CASE t.item = None
  <2>. PICK x \in Items :
         /\ t.rows[x] = At(t.parent, t.to)
         /\ ShiftedBut(t, Moved(t), x)
         /\ item[x] = None
    BY <1>1, <1>5, CommittedRows
  <2>1. t.to \in 1..Len(s) + 1 /\ s2 = Ordered!InsertAt(s, t.to, x)
    BY <1>1, <1>2, <1>5, CreateInserts DEF s, s2
  <2>2. ~Ordered!Listed(x)
    <3>1. SUFFICES ASSUME NEW q \in Parents, x \in Ordered!ToSet(Lists(item)[q])
                   PROVE  FALSE
      BY DEF Ordered!Listed
    <3>. DEFINE l == ListOf(item, q)
    <3>2. l \in Seq(ChildrenIn(item, q)) /\ \A k \in 1..Len(l) : l[k] \in ChildrenIn(item, q)
      BY <1>1, <1>2, ListIs
    <3>3. Lists(item)[q] = l
      BY DEF Lists
    <3>. HIDE DEF l
    <3>4. \E k \in DOMAIN l : l[k] = x
      BY <3>1, <3>3 DEF Ordered!ToSet
    <3>. QED  BY <3>2, <3>4 DEF ChildrenIn
  <2>3. Ordered!Insert(x, p, t.to)
    BY <1>4, <2>1, <2>2 DEF Ordered!Insert
  <2>. QED
    BY <1>2, <1>4, <2>1, <2>3 DEF Ordered!Next
<1>6. CASE t.item # None
  <2>. DEFINE from == item[t.item].position
  <2>1. /\ t.to \in 1..Len(s) /\ from \in 1..Len(s) /\ s[from] = t.item
        /\ s2 = Ordered!InsertAt(Ordered!RemoveAt(s, from), t.to, t.item)
    BY <1>1, <1>2, <1>6, MoveMoves DEF s, s2
  <2>2. t.item \in Items
    BY <1>1, <1>6 DEF Tx
  <2>3. Ordered!Move(t.item, p, t.to)
    BY <1>4, <2>1 DEF Ordered!Move
  <2>. QED
    BY <1>2, <1>4, <2>1, <2>2, <2>3 DEF Ordered!Next
<1>. QED  BY <1>5, <1>6

\* No other step touches a committed row.
LEMMA StepIsOrdered ==
  IInv /\ [Next]_<<item, lock, tx>> => [Ordered!Next]_(Lists(item))
<1>. SUFFICES ASSUME IInv, [Next]_<<item, lock, tx>> PROVE [Ordered!Next]_(Lists(item))
  OBVIOUS
<1>1. item' = item => Lists(item)' = Lists(item)
  BY DEF Lists
<1>2. CASE item' = item
  BY <1>1, <1>2
<1>3. CASE \E c \in Clients : Commit(c)
  BY <1>3, CommitIsOrdered
<1>4. ASSUME NEW c \in Clients, Edit(c), ~Commit(c)
      PROVE  item' = item
  <2>1. ASSUME NEW p, NEW k, BeginCreate(c, p, k)
        PROVE  item' = item
    BY <2>1 DEF BeginCreate
  <2>2. ASSUME NEW i, NEW k, Update(c, i, k)
        PROVE  item' = item
    BY <2>2 DEF Update, UpdateText, BeginMove
  <2>3. ASSUME NEW i, InsertRow(c, i) \/ Shift(c, i)
        PROVE  item' = item
    BY <2>3 DEF InsertRow, Shift
  <2>4. LockCourse(c) \/ Rollback(c) \/ Park(c) \/ Place(c) => item' = item
    BY DEF LockCourse, Rollback, Park, Place
  <2>. QED
    BY <1>4, <2>1, <2>2, <2>3, <2>4
       DEF Edit, CreateChapter, CreateLesson, CreateMaterial, UpdateChapter, UpdateLesson,
           UpdateMaterial
<1>5. ASSUME NEW c \in Clients, View(c)
      PROVE  item' = item
  BY <1>5 DEF View, ReadChapters, ReadLessons, ReadMaterials, Answer
<1>6. item' = item \/ \E c \in Clients : Commit(c)
  BY <1>4, <1>5 DEF Next
<1>. QED  BY <1>2, <1>3, <1>6

\* A course without chapters has empty lists.
LEMMA InitIsOrdered == Init => Ordered!Init
<1>. SUFFICES ASSUME Init PROVE Ordered!Init
  OBVIOUS
<1>1. ASSUME NEW p \in Parents
      PROVE  ListOf(item, p) = <<>>
  <2>1. ChildrenIn(item, p) = {}
    BY DEF Init, ChildrenIn
  <2>2. Cardinality(ChildrenIn(item, p)) = 0
    BY <2>1, FS_EmptySet
  <2>. QED  BY <2>2 DEF ListOf
<1>. QED  BY <1>1 DEF Ordered!Init, Lists

\* The rows of chapters, lessons and materials, rewritten one UPDATE at a time by
\* requests that may stop anywhere, implement lists in which a request inserts
\* or moves one child in one step (course-structure.service.ts): the siblings
\* keep their order, and no partial shift is ever seen.
THEOREM OrderImplemented == Spec => ImplementsOrderedList
<1>. USE DEF ImplementsOrderedList, Ordered!Spec
<1>. QED  BY Invariance, InitIsOrdered, StepIsOrdered, PTL DEF Spec
=============================================================================
