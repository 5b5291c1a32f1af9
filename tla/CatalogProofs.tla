--------------------------- MODULE CatalogProofs ---------------------------
(***************************************************************************)
(* The references and names of the catalog, for any ids, names and number  *)
(* of clients.                                                             *)
(***************************************************************************)
EXTENDS Catalog, TLAPS

USE CatalogAssumption DEF CatalogAssumption

(* Every row there refers to a row that is there: what the keys keep from  *)
(* statement to statement.                                                 *)
ReferencesInv ==
  \A id \in Ids : Present(id) => rows[id].parent = Nothing \/ Present(rows[id].parent)

CatalogInv == TypeOK /\ ReferencesInv /\ NamesFindOneProject /\ OneRowPerStruct

(* The tables start empty.                                                 *)
LEMMA InitCatalog == Init => CatalogInv
<1> SUFFICES ASSUME Init PROVE CatalogInv
  OBVIOUS
<1>1. TypeOK /\ OneRowPerStruct
  BY DEF Init, TypeOK, OneRowPerStruct
<1>2. \A id \in Ids : ~Present(id)
  BY DEF Init, Present
<1> QED
  BY <1>1, <1>2 DEF CatalogInv, ReferencesInv, NamesFindOneProject, Ids

(* A parent is an id of another table, or there is none.                   *)
LEMMA ParentsFact ==
  ASSUME NEW id \in Ids
  PROVE  /\ Parents(id) \subseteq Ids \cup {Nothing}
         /\ id \notin Parents(id)
  BY DEF Parents, Ids

-----------------------------------------------------------------------------
(* What a client holds.                                                    *)

(* The part of the invariant about the clients.                            *)
HandsOK ==
  /\ DOMAIN hand = Clients
  /\ \A c \in Clients : hand[c] # Nothing => hand[c].id \in Ids /\ hand[c].row \in Rows(hand[c].id)
  /\ made \in [Clients -> SUBSET Ids]
  /\ OneRowPerStruct

(* A client goes on with the struct of a row it has read.                  *)
LEMMA TakeHands ==
  ASSUME CatalogInv, NEW c \in Clients, NEW id \in Ids, Present(id),
         Take(c, [id |-> id, row |-> rows[id]])
  PROVE  HandsOK'
  BY DEF CatalogInv, TypeOK, OneRowPerStruct, HandsOK, Take, Present

(* A client keeps its struct.                                              *)
LEMMA KeepHands ==
  ASSUME CatalogInv, Keep
  PROVE  HandsOK'
  BY DEF CatalogInv, TypeOK, OneRowPerStruct, HandsOK, Keep

(* The structs Create may be given: their rows are of the table, and the   *)
(* id it has or gets is one of the table.                                  *)
LEMMA CreateFact ==
  ASSUME CatalogInv, NEW c \in Clients,
         NEW ids \in {Projects, Repositories, Pipelines, Runs},
         NEW struct \in Unsaved(ids) \cup Held(c, ids),
         NEW id \in EnsureID(struct.id, ids)
  PROVE  /\ id \in Ids /\ struct.row \in Rows(id)
         /\ struct.id # Nothing => struct = hand[c] /\ id = struct.id
<1>1. ids \subseteq Ids /\ Nothing \notin ids
  BY DEF Ids
<1>2. \A x, y \in ids : Rows(x) = Rows(y)
  BY DEF Rows, Parents
<1>3. CASE struct \in Unsaved(ids)
  <2>1. struct.id = Nothing /\ \E x \in ids : struct.row \in Rows(x)
    BY <1>3 DEF Unsaved
  <2> QED
    BY <1>1, <1>2, <2>1 DEF EnsureID
<1>4. CASE struct \in Held(c, ids)
  BY <1>1, <1>4 DEF Held, EnsureID, CatalogInv, TypeOK
<1> QED
  BY <1>3, <1>4

-----------------------------------------------------------------------------
(* The three ways a statement ends.                                        *)

(* Whatever is written, the answer is one of those a call may get.         *)
LEMMA WriteAnswers ==
  ASSUME CatalogInv, NEW c \in Clients, NEW id, NEW row, Write(c, id, row)
  PROVE  answer' \in [Clients -> {"ok", "notFound", "error"}]
<1>1. PICK what \in {"ok", "error"} : answer' = [answer EXCEPT ![c] = what]
  BY DEF Write, Answer
<1> QED
  BY <1>1 DEF CatalogInv, TypeOK

(* A row is written whose parent is there and whose name is free.          *)
LEMMA WriteKeeps ==
  ASSUME CatalogInv, NEW c \in Clients, NEW id \in Ids, NEW row \in Rows(id),
         ParentThere(id, row), NameFree(id, row),
         Write(c, id, row), HandsOK'
  PROVE  CatalogInv'
<1>1. /\ \A x \in Ids : rows'[x] = IF x = id THEN row ELSE rows[x]
      /\ DOMAIN rows' = Ids
  BY DEF CatalogInv, TypeOK, Write
<1>2. row # Nothing /\ row.parent \in Ids \cup {Nothing}
  BY ParentsFact DEF Rows
<1>3. \A x \in Ids : Present(x) => Present(x)'
  BY <1>1, <1>2 DEF Present
<1>4. TypeOK'
  BY <1>1, WriteAnswers DEF CatalogInv, TypeOK, HandsOK
<1>5. ReferencesInv'
  <2>1. SUFFICES ASSUME NEW x \in Ids, rows'[x] # Nothing, rows'[x].parent # Nothing
                 PROVE  rows'[rows'[x].parent] # Nothing
    BY DEF ReferencesInv, Present
  <2>2. CASE x = id
    BY <1>1, <1>2, <1>3, <2>1, <2>2 DEF ParentThere, Present
  <2>3. CASE x # id
    <3>1. rows[x] \in Rows(x) /\ rows[x].parent \in Ids
      BY <1>1, <2>1, <2>3, ParentsFact DEF CatalogInv, TypeOK, Rows
    <3> QED
      BY <1>1, <1>3, <2>1, <2>3, <3>1 DEF CatalogInv, ReferencesInv, Present
  <2> QED
    BY <2>2, <2>3
<1>6. NamesFindOneProject'
  BY <1>1 DEF CatalogInv, NamesFindOneProject, NameFree, Present, Ids
<1> QED
  BY <1>4, <1>5, <1>6 DEF CatalogInv, HandsOK

(* A row is removed that no row refers to.                                 *)
LEMMA DeleteKeeps ==
  ASSUME CatalogInv, NEW c \in Clients, NEW id \in Ids, Childless(id), Write(c, id, Nothing),
         HandsOK'
  PROVE  CatalogInv'
<1>1. /\ \A x \in Ids : rows'[x] = IF x = id THEN Nothing ELSE rows[x]
      /\ DOMAIN rows' = Ids
  BY DEF CatalogInv, TypeOK, Write
<1>2. TypeOK'
  BY <1>1, WriteAnswers DEF CatalogInv, TypeOK, HandsOK
<1>3. ReferencesInv'
  <2>1. SUFFICES ASSUME NEW x \in Ids, rows'[x] # Nothing, rows'[x].parent # Nothing
                 PROVE  rows'[rows'[x].parent] # Nothing
    BY DEF ReferencesInv, Present
  <2>2. x # id /\ rows'[x] = rows[x]
    BY <1>1, <2>1
  <2>3. rows[x].parent \in Ids
    BY <2>1, <2>2, ParentsFact DEF CatalogInv, TypeOK, Rows
  <2>4. rows[x].parent # id /\ Present(rows[x].parent)
    BY <2>1, <2>2 DEF Childless, CatalogInv, ReferencesInv, Present
  <2> QED
    BY <1>1, <2>2, <2>3, <2>4 DEF Present
<1>4. NamesFindOneProject'
  BY <1>1 DEF CatalogInv, NamesFindOneProject, Present, Ids
<1> QED
  BY <1>2, <1>3, <1>4 DEF CatalogInv, HandsOK

(* A call that writes nothing.                                             *)
LEMMA NoWriteKeeps ==
  ASSUME CatalogInv, UNCHANGED rows, NEW c \in Clients, NEW what \in {"ok", "notFound", "error"},
         Answer(c, what), HandsOK'
  PROVE  CatalogInv'
<1>1. TypeOK'
  BY DEF CatalogInv, TypeOK, HandsOK, Answer
<1> QED
  BY <1>1 DEF CatalogInv, HandsOK, ReferencesInv, NamesFindOneProject, Present

-----------------------------------------------------------------------------
(* The statements.                                                         *)

(* Create: the row is written under the id the struct has from then on, or *)
(* nothing is.                                                             *)
LEMMA InsertKeeps ==
  ASSUME CatalogInv, NEW c \in Clients,
         NEW ids \in {Projects, Repositories, Pipelines, Runs}, Insert(c, ids)
  PROVE  CatalogInv'
<1>0. PICK struct \in Unsaved(ids) \cup Held(c, ids) : \E id \in EnsureID(struct.id, ids) :
        LET before == IF struct.id = Nothing THEN {} ELSE made[c]
        IN /\ hand' = [hand EXCEPT ![c] = [id |-> id, row |-> struct.row]]
           /\ \/ /\ ~Present(id) /\ ParentThere(id, struct.row) /\ NameFree(id, struct.row)
                 /\ Write(c, id, struct.row)
                 /\ made' = [made EXCEPT ![c] = before \cup {id}]
              \/ Fails(c) /\ made' = [made EXCEPT ![c] = before]
  BY DEF Insert
<1> DEFINE before == IF struct.id = Nothing THEN {} ELSE made[c]
<1>1. PICK id \in EnsureID(struct.id, ids) :
        /\ hand' = [hand EXCEPT ![c] = [id |-> id, row |-> struct.row]]
        /\ \/ /\ ~Present(id) /\ ParentThere(id, struct.row) /\ NameFree(id, struct.row)
              /\ Write(c, id, struct.row)
              /\ made' = [made EXCEPT ![c] = before \cup {id}]
           \/ Fails(c) /\ made' = [made EXCEPT ![c] = before]
  BY <1>0
<1>2. /\ id \in Ids /\ struct.row \in Rows(id)
      /\ struct.id # Nothing => struct = hand[c] /\ id = struct.id
  BY CreateFact
<1>3. before \in SUBSET Ids /\ \A x \in before : x = id
  BY <1>2 DEF CatalogInv, TypeOK, OneRowPerStruct
<1>4. PICK after \in {before, before \cup {id}} : made' = [made EXCEPT ![c] = after]
  BY <1>1
<1>5. HandsOK'
  BY <1>1, <1>2, <1>3, <1>4 DEF HandsOK, CatalogInv, TypeOK, OneRowPerStruct
<1> QED
  BY <1>1, <1>2, <1>5, WriteKeeps, NoWriteKeeps DEF Fails

(* GetByID and GetByName only fill the client's hand.                      *)
LEMMA FetchKeeps ==
  ASSUME CatalogInv, NEW c \in Clients, NEW id \in Ids, Fetch(c, id)
  PROVE  CatalogInv'
  BY TakeHands, KeepHands, NoWriteKeeps DEF Fetch, Fails, NoRow

(* A list only fills the client's hand.                                    *)
LEMMA FetchListKeeps ==
  ASSUME CatalogInv, NEW c \in Clients, NEW listed \in SUBSET Ids,
         \A id \in listed : Present(id),
         FetchList(c, listed)
  PROVE  CatalogInv'
  BY TakeHands, KeepHands, NoWriteKeeps DEF FetchList, Fails

(* Update writes the struct in hand, out of date or not, or nothing.       *)
LEMMA UpdateKeeps ==
  ASSUME CatalogInv, NEW c \in Clients, NEW ids, Update(c, ids)
  PROVE  CatalogInv'
<1>0. PICK struct \in Held(c, ids) : \E row \in Edits(struct.id, struct.row) :
        /\ hand' = [hand EXCEPT ![c] = [id |-> struct.id, row |-> row]]
        /\ \/ /\ Present(struct.id) /\ ParentThere(struct.id, row) /\ NameFree(struct.id, row)
              /\ Write(c, struct.id, row)
           \/ ~Present(struct.id) /\ NoRow(c)
           \/ Fails(c)
        /\ UNCHANGED made
  BY DEF Update
<1>1. PICK row \in Edits(struct.id, struct.row) :
        /\ hand' = [hand EXCEPT ![c] = [id |-> struct.id, row |-> row]]
        /\ \/ /\ Present(struct.id) /\ ParentThere(struct.id, row) /\ NameFree(struct.id, row)
              /\ Write(c, struct.id, row)
           \/ ~Present(struct.id) /\ NoRow(c)
           \/ Fails(c)
        /\ UNCHANGED made
  BY <1>0
<1>2. struct = hand[c] /\ struct.id \in Ids /\ struct.row \in Rows(struct.id)
  BY DEF Held, CatalogInv, TypeOK
<1>3. row \in Rows(struct.id)
  BY <1>1, <1>2 DEF Edits, Rows
<1>4. HandsOK'
  BY <1>1, <1>2, <1>3 DEF HandsOK, CatalogInv, TypeOK, OneRowPerStruct
<1> QED
  BY <1>1, <1>2, <1>3, <1>4, WriteKeeps, NoWriteKeeps DEF Fails, NoRow

(* Delete removes the row, or nothing.                                     *)
LEMMA DeleteStatementKeeps ==
  ASSUME CatalogInv, NEW c \in Clients, NEW id \in Ids, Delete(c, id)
  PROVE  CatalogInv'
  BY KeepHands, DeleteKeeps, NoWriteKeeps DEF Delete, Fails, NoRow

(* Each store method is one of these statements on one table.              *)
LEMMA NextKeepsCatalog ==
  ASSUME CatalogInv, Next
  PROVE  CatalogInv'
<1>1. PICK d \in Clients :
        \/ CreateProject(d) \/ CreateRepository(d) \/ CreatePipeline(d) \/ CreateRun(d)
        \/ GetProject(d) \/ GetProjectByName(d) \/ GetRepository(d) \/ GetPipeline(d)
        \/ ListProjects(d) \/ ListRepositories(d) \/ ListPipelines(d)
        \/ UpdateProject(d) \/ UpdateRepository(d) \/ UpdatePipeline(d)
        \/ DeleteProject(d) \/ DeleteRepository(d) \/ DeletePipeline(d)
  BY DEF Next
<1>2. CASE CreateProject(d) \/ CreateRepository(d) \/ CreatePipeline(d) \/ CreateRun(d)
  BY <1>2, InsertKeeps DEF CreateProject, CreateRepository, CreatePipeline, CreateRun
<1>3. CASE GetProject(d) \/ GetRepository(d) \/ GetPipeline(d)
  BY <1>3, FetchKeeps DEF GetProject, GetRepository, GetPipeline, Ids
<1>4. CASE GetProjectByName(d)
  BY <1>4, FetchKeeps, KeepHands, NoWriteKeeps DEF GetProjectByName, Ids, Fails, NoRow
<1>5. CASE UpdateProject(d) \/ UpdateRepository(d) \/ UpdatePipeline(d)
  BY <1>5, UpdateKeeps DEF UpdateProject, UpdateRepository, UpdatePipeline
<1>6. CASE DeleteProject(d) \/ DeleteRepository(d) \/ DeletePipeline(d)
  BY <1>6, DeleteStatementKeeps DEF DeleteProject, DeleteRepository, DeletePipeline, Ids
<1>7. CASE ListProjects(d) \/ ListRepositories(d) \/ ListPipelines(d)
  BY <1>7, FetchListKeeps DEF ListProjects, ListRepositories, ListPipelines, ChildrenOf, Ids
<1> QED
  BY <1>1, <1>2, <1>3, <1>4, <1>5, <1>6, <1>7

(* CatalogInv is inductive.                                                *)
LEMMA CatalogStep == CatalogInv /\ [Next]_vars => CatalogInv'
<1>1. CASE UNCHANGED vars
  BY <1>1 DEF vars, CatalogInv, TypeOK, ReferencesInv, NamesFindOneProject, OneRowPerStruct, Present
<1>2. CASE Next
  BY <1>2, NextKeepsCatalog
<1> QED
  BY <1>1, <1>2

-----------------------------------------------------------------------------
(* What the keys promise, statement by statement, for any clients.         *)
THEOREM CatalogInvariance == Spec => []CatalogInv
  BY InitCatalog, CatalogStep, PTL DEF Spec

(* Every row refers to the right table and every struct in hand is one     *)
(* that can be written back.                                               *)
THEOREM CatalogTypes == Spec => []TypeOK
  BY CatalogInvariance, PTL DEF CatalogInv

(* A name finds at most one project, whatever renames went on meanwhile.   *)
THEOREM NamesAreUnique == Spec => []NamesFindOneProject
  BY CatalogInvariance, PTL DEF CatalogInv

(* No run is ever cut off from its project.                                *)
THEOREM RunsStayConnected == Spec => []RunsBelongToProjects
<1>1. CatalogInv => RunsBelongToProjects
  <2> SUFFICES ASSUME CatalogInv, NEW id \in Runs, Present(id)
               PROVE  /\ Present(rows[id].parent)
                      /\ Present(rows[rows[id].parent].parent)
                      /\ Present(rows[rows[rows[id].parent].parent].parent)
    BY DEF RunsBelongToProjects
  <2>1. ASSUME NEW x \in Ids \ Projects, Present(x)
        PROVE  rows[x].parent \in Parents(x) /\ Present(rows[x].parent)
    <3>1. rows[x].parent \in Parents(x)
      BY <2>1 DEF CatalogInv, TypeOK, Present, Rows
    <3>2. rows[x].parent # Nothing
      BY <2>1, <3>1 DEF Parents, Ids
    <3> QED
      BY <2>1, <3>1, <3>2 DEF CatalogInv, ReferencesInv
  <2> DEFINE pipeline == rows[id].parent
  <2>2. pipeline \in Pipelines /\ Present(pipeline)
    BY <2>1 DEF Parents, Ids
  <2> DEFINE repository == rows[pipeline].parent
  <2>3. repository \in Repositories /\ Present(repository)
    BY <2>1, <2>2 DEF Parents, Ids
  <2>4. Present(rows[repository].parent)
    BY <2>1, <2>3 DEF Parents, Ids
  <2> QED
    BY <2>2, <2>3, <2>4
<1> QED
  BY <1>1, CatalogInvariance, PTL

(* A struct that is handed to Create again and again makes one row at      *)
(* most, whatever replies are lost and whatever others do meanwhile.       *)
THEOREM CreatesMakeOneRow == Spec => []OneRowPerStruct
  BY CatalogInvariance, PTL DEF CatalogInv
=============================================================================
