------------------------------- MODULE Catalog -------------------------------
(***************************************************************************)
(* Projects, repositories, pipelines and the runs below them: the rows the *)
(* Postgres stores write for several clients at once, under the keys the   *)
(* migrations declare.  Each store method is one statement, and Postgres   *)
(* makes a statement atomic together with its key checks.  A call may fail *)
(* before or after its statement took effect.  An Update writes every      *)
(* column of a struct that was read some time before.                      *)
(***************************************************************************)
CONSTANTS
  Projects, Repositories, Pipelines, Runs, \* the ids of the four tables
  Names,    \* values of the other columns; of a project, its name
  Clients,  \* callers of the stores
  Nothing   \* no parent, no row, nothing in hand

Ids == Projects \cup Repositories \cup Pipelines \cup Runs

(* What a row of each table may refer to.                                  *)
Parents(id) ==
  IF id \in Projects THEN {Nothing}
  ELSE IF id \in Repositories THEN Projects
  ELSE IF id \in Pipelines THEN Repositories
  ELSE Pipelines

Rows(id) == [parent : Parents(id), name : Names]

ASSUME CatalogAssumption ==
  /\ Nothing \notin Ids
  /\ Projects \cap (Repositories \cup Pipelines \cup Runs) = {}
  /\ Repositories \cap (Pipelines \cup Runs) = {}
  /\ Pipelines \cap Runs = {}
  /\ \A id \in Ids : Nothing \notin Rows(id)

VARIABLES
  rows,    \* each id's row, or Nothing
  hand,    \* each client's struct: an id and a row, as read or as handed to Create
  answer,  \* what the client's last call returned
  made     \* history: the ids of the rows that were made of the client's struct

vars == <<rows, hand, answer, made>>

Present(id) == rows[id] # Nothing

Init ==
  /\ rows = [id \in Ids |-> Nothing]
  /\ hand = [c \in Clients |-> Nothing]
  /\ answer = [c \in Clients |-> "ok"]
  /\ made = [c \in Clients |-> {}]

-----------------------------------------------------------------------------
(* The keys.                                                               *)

\* Slip: the reference is declared without REFERENCES.
AnyParent(id, row) == TRUE

(* REFERENCES of the child: the parent is there.                           *)
ParentThere(id, row) == row.parent # Nothing => Present(row.parent)

\* Slip: the column is not UNIQUE.
AnyName(id, row) == TRUE

(* projects.name is UNIQUE.                                                *)
NameFree(id, row) ==
  id \in Projects => \A other \in Projects \ {id} : Present(other) => rows[other].name # row.name

(* REFERENCES of the parent: no child is left.                             *)
Childless(id) == \A child \in Ids : Present(child) => rows[child].parent # id

Answer(c, what) == answer' = [answer EXCEPT ![c] = what]

(* A statement that takes effect; its reply may be lost.                   *)
Write(c, id, row) ==
  rows' = [rows EXCEPT ![id] = row] /\ \E what \in {"ok", "error"} : Answer(c, what)

(* A key refuses the statement, or it does not reach the database.         *)
Fails(c) == Answer(c, "error") /\ UNCHANGED rows

NoRow(c) == Answer(c, "notFound") /\ UNCHANGED rows

(* The client goes on with another struct.                                 *)
Take(c, struct) == hand' = [hand EXCEPT ![c] = struct] /\ made' = [made EXCEPT ![c] = {}]

Keep == UNCHANGED <<hand, made>>

-----------------------------------------------------------------------------
(* The four kinds of statements.                                           *)

\* Slip: every call makes an id, whether the struct has one or not.
NewID(id, ids) == ids

(* The ids a struct can have when it is inserted: uuid.New() if it has     *)
(* none yet.                                                               *)
EnsureID(id, ids) == IF id = Nothing THEN ids ELSE {id}

(* A struct without an id, or the one in hand: read, or handed to Create   *)
(* before.                                                                 *)
Unsaved(ids) == [id : {Nothing}, row : UNION {Rows(id) : id \in ids}]
Held(c, ids) == {struct \in {hand[c]} : struct # Nothing /\ struct.id \in ids}

(* INSERT.  The caller's struct has its id from then on, also when the     *)
(* INSERT fails.                                                           *)
Insert(c, ids) ==
  \E struct \in Unsaved(ids) \cup Held(c, ids) : \E id \in EnsureID(struct.id, ids) :
    LET before == IF struct.id = Nothing THEN {} ELSE made[c]
    IN /\ hand' = [hand EXCEPT ![c] = [id |-> id, row |-> struct.row]]
       /\ \/ /\ ~Present(id) /\ ParentThere(id, struct.row) /\ NameFree(id, struct.row)
             /\ Write(c, id, struct.row)
             /\ made' = [made EXCEPT ![c] = before \cup {id}]
          \/ Fails(c) /\ made' = [made EXCEPT ![c] = before]

\* Slip: the error of Scan is dropped, and the caller gets an empty struct.
FetchAnyhow(c, id) ==
  Answer(c, "ok") /\ Take(c, [id |-> id, row |-> rows[id]]) /\ UNCHANGED rows

(* SELECT; no row is ErrNotFound.                                          *)
Fetch(c, id) ==
  \/ Present(id) /\ Answer(c, "ok") /\ Take(c, [id |-> id, row |-> rows[id]]) /\ UNCHANGED rows
  \/ ~Present(id) /\ NoRow(c) /\ Keep
  \/ Fails(c) /\ Keep

(* SELECT of several rows; an empty list is no error.  The caller may go   *)
(* on with one of the structs it was given.                                *)
FetchList(c, listed) ==
  \/ Answer(c, "ok") /\ UNCHANGED rows /\ Keep
  \/ Answer(c, "ok") /\ UNCHANGED rows /\ \E id \in listed : Take(c, [id |-> id, row |-> rows[id]])
  \/ Fails(c) /\ Keep

(* The struct in hand with one column changed.                             *)
Edits(id, row) ==
  {[row EXCEPT !.name = n] : n \in Names} \cup {[row EXCEPT !.parent = p] : p \in Parents(id)}

(* UPDATE of all columns of the struct in hand; it affects no row when the *)
(* row has been deleted, which ensureRowsAffected turns into ErrNotFound.  *)
Update(c, ids) ==
  \E struct \in Held(c, ids) : \E row \in Edits(struct.id, struct.row) :
    /\ hand' = [hand EXCEPT ![c] = [id |-> struct.id, row |-> row]]
    /\ \/ /\ Present(struct.id) /\ ParentThere(struct.id, row) /\ NameFree(struct.id, row)
          /\ Write(c, struct.id, row)
       \/ ~Present(struct.id) /\ NoRow(c)
       \/ Fails(c)
    /\ UNCHANGED made

(* DELETE.                                                                 *)
Delete(c, id) ==
  /\ \/ Present(id) /\ Childless(id) /\ Write(c, id, Nothing)
     \/ ~Present(id) /\ NoRow(c)
     \/ Fails(c)
  /\ Keep

-----------------------------------------------------------------------------
(* The stores.  A run is only ever created; its status is StatusRows'.     *)
CreateProject(c)    == Insert(c, Projects)
CreateRepository(c) == Insert(c, Repositories)
CreatePipeline(c)   == Insert(c, Pipelines)
CreateRun(c)        == Insert(c, Runs)

GetProject(c)    == \E id \in Projects : Fetch(c, id)
GetRepository(c) == \E id \in Repositories : Fetch(c, id)
GetPipeline(c)   == \E id \in Pipelines : Fetch(c, id)

(* GetByName: the one project that has the name.                           *)
GetProjectByName(c) ==
  \E name \in Names :
    LET named == {id \in Projects : Present(id) /\ rows[id].name = name}
    IN \/ named = {} /\ NoRow(c) /\ Keep
       \/ \E id \in named : Fetch(c, id)
       \/ Fails(c) /\ Keep

(* The children a list of a parent shows; the parent need not be there.    *)
ChildrenOf(ids, parent) == {id \in ids : Present(id) /\ rows[id].parent = parent}

ListProjects(c)     == FetchList(c, {id \in Projects : Present(id)})
ListRepositories(c) == \E parent \in Projects : FetchList(c, ChildrenOf(Repositories, parent))
ListPipelines(c)    == \E parent \in Repositories : FetchList(c, ChildrenOf(Pipelines, parent))

UpdateProject(c)    == Update(c, Projects)
UpdateRepository(c) == Update(c, Repositories)
UpdatePipeline(c)   == Update(c, Pipelines)

DeleteProject(c)    == \E id \in Projects : Delete(c, id)
DeleteRepository(c) == \E id \in Repositories : Delete(c, id)
DeletePipeline(c)   == \E id \in Pipelines : Delete(c, id)

Next ==
  \E c \in Clients :
    \/ CreateProject(c) \/ CreateRepository(c) \/ CreatePipeline(c) \/ CreateRun(c)
    \/ GetProject(c) \/ GetProjectByName(c) \/ GetRepository(c) \/ GetPipeline(c)
    \/ ListProjects(c) \/ ListRepositories(c) \/ ListPipelines(c)
    \/ UpdateProject(c) \/ UpdateRepository(c) \/ UpdatePipeline(c)
    \/ DeleteProject(c) \/ DeleteRepository(c) \/ DeletePipeline(c)

Spec == Init /\ [][Next]_vars

-----------------------------------------------------------------------------
TypeOK ==
  /\ DOMAIN rows = Ids /\ \A id \in Ids : rows[id] \in Rows(id) \cup {Nothing}
  /\ DOMAIN hand = Clients
  /\ \A c \in Clients :
       hand[c] # Nothing => hand[c].id \in Ids /\ hand[c].row \in Rows(hand[c].id)
  /\ answer \in [Clients -> {"ok", "notFound", "error"}]
  /\ made \in [Clients -> SUBSET Ids]

(* Every run belongs to a project, through a pipeline and a repository     *)
(* that are all there, however clients delete, rename and move what is     *)
(* above it, also with structs that are out of date (the REFERENCES of the *)
(* migrations, which every INSERT, UPDATE and DELETE is checked against).  *)
RunsBelongToProjects ==
  \A id \in Runs : Present(id) =>
    LET pipeline   == rows[id].parent
        repository == rows[pipeline].parent
    IN Present(pipeline) /\ Present(repository) /\ Present(rows[repository].parent)

(* A name finds at most one project: GetByName's single row is the one the *)
(* caller means, whatever renames went on meanwhile.                       *)
NamesFindOneProject ==
  \A p, q \in Projects : Present(p) /\ Present(q) /\ rows[p].name = rows[q].name => p = q

(* A Create whose reply was lost can be repeated: however often a client   *)
(* hands a struct to Create, and whatever others do to the row meanwhile,  *)
(* it makes no second row beside the first (ensureID puts the id into the  *)
(* caller's struct before the INSERT).                                     *)
OneRowPerStruct == \A c \in Clients : \A id \in made[c] : hand[c].id = id
=============================================================================
