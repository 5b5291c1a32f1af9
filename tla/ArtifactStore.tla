---------------------------- MODULE ArtifactStore ----------------------------
(***************************************************************************)
(* The filesystem artifact store: Put as its file operations, Get as an    *)
(* open and reads at an offset, any number of both at once, failures       *)
(* between any two operations, a crash, and a file system that may report  *)
(* a failed write only when the file is closed, as NFS does.               *)
(*                                                                         *)
(* A payload is a sequence of blocks; a block is named by the Put that     *)
(* wrote it, and a block nobody wrote (behind a truncation) is a hole.     *)
(***************************************************************************)
EXTENDS Naturals, Sequences

CONSTANTS
  Ids,       \* artifact ids
  Puts,      \* calls of Put
  Gets,      \* calls of Get
  Size,      \* the number of blocks each Put is given
  Hole,      \* a block nobody wrote
  NoPut,     \* "nobody"
  MaxFaults  \* bound on failures in one behaviour

ASSUME StoreAssumption ==
  /\ Size \in [Puts -> Nat]
  /\ Hole \notin Puts /\ NoPut \notin Puts
  /\ MaxFaults \in Nat

VARIABLES
  payload, exists,         \* <id>/payload: its blocks, and whether the file is there
  meta,                    \* <id>/metadata.json: "none", "empty", "written"
  putPc, putId, putOff,    \* each Put: where it is, its id, blocks copied
  getPc, getRef, getOff, got, \* each Get: where it is, the Put its Ref is from, offset, blocks read
  owner, overlap, lost,    \* history: who truncated last, ids with overlapping Puts, data lost at close
  faults

files    == <<payload, exists, meta>>
putVars  == <<putPc, putId, putOff>>
getVars  == <<getPc, getRef, getOff, got>>
history  == <<owner, overlap, lost>>
vars     == <<files, putVars, getVars, history, faults>>

Content(p) == [k \in 1..Size[p] |-> p]

Init ==
  /\ payload = [id \in Ids |-> <<>>]
  /\ exists = [id \in Ids |-> FALSE]
  /\ meta = [id \in Ids |-> "none"]
  /\ putPc = [p \in Puts |-> "idle"]
  /\ putId \in [Puts -> Ids]
  /\ putOff = [p \in Puts |-> 0]
  /\ getPc = [g \in Gets |-> "idle"]
  /\ getRef = [g \in Gets |-> NoPut]
  /\ getOff = [g \in Gets |-> 0]
  /\ got = [g \in Gets |-> <<>>]
  /\ owner = [id \in Ids |-> NoPut]
  /\ overlap = [id \in Ids |-> FALSE]
  /\ lost = [p \in Puts |-> FALSE]
  /\ faults = 0

Fault == faults < MaxFaults /\ faults' = faults + 1

-----------------------------------------------------------------------------
(* Put.                                                                    *)

\* Slip: the metadata is written before the payload.
MetadataFirst(pc) ==
  CASE pc = "create" -> "openMeta"
    [] pc = "openMeta" -> "writeMeta"
    [] pc = "writeMeta" -> "copy"
    [] pc = "copy" -> "close"

(* The order of Put's operations once the directory is there.              *)
Following(pc) ==
  CASE pc = "create" -> "copy"
    [] pc = "copy" -> "openMeta"
    [] pc = "openMeta" -> "writeMeta"
    [] pc = "writeMeta" -> "close"

Goto(p, there) == putPc' = [putPc EXCEPT ![p] = there]

(* MkdirAll; an existing directory is fine.                                *)
MakeDir(p) ==
  /\ putPc[p] = "idle"
  /\ \/ Goto(p, "create") /\ UNCHANGED faults
     \/ Goto(p, "failed") /\ Fault
  /\ UNCHANGED <<files, putId, putOff, getVars, history>>

(* The Puts that have the payload of id open for writing.                  *)
Writers(id) ==
  {p \in Puts : putId[p] = id /\ putPc[p] \in {"copy", "openMeta", "writeMeta", "close", "abort"}}

Created(p, blocks) ==
  LET id == putId[p]
  IN /\ putPc[p] = "create"
     /\ \/ /\ Goto(p, Following("create"))
           /\ payload' = [payload EXCEPT ![id] = blocks]
           /\ exists' = [exists EXCEPT ![id] = TRUE]
           /\ owner' = [owner EXCEPT ![id] = p]
           /\ overlap' = [overlap EXCEPT ![id] = @ \/ Writers(id) # {}]
           /\ UNCHANGED faults
        \/ Goto(p, "failed") /\ Fault /\ UNCHANGED <<payload, exists, owner, overlap>>
     /\ UNCHANGED <<meta, putId, putOff, getVars, lost>>

\* Slip: the file is opened without O_TRUNC.
CreateKeeping(p) == Created(p, payload[putId[p]])

(* os.Create: the file of an earlier Put of the same id is truncated.      *)
CreatePayload(p) == Created(p, <<>>)

(* A write at offset k - 1; a gap in front of it is a hole.                *)
WriteAt(file, k, block) ==
  [i \in 1..(IF k > Len(file) THEN k ELSE Len(file)) |->
     IF i = k THEN block ELSE IF i <= Len(file) THEN file[i] ELSE Hole]

\* Slip: one block too many is copied.
CopiesOneMore(p) == putOff[p] <= Size[p]

MoreToCopy(p) == putOff[p] < Size[p]

CopyOr(p, refused) ==
  /\ putPc[p] = "copy"
  /\ \/ /\ MoreToCopy(p)
        /\ payload' = [payload EXCEPT ![putId[p]] = WriteAt(@, putOff[p] + 1, p)]
        /\ putOff' = [putOff EXCEPT ![p] = @ + 1]
        /\ UNCHANGED <<putPc, faults>>
     \/ /\ ~MoreToCopy(p)
        /\ Goto(p, Following("copy"))
        /\ UNCHANGED <<payload, putOff, faults>>
     \/ Goto(p, refused) /\ Fault /\ UNCHANGED <<payload, putOff>>
  /\ UNCHANGED <<exists, meta, putId, getVars, history>>

\* Slip: the error of io.Copy is dropped.
CopyUnchecked(p) == CopyOr(p, Following("copy"))

(* io.Copy, block by block; its source or its target may fail.             *)
Copy(p) == CopyOr(p, "abort")

(* os.WriteFile opens metadata.json with O_TRUNC, then writes it.          *)
OpenMeta(p) ==
  /\ putPc[p] = "openMeta"
  /\ \/ /\ Goto(p, Following("openMeta"))
        /\ meta' = [meta EXCEPT ![putId[p]] = "empty"]
        /\ UNCHANGED faults
     \/ Goto(p, "abort") /\ Fault /\ UNCHANGED meta
  /\ UNCHANGED <<payload, exists, putId, putOff, getVars, history>>

WriteMeta(p) ==
  /\ putPc[p] = "writeMeta"
  /\ \/ /\ Goto(p, Following("writeMeta"))
        /\ meta' = [meta EXCEPT ![putId[p]] = "written"]
        /\ UNCHANGED faults
     \/ Goto(p, "abort") /\ Fault /\ UNCHANGED meta
  /\ UNCHANGED <<payload, exists, putId, putOff, getVars, history>>

(* The deferred Close, whatever became of the Put, with an error nobody    *)
(* looks at: Put returns its Ref although the last block may not have      *)
(* reached the server.                                                     *)
ClosePayload(p) ==
  LET id == putId[p]
  IN /\ \/ putPc[p] = "close" /\ Goto(p, "returned")
        \/ putPc[p] = "abort" /\ Goto(p, "failed")
     /\ \/ UNCHANGED <<payload, lost, faults>>
        \/ /\ payload[id] # <<>> /\ Fault
           /\ payload' = [payload EXCEPT ![id] = SubSeq(@, 1, Len(@) - 1)]
           /\ lost' = [lost EXCEPT ![p] = TRUE]
     /\ UNCHANGED <<exists, meta, putId, putOff, getVars, owner, overlap>>

-----------------------------------------------------------------------------
(* Get.                                                                    *)

(* Get is given the Ref some Put returned, or one of another backend.      *)
Open(g) ==
  /\ getPc[g] = "idle"
  /\ \E p \in Puts, sameBackend \in BOOLEAN :
       /\ putPc[p] = "returned"
       /\ getRef' = [getRef EXCEPT ![g] = p]
       /\ getPc' = [getPc EXCEPT ![g] =
                      IF sameBackend /\ exists[putId[p]] THEN "reading" ELSE "failed"]
  /\ UNCHANGED <<files, putVars, getOff, got, history, faults>>

(* The caller reads the file it was handed, block by block, up to its end. *)
Read(g) ==
  LET file == payload[putId[getRef[g]]]
  IN /\ getPc[g] = "reading"
     /\ IF getOff[g] < Len(file)
        THEN /\ got' = [got EXCEPT ![g] = Append(@, file[getOff[g] + 1])]
             /\ getOff' = [getOff EXCEPT ![g] = @ + 1]
             /\ UNCHANGED getPc
        ELSE /\ getPc' = [getPc EXCEPT ![g] = "done"]
             /\ UNCHANGED <<got, getOff>>
     /\ UNCHANGED <<files, putVars, getRef, history, faults>>

-----------------------------------------------------------------------------
PutEnded(p) == putPc[p] \in {"idle", "returned", "failed", "dead"}
GetEnded(g) == getPc[g] \in {"idle", "done", "failed", "dead"}

(* The process dies: what was going on stops where it is.  Other Puts and  *)
(* Gets may follow after a restart.                                        *)
Crash ==
  /\ Fault
  /\ putPc' = [p \in Puts |-> IF PutEnded(p) THEN putPc[p] ELSE "dead"]
  /\ getPc' = [g \in Gets |-> IF GetEnded(g) THEN getPc[g] ELSE "dead"]
  /\ UNCHANGED <<files, putId, putOff, getRef, getOff, got, history>>

Put(p) ==
  MakeDir(p) \/ CreatePayload(p) \/ Copy(p) \/ OpenMeta(p) \/ WriteMeta(p) \/ ClosePayload(p)

Get(g) == Open(g) \/ Read(g)

Next == (\E p \in Puts : Put(p)) \/ (\E g \in Gets : Get(g)) \/ Crash

Spec == Init /\ [][Next]_vars

-----------------------------------------------------------------------------
TypeOK ==
  /\ payload \in [Ids -> Seq(Puts \cup {Hole})]
  /\ exists \in [Ids -> BOOLEAN]
  /\ meta \in [Ids -> {"none", "empty", "written"}]
  /\ putPc \in [Puts -> {"idle", "create", "copy", "openMeta", "writeMeta", "close",
                         "abort", "returned", "failed", "dead"}]
  /\ putId \in [Puts -> Ids]
  /\ putOff \in [Puts -> Nat] /\ \A p \in Puts : putOff[p] <= Size[p]
  /\ getPc \in [Gets -> {"idle", "reading", "done", "failed", "dead"}]
  /\ getRef \in [Gets -> Puts \cup {NoPut}]
  /\ getOff \in [Gets -> Nat]
  /\ got \in [Gets -> Seq(Puts \cup {Hole})]
  /\ owner \in [Ids -> Puts \cup {NoPut}]
  /\ overlap \in [Ids -> BOOLEAN] /\ lost \in [Puts -> BOOLEAN]
  /\ faults \in 0..MaxFaults

(* Put p was the last to create the payload, and no two Puts of this id    *)
(* ever had it open together.                                              *)
Undivided(p) == owner[putId[p]] = p /\ ~overlap[putId[p]]

(* What Put took is what Get gives back, as long as the Puts of an id      *)
(* follow one another and no close lost data: also after failed Puts,      *)
(* crashes and longer payloads before it (the truncation in os.Create, the *)
(* checked io.Copy).                                                       *)
ReadsWhatWasPut ==
  \A g \in Gets : getPc[g] = "done" =>
    LET p == getRef[g] IN Undivided(p) /\ ~lost[p] => got[g] = Content(p)

(* For an id that was put only once, metadata.json marks a whole payload:  *)
(* a Put that failed or died halfway leaves none, or an empty one, behind  *)
(* (the order of Put's writes).                                            *)
MetadataMarksComplete ==
  \A p \in Puts :
    LET putOnce == \A q \in Puts \ {p} : putId[q] = putId[p] => putPc[q] = "idle"
    IN putOnce /\ owner[putId[p]] = p /\ meta[putId[p]] = "written" /\ ~lost[p] =>
         payload[putId[p]] = Content(p)

-----------------------------------------------------------------------------
(* Statements of the repository that the store does not keep.              *)

(* store.go:37, "Put writes content to <basePath>/<id>/payload", on "local *)
(* disk, NFS mount, etc." (23): when it returns a Ref, the content is      *)
(* there.  The error of the deferred Close is dropped.                     *)
PutWritesContent ==
  \A p \in Puts : putPc[p] = "returned" /\ Undivided(p) => payload[putId[p]] = Content(p)
=============================================================================
