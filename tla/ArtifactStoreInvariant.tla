----------------------- MODULE ArtifactStoreInvariant -----------------------
(***************************************************************************)
(* The inductive invariant behind ReadsWhatWasPut and                      *)
(* MetadataMarksComplete: what a file holds as long as one Put at a time   *)
(* has it open.                                                            *)
(***************************************************************************)
EXTENDS ArtifactStore

Prefix(p, n) == [k \in 1..n |-> p]
Writing(p)   == p \in Writers(putId[p])

(* No other Put of the same id has begun.                                  *)
PutOnce(p) == \A q \in Puts \ {p} : putId[q] = putId[p] => putPc[q] = "idle"

(* A Put and its file.                                                     *)
PutPart(p) ==
  /\ putPc[p] \in {"idle", "create"} => putOff[p] = 0 /\ owner[putId[p]] # p
  /\ putPc[p] \in {"openMeta", "writeMeta", "close", "returned"} => putOff[p] = Size[p]
  /\ lost[p] => putPc[p] \in {"returned", "failed"}
  /\ Writing(p) /\ ~overlap[putId[p]] => owner[putId[p]] = p
  /\ Undivided(p) /\ ~lost[p] => payload[putId[p]] = Prefix(p, putOff[p])

(* A Get and what it has read of a file that is still its Put's own.       *)
GetPart(g) ==
  /\ getPc[g] = "idle" => getOff[g] = 0 /\ got[g] = <<>>
  /\ getPc[g] \in {"reading", "done"} =>
       /\ getRef[g] \in Puts /\ putPc[getRef[g]] = "returned"
       /\ Undivided(getRef[g]) /\ ~lost[getRef[g]] =>
            /\ getOff[g] <= Size[getRef[g]] /\ got[g] = Prefix(getRef[g], getOff[g])
            /\ getPc[g] = "done" => getOff[g] = Size[getRef[g]]

(* A Put and the metadata of an id that only it has touched.               *)
MetaPart(p) ==
  PutOnce(p) =>
    /\ ~overlap[putId[p]]
    /\ putPc[p] \in {"idle", "create", "copy"} => meta[putId[p]] # "written"
    /\ meta[putId[p]] = "written" => putOff[p] = Size[p]

StoreInv ==
  /\ TypeOK
  /\ \A p \in Puts : PutPart(p) /\ MetaPart(p)
  /\ \A g \in Gets : GetPart(g)
=============================================================================
