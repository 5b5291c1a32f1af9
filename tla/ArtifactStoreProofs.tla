------------------------- MODULE ArtifactStoreProofs -------------------------
(***************************************************************************)
(* Theorems about the filesystem store, for any ids, Puts and Gets, any    *)
(* sizes, and any number of failed operations and crashes.                 *)
(***************************************************************************)
EXTENDS ArtifactStoreInvariant, TLAPS

USE StoreAssumption DEF StoreAssumption

Block   == Puts \cup {Hole}
PutPcs  == {"idle", "create", "copy", "openMeta", "writeMeta", "close", "abort",
            "returned", "failed", "dead"}
GetPcs  == {"idle", "reading", "done", "failed", "dead"}

-----------------------------------------------------------------------------
(* Type correctness.                                                       *)

(* A write keeps a file a sequence of blocks.                              *)
LEMMA WriteAtType ==
  ASSUME NEW file \in Seq(Block), NEW k \in Nat \ {0}, NEW b \in Block
  PROVE  WriteAt(file, k, b) \in Seq(Block)
<1> DEFINE n == IF k > Len(file) THEN k ELSE Len(file)
<1>1. n \in Nat
  OBVIOUS
<1>2. \A i \in 1..n : (IF i = k THEN b ELSE IF i <= Len(file) THEN file[i] ELSE Hole) \in Block
  BY DEF Block
<1>3. WriteAt(file, k, b) \in [1..n -> Block]
  BY <1>2 DEF WriteAt
<1> QED
  BY <1>1, <1>3

(* So does the loss of the last block.                                     *)
LEMMA CutType ==
  ASSUME NEW file \in Seq(Block), file # <<>>
  PROVE  SubSeq(file, 1, Len(file) - 1) \in Seq(Block)
  OBVIOUS

(* The store starts empty, with every operation idle.                      *)
LEMMA InitTypes == Init => TypeOK
  BY DEF Init, TypeOK

(* An operation leaves most of the state alone; the rest is typed below.   *)
LEMMA PutTypes ==
  ASSUME TypeOK, NEW p \in Puts, Put(p)
  PROVE  TypeOK'
<1>0. /\ payload \in [Ids -> Seq(Block)] /\ putId \in [Puts -> Ids] /\ putId[p] \in Ids
      /\ putOff \in [Puts -> Nat] /\ putOff[p] \in Nat
  BY DEF TypeOK, Block
<1>1. UNCHANGED <<putId, getPc, getRef, getOff, got>>
  BY DEF Put, MakeDir, CreatePayload, Created, Copy, CopyOr, OpenMeta, WriteMeta, ClosePayload,
         getVars
<1>2. putPc' \in [Puts -> PutPcs]
  <2>1. \E there \in PutPcs : Goto(p, there) \/ UNCHANGED putPc
    BY DEF Put, MakeDir, CreatePayload, Created, Copy, CopyOr, OpenMeta, WriteMeta, ClosePayload,
           PutPcs, Following
  <2> QED
    BY <2>1 DEF Goto, TypeOK, PutPcs
<1>3. faults' \in 0..MaxFaults
  <2>1. Fault \/ UNCHANGED faults
    BY DEF Put, MakeDir, CreatePayload, Created, Copy, CopyOr, OpenMeta, WriteMeta, ClosePayload
  <2> QED
    BY <2>1 DEF Fault, TypeOK
<1>4. payload' \in [Ids -> Seq(Block)]
  <2>1. WriteAt(payload[putId[p]], putOff[p] + 1, p) \in Seq(Block)
    <3>1. payload[putId[p]] \in Seq(Block) /\ putOff[p] + 1 \in Nat \ {0} /\ p \in Block
      BY <1>0 DEF Block
    <3> QED
      BY <3>1, WriteAtType
  <2>2. \/ UNCHANGED payload
        \/ payload' = [payload EXCEPT ![putId[p]] = <<>>]
        \/ payload' = [payload EXCEPT ![putId[p]] = WriteAt(@, putOff[p] + 1, p)]
        \/ /\ payload[putId[p]] # <<>>
           /\ payload' = [payload EXCEPT ![putId[p]] = SubSeq(@, 1, Len(@) - 1)]
    BY DEF Put, MakeDir, CreatePayload, Created, Copy, CopyOr, OpenMeta, WriteMeta, ClosePayload,
           files
  <2>3. payload[putId[p]] # <<>> =>
          SubSeq(payload[putId[p]], 1, Len(payload[putId[p]]) - 1) \in Seq(Block)
    BY <1>0, CutType
  <2>4. <<>> \in Seq(Block)
    OBVIOUS
  <2> QED
    BY <1>0, <2>1, <2>2, <2>3, <2>4
<1>5. exists' \in [Ids -> BOOLEAN]
  <2>1. UNCHANGED exists \/ exists' = [exists EXCEPT ![putId[p]] = TRUE]
    BY DEF Put, MakeDir, CreatePayload, Created, Copy, CopyOr, OpenMeta, WriteMeta, ClosePayload,
           files
  <2> QED
    BY <2>1 DEF TypeOK
<1>6. meta' \in [Ids -> {"none", "empty", "written"}]
  <2>1. \/ UNCHANGED meta
        \/ meta' = [meta EXCEPT ![putId[p]] = "empty"]
        \/ meta' = [meta EXCEPT ![putId[p]] = "written"]
    BY DEF Put, MakeDir, CreatePayload, Created, Copy, CopyOr, OpenMeta, WriteMeta, ClosePayload,
           files
  <2> QED
    BY <2>1 DEF TypeOK
<1>7. putOff' \in [Puts -> Nat] /\ \A q \in Puts : putOff'[q] <= Size[q]
  <2>1. \/ UNCHANGED putOff
        \/ MoreToCopy(p) /\ putOff' = [putOff EXCEPT ![p] = @ + 1]
    BY DEF Put, MakeDir, CreatePayload, Created, Copy, CopyOr, OpenMeta, WriteMeta, ClosePayload
  <2> QED
    <3>1. \A q \in Puts : putOff[q] <= Size[q]
      BY DEF TypeOK
    <3>2. \A q \in Puts : Size[q] \in Nat
      OBVIOUS
    <3>3. CASE UNCHANGED putOff
      BY <1>0, <3>1, <3>3
    <3>4. CASE MoreToCopy(p) /\ putOff' = [putOff EXCEPT ![p] = @ + 1]
      <4>1. putOff' \in [Puts -> Nat]
        BY <1>0, <3>4
      <4>2. ASSUME NEW q \in Puts PROVE putOff'[q] <= Size[q]
        BY <1>0, <3>1, <3>2, <3>4 DEF MoreToCopy
      <4> QED
        BY <4>1, <4>2
    <3> QED
      BY <2>1, <3>3, <3>4
<1>8. /\ owner' \in [Ids -> Puts \cup {NoPut}]
      /\ overlap' \in [Ids -> BOOLEAN] /\ lost' \in [Puts -> BOOLEAN]
  <2>1. \/ UNCHANGED <<owner, overlap>>
        \/ /\ owner' = [owner EXCEPT ![putId[p]] = p]
           /\ \E b \in BOOLEAN : overlap' = [overlap EXCEPT ![putId[p]] = b]
    BY DEF Put, MakeDir, CreatePayload, Created, Copy, CopyOr, OpenMeta, WriteMeta, ClosePayload,
           history, TypeOK
  <2>2. UNCHANGED lost \/ lost' = [lost EXCEPT ![p] = TRUE]
    BY DEF Put, MakeDir, CreatePayload, Created, Copy, CopyOr, OpenMeta, WriteMeta, ClosePayload,
           history
  <2>3. owner' \in [Ids -> Puts \cup {NoPut}]
    BY <1>0, <2>1 DEF TypeOK
  <2>4. overlap' \in [Ids -> BOOLEAN]
    BY <1>0, <2>1 DEF TypeOK
  <2>5. lost' \in [Puts -> BOOLEAN]
    BY <2>2 DEF TypeOK
  <2> QED
    BY <2>3, <2>4, <2>5
<1> QED
  BY <1>1, <1>2, <1>3, <1>4, <1>5, <1>6, <1>7, <1>8 DEF TypeOK, PutPcs, Block

(* A Get changes its own offset, reference and copy only.                  *)
LEMMA GetTypes ==
  ASSUME TypeOK, NEW g \in Gets, GetPart(g), Get(g)
  PROVE  TypeOK'
<1>0. /\ payload \in [Ids -> Seq(Block)] /\ putId \in [Puts -> Ids]
      /\ getOff \in [Gets -> Nat] /\ got \in [Gets -> Seq(Block)]
  BY DEF TypeOK, Block
<1>1. UNCHANGED <<files, putVars, history, faults>>
  BY DEF Get, Open, Read, putVars
<1>2. getPc' \in [Gets -> GetPcs]
  BY DEF Get, Open, Read, TypeOK, GetPcs
<1>3. getRef' \in [Gets -> Puts \cup {NoPut}]
  <2>1. UNCHANGED getRef \/ \E p \in Puts : getRef' = [getRef EXCEPT ![g] = p]
    BY DEF Get, Open, Read
  <2> QED
    BY <2>1 DEF TypeOK
<1>4. getOff' \in [Gets -> Nat] /\ got' \in [Gets -> Seq(Block)]
  <2> DEFINE file == payload[putId[getRef[g]]]
  <2>1. \/ UNCHANGED <<getOff, got>>
        \/ /\ Read(g) /\ getOff[g] < Len(file)
           /\ got' = [got EXCEPT ![g] = Append(@, file[getOff[g] + 1])]
           /\ getOff' = [getOff EXCEPT ![g] = @ + 1]
    BY DEF Get, Open, Read
  <2>2. CASE UNCHANGED <<getOff, got>>
    BY <1>0, <2>2
  <2>3. CASE ~UNCHANGED <<getOff, got>>
    <3>1. getPc[g] = "reading"
      BY <2>1, <2>3 DEF Read
    <3>2. file \in Seq(Block)
      BY <1>0, <3>1 DEF GetPart
    <3>3. getOff[g] + 1 \in 1..Len(file)
      BY <1>0, <2>1, <2>3
    <3>4. file[getOff[g] + 1] \in Block
      BY <3>2, <3>3
    <3>5. Append(got[g], file[getOff[g] + 1]) \in Seq(Block)
      BY <1>0, <3>4
    <3>6. /\ got' = [got EXCEPT ![g] = Append(got[g], file[getOff[g] + 1])]
          /\ getOff' = [getOff EXCEPT ![g] = getOff[g] + 1]
      BY <2>1, <2>3
    <3> HIDE DEF file
    <3>7. got' \in [Gets -> Seq(Block)]
      BY <1>0, <3>5, <3>6
    <3> QED
      BY <1>0, <3>6, <3>7
  <2> QED
    BY <2>2, <2>3
<1> QED
  BY <1>1, <1>2, <1>3, <1>4 DEF TypeOK, GetPcs, Block, files, putVars, history

(* A crash changes the control of the operations under way.                *)
LEMMA CrashTypes ==
  ASSUME TypeOK, Crash
  PROVE  TypeOK'
<1>1. putPc' \in [Puts -> PutPcs]
  BY DEF Crash, TypeOK, PutPcs
<1>2. getPc' \in [Gets -> GetPcs]
  BY DEF Crash, TypeOK, GetPcs
<1>3. faults' \in 0..MaxFaults
  BY DEF Crash, Fault, TypeOK
<1>4. UNCHANGED <<files, putId, putOff, getRef, getOff, got, history>>
  BY DEF Crash
<1> QED
  BY <1>1, <1>2, <1>3, <1>4 DEF TypeOK, PutPcs, GetPcs, files, history

-----------------------------------------------------------------------------
(* The files.                                                              *)

(* What the proofs below take from TypeOK.                                 *)
LEMMA Typed ==
  ASSUME TypeOK
  PROVE  /\ payload \in [Ids -> Seq(Block)] /\ meta \in [Ids -> {"none", "empty", "written"}]
         /\ putPc \in [Puts -> PutPcs] /\ putId \in [Puts -> Ids] /\ putOff \in [Puts -> Nat]
         /\ owner \in [Ids -> Puts \cup {NoPut}]
         /\ overlap \in [Ids -> BOOLEAN] /\ lost \in [Puts -> BOOLEAN]
         /\ \A p \in Puts : putOff[p] <= Size[p] /\ putOff[p] \in Nat /\ Size[p] \in Nat
  BY DEF TypeOK, Block, PutPcs

(* The next block of a Put that is the only one to have the file open.     *)
LEMMA PrefixGrows ==
  ASSUME NEW p, NEW n \in Nat
  PROVE  WriteAt(Prefix(p, n), n + 1, p) = Prefix(p, n + 1)
<1>1. Len(Prefix(p, n)) = n
  BY DEF Prefix
<1> QED
  BY <1>1 DEF WriteAt, Prefix

(* os.Create: the file now belongs to this Put, or to nobody undivided.    *)
LEMMA CreateKeeps ==
  ASSUME TypeOK, NEW q \in Puts, CreatePayload(q),
         \A p \in Puts : PutPart(p) /\ MetaPart(p), \A g \in Gets : GetPart(g)
  PROVE  (\A p \in Puts : PutPart(p)' /\ MetaPart(p)') /\ (\A g \in Gets : GetPart(g)')
<1>1. UNCHANGED <<meta, putId, putOff, getVars, lost>> /\ putPc[q] = "create"
  BY DEF CreatePayload, Created
<1>2. \/ /\ putPc' = [putPc EXCEPT ![q] = "copy"]
         /\ payload' = [payload EXCEPT ![putId[q]] = <<>>]
         /\ owner' = [owner EXCEPT ![putId[q]] = q]
         /\ overlap' = [overlap EXCEPT ![putId[q]] = @ \/ Writers(putId[q]) # {}]
      \/ putPc' = [putPc EXCEPT ![q] = "failed"] /\ UNCHANGED <<payload, owner, overlap>>
  BY DEF CreatePayload, Created, Goto, Following
<1>3. ASSUME NEW p \in Puts PROVE PutPart(p)'
  <2>1. CASE p = q
    <3>1. CASE putPc'[q] = "copy"
      <4>1. putPc[q] = "create" /\ putOff'[q] = 0 /\ ~lost'[q]
        BY <1>1, <2>1, <3>1 DEF PutPart
      <4>2. owner'[putId[q]] = q /\ payload'[putId[q]] = <<>>
        BY <1>2, <3>1, Typed
      <4>3. Prefix(q, 0) = <<>>
        BY DEF Prefix
      <4> QED
        BY <1>1, <2>1, <3>1, <4>1, <4>2, <4>3 DEF PutPart, Undivided, Prefix
    <3>2. CASE putPc'[q] = "failed" /\ UNCHANGED <<payload, owner, overlap>>
      BY <1>1, <2>1, <3>2, Typed DEF PutPart, Undivided, Writing, Writers
    <3> QED
      BY <1>2, <3>1, <3>2, Typed
  <2>2. CASE p # q /\ putId[p] # putId[q]
    BY <1>1, <1>2, <2>2, Typed DEF PutPart, Undivided, Writing, Writers
  <2>3. CASE p # q /\ putId[p] = putId[q]
    <3>1. putPc'[p] = putPc[p] /\ (Writing(p)' <=> Writing(p))
      BY <1>1, <1>2, <2>3, Typed DEF Writing, Writers
    <3>2. CASE putPc'[q] = "copy"
      <4>1. owner'[putId[p]] = q
        BY <1>2, <2>3, <3>2, Typed
      <4>2. overlap'[putId[q]] = (overlap[putId[q]] \/ Writers(putId[q]) # {})
        BY <1>2, <3>2, Typed
      <4>3. Writing(p) => overlap'[putId[p]]
        BY <2>3, <4>2 DEF Writing
      <4> QED
        BY <1>1, <2>3, <3>1, <4>1, <4>3 DEF PutPart, Undivided
    <3>3. CASE putPc'[q] = "failed" /\ UNCHANGED <<payload, owner, overlap>>
      BY <1>1, <3>1, <3>3 DEF PutPart, Undivided
    <3> QED
      BY <1>2, <3>2, <3>3, Typed
  <2> QED
    BY <2>1, <2>2, <2>3
<1>4. ASSUME NEW p \in Puts PROVE MetaPart(p)'
  <2>1. CASE p = q
    <3>1. PutOnce(q)' => PutOnce(q) /\ Writers(putId[q]) = {}
      BY <1>1, <1>2, Typed DEF PutOnce, Writers
    <3>2. PutOnce(q) => meta[putId[q]] # "written" /\ ~overlap[putId[q]]
      BY <1>1 DEF MetaPart
    <3>3. PutOnce(q)' => ~overlap'[putId[q]]
      BY <1>2, <3>1, <3>2, Typed
    <3> QED
      BY <1>1, <2>1, <3>1, <3>2, <3>3 DEF MetaPart
  <2>2. CASE p # q /\ putId[p] # putId[q]
    BY <1>1, <1>2, <2>2, Typed DEF MetaPart, PutOnce, Writers
  <2>3. CASE p # q /\ putId[p] = putId[q]
    BY <1>1, <1>2, <2>3, Typed DEF MetaPart, PutOnce, Writers
  <2> QED
    BY <2>1, <2>2, <2>3
<1>5. ASSUME NEW p \in Puts, p # q PROVE Undivided(p)' => Undivided(p)
  <2>1. putId[p] \in Ids /\ putId[q] \in Ids /\ putId'[p] = putId[p]
    BY <1>1, Typed
  <2>2. CASE UNCHANGED <<owner, overlap>>
    BY <2>1, <2>2 DEF Undivided
  <2>3. CASE /\ owner' = [owner EXCEPT ![putId[q]] = q]
             /\ overlap' = [overlap EXCEPT ![putId[q]] = @ \/ Writers(putId[q]) # {}]
    <3>1. putId[p] = putId[q] => owner'[putId[p]] = q
      BY <2>1, <2>3, Typed
    <3>2. putId[p] # putId[q] => /\ owner'[putId[p]] = owner[putId[p]]
                                 /\ overlap'[putId[p]] = overlap[putId[p]]
      BY <2>1, <2>3, Typed
    <3> QED
      BY <1>5, <2>1, <3>1, <3>2 DEF Undivided
  <2> QED
    BY <1>2, <2>2, <2>3
<1>6. ASSUME NEW g \in Gets PROVE GetPart(g)'
  <2> DEFINE p == getRef[g]
  <2>1. CASE ~(p \in Puts)
    BY <1>1, <2>1 DEF GetPart, getVars
  <2>2. CASE p \in Puts /\ putPc[p] = "returned"
    <3>1. p # q /\ putPc'[p] = putPc[p] /\ lost' = lost /\ UNCHANGED getVars
      BY <1>1, <1>2, <2>2, Typed
    <3>2. Undivided(p)' => Undivided(p)
      <4>1. getRef' = getRef /\ p' = p
        BY <3>1 DEF getVars
      <4> QED
        BY <1>5, <2>2, <3>1, <4>1 DEF Undivided
    <3> QED
      BY <2>2, <3>1, <3>2 DEF GetPart, getVars
  <2>3. CASE getPc[g] \notin {"reading", "done"}
    BY <1>1, <2>3 DEF GetPart, getVars
  <2> QED
    BY <2>1, <2>2, <2>3 DEF GetPart
<1> QED
  BY <1>3, <1>4, <1>6

(* io.Copy: an undivided file is written by its owner only.                *)
LEMMA CopyKeeps ==
  ASSUME TypeOK, NEW q \in Puts, Copy(q),
         \A p \in Puts : PutPart(p) /\ MetaPart(p), \A g \in Gets : GetPart(g)
  PROVE  (\A p \in Puts : PutPart(p)' /\ MetaPart(p)') /\ (\A g \in Gets : GetPart(g)')
<1>1. /\ UNCHANGED <<meta, putId, owner, overlap, lost, getVars>>
      /\ putPc[q] = "copy" /\ putPc' \in [Puts -> PutPcs]
  <2>1. \E there \in PutPcs : Goto(q, there) \/ UNCHANGED putPc
    BY DEF Copy, CopyOr, Following, PutPcs
  <2>2. putPc' \in [Puts -> PutPcs]
    BY <2>1, Typed DEF Goto
  <2> QED
    BY <2>2 DEF Copy, CopyOr, history
<1>2. \/ /\ putOff[q] < Size[q] /\ UNCHANGED putPc
         /\ payload' = [payload EXCEPT ![putId[q]] = WriteAt(@, putOff[q] + 1, q)]
         /\ putOff' = [putOff EXCEPT ![q] = @ + 1]
      \/ putOff[q] = Size[q] /\ putPc' = [putPc EXCEPT ![q] = "openMeta"] /\ UNCHANGED <<payload, putOff>>
      \/ putPc' = [putPc EXCEPT ![q] = "abort"] /\ UNCHANGED <<payload, putOff>>
  <2>1. putOff[q] <= Size[q] /\ putOff[q] \in Nat /\ Size[q] \in Nat
    BY Typed
  <2>2. ~MoreToCopy(q) => putOff[q] = Size[q]
    BY <2>1 DEF MoreToCopy
  <2> QED
    BY <2>2 DEF Copy, CopyOr, MoreToCopy, Goto, Following
<1>3. ASSUME NEW p \in Puts, p # q
      PROVE  /\ putPc'[p] = putPc[p] /\ putOff'[p] = putOff[p]
             /\ Undivided(p) => payload'[putId[p]] = payload[putId[p]]
  <2>1. putPc'[p] = putPc[p] /\ putOff'[p] = putOff[p]
    BY <1>2, <1>3, Typed
  <2>2. ASSUME Undivided(p), putId[p] = putId[q] PROVE FALSE
    <3>1. Writing(q)
      BY <1>1 DEF Writing, Writers
    <3> QED
      BY <1>3, <2>2, <3>1 DEF PutPart, Undivided
  <2>3. putId[p] # putId[q] => payload'[putId[p]] = payload[putId[p]]
    BY <1>2, Typed
  <2> QED
    BY <2>1, <2>2, <2>3
<1>4. ASSUME NEW p \in Puts PROVE PutPart(p)'
  <2>1. CASE p = q
    <3>1. Writing(q) /\ ~lost[q]
      BY <1>1 DEF Writing, Writers, PutPart
    <3>2. CASE putOff'[q] = putOff[q] + 1 /\ UNCHANGED putPc
      <4>1. payload'[putId[q]] = WriteAt(payload[putId[q]], putOff[q] + 1, q)
        BY <1>2, <3>2, Typed
      <4>2. Undivided(q) => payload'[putId[q]] = Prefix(q, putOff[q] + 1)
        BY <3>1, <4>1, PrefixGrows, Typed DEF PutPart
      <4> QED
        BY <1>1, <2>1, <3>1, <3>2, <4>2 DEF PutPart, Undivided
    <3>3. CASE putOff[q] = Size[q] /\ putPc'[q] = "openMeta" /\ UNCHANGED <<payload, putOff>>
      BY <1>1, <2>1, <3>1, <3>3 DEF PutPart, Undivided
    <3>4. CASE putPc'[q] = "abort" /\ UNCHANGED <<payload, putOff>>
      BY <1>1, <2>1, <3>1, <3>4 DEF PutPart, Undivided
    <3> QED
      BY <1>2, <3>2, <3>3, <3>4, Typed
  <2>2. CASE p # q
    <3>1. Writing(p)' <=> Writing(p)
      BY <1>1, <1>3, <2>2 DEF Writing, Writers
    <3> QED
      BY <1>1, <1>3, <2>2, <3>1 DEF PutPart, Undivided
  <2> QED
    BY <2>1, <2>2
<1>5. ASSUME NEW p \in Puts PROVE MetaPart(p)'
  <2>1. PutOnce(p)' => PutOnce(p)
    <3>1. putPc'[q] # "idle"
      BY <1>1, <1>2, Typed
    <3> QED
      BY <1>1, <1>3, <3>1 DEF PutOnce
  <2>2. CASE p = q
    <3>1. PutOnce(q) => meta[putId[q]] # "written"
      BY <1>1 DEF MetaPart
    <3> QED
      BY <1>1, <2>1, <2>2, <3>1 DEF MetaPart
  <2>3. CASE p # q
    BY <1>1, <1>3, <2>1, <2>3 DEF MetaPart
  <2> QED
    BY <2>2, <2>3
<1>6. ASSUME NEW g \in Gets PROVE GetPart(g)'
  <2>1. getRef[g] \in Puts /\ putPc[getRef[g]] = "returned" => getRef[g] # q
    BY <1>1
  <2> QED
    BY <1>1, <1>3, <2>1 DEF GetPart, getVars, Undivided
<1> QED
  BY <1>4, <1>5, <1>6

(* The directory and the metadata.                                         *)
LEMMA MetaKeeps ==
  ASSUME TypeOK, NEW q \in Puts, MakeDir(q) \/ OpenMeta(q) \/ WriteMeta(q),
         \A p \in Puts : PutPart(p) /\ MetaPart(p), \A g \in Gets : GetPart(g)
  PROVE  (\A p \in Puts : PutPart(p)' /\ MetaPart(p)') /\ (\A g \in Gets : GetPart(g)')
<1>1. UNCHANGED <<payload, putId, putOff, owner, overlap, lost, getVars>>
  BY DEF MakeDir, OpenMeta, WriteMeta, files, history
<1>2. \/ /\ putPc[q] = "idle" /\ UNCHANGED meta
         /\ \E there \in {"create", "failed"} : putPc' = [putPc EXCEPT ![q] = there]
      \/ /\ putPc[q] = "openMeta" /\ putPc' = [putPc EXCEPT ![q] = "writeMeta"]
         /\ meta' = [meta EXCEPT ![putId[q]] = "empty"]
      \/ /\ putPc[q] = "writeMeta" /\ putPc' = [putPc EXCEPT ![q] = "close"]
         /\ meta' = [meta EXCEPT ![putId[q]] = "written"]
      \/ /\ putPc[q] \in {"openMeta", "writeMeta"} /\ putPc' = [putPc EXCEPT ![q] = "abort"]
         /\ UNCHANGED meta
  BY DEF MakeDir, OpenMeta, WriteMeta, files, Goto, Following
<1>3. \A p \in Puts : p # q => putPc'[p] = putPc[p]
  BY <1>2, Typed
<1>4. ASSUME NEW p \in Puts PROVE PutPart(p)'
  <2>1. CASE p = q
    <3>1. /\ putPc[q] \in {"idle", "openMeta", "writeMeta"}
          /\ putPc'[q] \in {"create", "failed", "writeMeta", "close", "abort"}
      BY <1>2, Typed
    <3>2. putPc[q] = "idle" <=> putPc'[q] \in {"create", "failed"}
      BY <1>2, Typed
    <3>3. (Writing(q)' => Writing(q)) /\ (Undivided(q)' <=> Undivided(q))
      BY <1>1, <3>1, <3>2 DEF Writing, Writers, Undivided
    <3> QED
      BY <1>1, <2>1, <3>1, <3>2, <3>3 DEF PutPart
  <2>2. CASE p # q
    <3>1. (Writing(p)' <=> Writing(p)) /\ (Undivided(p)' <=> Undivided(p))
      BY <1>1, <1>3, <2>2 DEF Writing, Writers, Undivided
    <3> QED
      BY <1>1, <1>3, <2>2, <3>1 DEF PutPart
  <2> QED
    BY <2>1, <2>2
<1>5. ASSUME NEW p \in Puts, PutOnce(p)'
      PROVE  /\ ~overlap'[putId[p]]
             /\ putPc'[p] \in {"idle", "create", "copy"} => meta'[putId[p]] # "written"
             /\ meta'[putId[p]] = "written" => putOff'[p] = Size[p]
  <2>1. putPc'[q] # "idle"
    BY <1>2, Typed
  <2>2. PutOnce(p) /\ (p = q \/ putId[p] # putId[q])
    BY <1>1, <1>3, <1>5, <2>1 DEF PutOnce
  <2>3. CASE p = q
    <3>1. putPc[q] \in {"openMeta", "writeMeta"} => putOff[q] = Size[q]
      BY DEF PutPart
    <3>2. putPc[q] = "idle" => meta[putId[q]] # "written" /\ UNCHANGED meta
      BY <1>2, <2>2, <2>3 DEF MetaPart
    <3>3. putPc[q] # "idle" => putPc[q] \in {"openMeta", "writeMeta"} /\ putPc'[q] \notin {"idle", "create", "copy"}
      BY <1>2, Typed
    <3> QED
      BY <1>1, <2>2, <2>3, <3>1, <3>2, <3>3 DEF MetaPart
  <2>4. CASE putId[p] # putId[q]
    <3>1. meta'[putId[p]] = meta[putId[p]] /\ putPc'[p] = putPc[p]
      BY <1>2, <1>3, <2>4, Typed
    <3> QED
      BY <1>1, <2>2, <3>1 DEF MetaPart
  <2> QED
    BY <2>2, <2>3, <2>4
<1>6. ASSUME NEW g \in Gets PROVE GetPart(g)'
  <2>1. getRef[g] \in Puts /\ putPc[getRef[g]] = "returned" => getRef[g] # q
    BY <1>2
  <2> QED
    BY <1>1, <1>3, <2>1 DEF GetPart, getVars, Undivided
<1> QED
  BY <1>1, <1>4, <1>5, <1>6 DEF MetaPart

(* The deferred Close loses a block of the file's owner only, and says so  *)
(* in lost.                                                                *)
LEMMA CloseKeeps ==
  ASSUME TypeOK, NEW q \in Puts, ClosePayload(q),
         \A p \in Puts : PutPart(p) /\ MetaPart(p), \A g \in Gets : GetPart(g)
  PROVE  (\A p \in Puts : PutPart(p)' /\ MetaPart(p)') /\ (\A g \in Gets : GetPart(g)')
<1>1. /\ UNCHANGED <<meta, putId, putOff, owner, overlap, getVars>>
      /\ \/ putPc[q] = "close" /\ putPc' = [putPc EXCEPT ![q] = "returned"]
         \/ putPc[q] = "abort" /\ putPc' = [putPc EXCEPT ![q] = "failed"]
  BY DEF ClosePayload, Goto
<1>2. \/ UNCHANGED <<payload, lost>>
      \/ /\ lost' = [lost EXCEPT ![q] = TRUE]
         /\ payload' = [payload EXCEPT ![putId[q]] = SubSeq(@, 1, Len(@) - 1)]
  BY DEF ClosePayload
<1>3. ASSUME NEW p \in Puts, p # q
      PROVE  /\ putPc'[p] = putPc[p] /\ lost'[p] = lost[p]
             /\ Undivided(p) => payload'[putId[p]] = payload[putId[p]]
  <2>1. putPc'[p] = putPc[p] /\ lost'[p] = lost[p]
    BY <1>1, <1>2, <1>3, Typed
  <2>2. ASSUME Undivided(p), putId[p] = putId[q] PROVE FALSE
    <3>1. Writing(q)
      BY <1>1 DEF Writing, Writers
    <3> QED
      BY <1>3, <2>2, <3>1 DEF PutPart, Undivided
  <2>3. putId[p] # putId[q] => payload'[putId[p]] = payload[putId[p]]
    BY <1>2, Typed
  <2> QED
    BY <2>1, <2>2, <2>3
<1>4. ASSUME NEW p \in Puts PROVE PutPart(p)'
  <2>1. CASE p = q
    <3>1. /\ ~lost[q] /\ putPc'[q] \in {"returned", "failed"}
          /\ putPc'[q] = "returned" => putOff[q] = Size[q]
      BY <1>1, Typed DEF PutPart
    <3>2. ~lost'[q] => UNCHANGED payload
      BY <1>2, Typed
    <3>3. ~Writing(q)'
      BY <1>1, <3>1 DEF Writing, Writers
    <3>4. Undivided(q)' /\ ~lost'[q] => payload'[putId'[q]] = Prefix(q, putOff'[q])
      BY <1>1, <3>1, <3>2 DEF PutPart, Undivided
    <3> QED
      BY <1>1, <2>1, <3>1, <3>3, <3>4 DEF PutPart
  <2>2. CASE p # q
    <3>1. (Writing(p)' <=> Writing(p)) /\ (Undivided(p)' <=> Undivided(p))
      BY <1>1, <1>3, <2>2 DEF Writing, Writers, Undivided
    <3> QED
      BY <1>1, <1>3, <2>2, <3>1 DEF PutPart
  <2> QED
    BY <2>1, <2>2
<1>5. ASSUME NEW p \in Puts PROVE MetaPart(p)'
  <2>1. PutOnce(p)' => PutOnce(p)
    <3>1. putPc'[q] # "idle"
      BY <1>1, Typed
    <3> QED
      BY <1>1, <1>3, <3>1 DEF PutOnce
  <2>2. putPc'[p] \in {"idle", "create", "copy"} => putPc[p] = putPc'[p]
    BY <1>1, Typed
  <2> QED
    BY <1>1, <2>1, <2>2 DEF MetaPart
<1>6. ASSUME NEW g \in Gets PROVE GetPart(g)'
  <2>1. getRef[g] \in Puts /\ putPc[getRef[g]] = "returned" => getRef[g] # q
    BY <1>1
  <2> QED
    BY <1>1, <1>3, <2>1 DEF GetPart, getVars, Undivided
<1> QED
  BY <1>4, <1>5, <1>6

(* Gets leave the files alone.                                             *)
LEMMA OpenKeeps ==
  ASSUME TypeOK, NEW h \in Gets, Open(h), \A g \in Gets : GetPart(g)
  PROVE  \A g \in Gets : GetPart(g)'
<1>1. /\ UNCHANGED <<files, putVars, getOff, got, history>> /\ getPc[h] = "idle"
      /\ \E p \in Puts : /\ putPc[p] = "returned" /\ getRef' = [getRef EXCEPT ![h] = p]
                        /\ \/ getPc' = [getPc EXCEPT ![h] = "reading"]
                           \/ getPc' = [getPc EXCEPT ![h] = "failed"]
  BY DEF Open
<1>2. ASSUME NEW g \in Gets PROVE GetPart(g)'
  <2>1. getRef \in [Gets -> Puts \cup {NoPut}] /\ getPc \in [Gets -> GetPcs]
    BY DEF TypeOK, GetPcs
  <2>2. CASE g = h
    <3>1. getOff'[h] = 0 /\ got'[h] = <<>>
      BY <1>1 DEF GetPart
    <3>2. getRef'[h] \in Puts /\ putPc'[getRef'[h]] = "returned" /\ getPc'[h] \in {"reading", "failed"}
      BY <1>1, <2>1 DEF putVars
    <3>3. Prefix(getRef'[h], 0) = <<>> /\ 0 <= Size[getRef'[h]]
      BY <3>2 DEF Prefix
    <3> QED
      BY <2>2, <3>1, <3>2, <3>3 DEF GetPart
  <2>3. CASE g # h
    <3>1. getRef'[g] = getRef[g] /\ getPc'[g] = getPc[g]
      BY <1>1, <2>1, <2>3
    <3> QED
      BY <1>1, <3>1 DEF GetPart, files, putVars, history, Undivided
  <2> QED
    BY <2>2, <2>3
<1> QED
  BY <1>2

(* A read appends the next block of the file to what was read before it.   *)
LEMMA ReadKeeps ==
  ASSUME TypeOK, NEW h \in Gets, Read(h), \A p \in Puts : PutPart(p),
         \A g \in Gets : GetPart(g)
  PROVE  \A g \in Gets : GetPart(g)'
<1> DEFINE p == getRef[h]
<1>1. UNCHANGED <<files, putVars, getRef, history>> /\ getPc[h] = "reading" /\ p \in Puts
      /\ putPc[p] = "returned"
  BY DEF Read, GetPart
<1>2. \/ /\ getOff[h] < Len(payload[putId[p]]) /\ UNCHANGED getPc
         /\ got' = [got EXCEPT ![h] = Append(@, payload[putId[p]][getOff[h] + 1])]
         /\ getOff' = [getOff EXCEPT ![h] = @ + 1]
      \/ /\ ~(getOff[h] < Len(payload[putId[p]])) /\ UNCHANGED <<got, getOff>>
         /\ getPc' = [getPc EXCEPT ![h] = "done"]
  BY DEF Read
<1>3. getPc \in [Gets -> GetPcs] /\ getOff \in [Gets -> Nat] /\ got \in [Gets -> Seq(Block)]
  BY DEF TypeOK, GetPcs, Block
<1>4. ASSUME NEW g \in Gets, g # h PROVE GetPart(g)'
  <2>1. getPc'[g] = getPc[g] /\ getOff'[g] = getOff[g] /\ got'[g] = got[g]
    BY <1>2, <1>3, <1>4
  <2> QED
    BY <1>1, <2>1 DEF GetPart, files, putVars, history, Undivided
<1>5. GetPart(h)'
  <2>1. SUFFICES ASSUME Undivided(p), ~lost[p]
                 PROVE  /\ getOff'[h] <= Size[p] /\ got'[h] = Prefix(p, getOff'[h])
                        /\ getPc'[h] = "done" => getOff'[h] = Size[p]
    BY <1>1, <1>2, <1>3 DEF GetPart, files, putVars, history, Undivided
  <2>2. payload[putId[p]] = Prefix(p, Size[p]) /\ Size[p] \in Nat
    BY <1>1, <2>1 DEF PutPart
  <2>3. Len(payload[putId[p]]) = Size[p]
    BY <2>2 DEF Prefix
  <2>4. getOff[h] \in Nat /\ getOff[h] <= Size[p] /\ got[h] = Prefix(p, getOff[h])
    BY <1>1, <1>3, <2>1 DEF GetPart
  <2>5. CASE getOff[h] < Size[p]
    <3>1. payload[putId[p]][getOff[h] + 1] = p
      BY <2>2, <2>4, <2>5 DEF Prefix
    <3>2. getOff'[h] = getOff[h] + 1 /\ got'[h] = Append(got[h], p) /\ getPc'[h] = "reading"
      BY <1>1, <1>2, <1>3, <2>3, <2>5, <3>1
    <3>3. Append(Prefix(p, getOff[h]), p) = Prefix(p, getOff[h] + 1)
      BY <2>4 DEF Prefix
    <3> QED
      BY <2>2, <2>4, <2>5, <3>2, <3>3
  <2>6. CASE ~(getOff[h] < Size[p])
    BY <1>2, <2>2, <2>3, <2>4, <2>6
  <2> QED
    BY <2>5, <2>6
<1> QED
  BY <1>4, <1>5

(* A crash stops calls and touches no file.                                *)
LEMMA CrashKeeps ==
  ASSUME TypeOK, Crash, \A p \in Puts : PutPart(p) /\ MetaPart(p), \A g \in Gets : GetPart(g)
  PROVE  (\A p \in Puts : PutPart(p)' /\ MetaPart(p)') /\ (\A g \in Gets : GetPart(g)')
<1>1. UNCHANGED <<files, putId, putOff, getRef, getOff, got, history>>
  BY DEF Crash
<1>2. \A p \in Puts : putPc'[p] = putPc[p] \/ (putPc'[p] = "dead" /\ ~PutEnded(p))
  BY DEF Crash
<1>3. \A g \in Gets : getPc'[g] = getPc[g] \/ (getPc'[g] = "dead" /\ ~GetEnded(g))
  BY DEF Crash
<1>4. ASSUME NEW p \in Puts PROVE PutPart(p)' /\ MetaPart(p)'
  <2>1. (Writing(p)' => Writing(p)) /\ (Undivided(p)' <=> Undivided(p))
    BY <1>1, <1>2 DEF Writing, Writers, Undivided, history
  <2>2. PutOnce(p)' => PutOnce(p)
    BY <1>1, <1>2 DEF PutOnce, PutEnded
  <2>3. putPc[p] \in {"returned", "failed"} => putPc'[p] = putPc[p]
    BY <1>2 DEF PutEnded
  <2>4. PutPart(p)'
    BY <1>1, <1>2, <2>1, <2>3 DEF PutPart, files, history
  <2>5. MetaPart(p)'
    BY <1>1, <1>2, <2>2 DEF MetaPart, files, history
  <2> QED
    BY <2>4, <2>5
<1>5. ASSUME NEW g \in Gets PROVE GetPart(g)'
  <2>1. \A p \in Puts : putPc[p] = "returned" => putPc'[p] = "returned"
    BY <1>2 DEF PutEnded
  <2> QED
    BY <1>1, <1>3, <2>1 DEF GetPart, GetEnded, files, history, Undivided
<1> QED
  BY <1>4, <1>5

-----------------------------------------------------------------------------
(* The theorems.                                                           *)

(* Nothing has been written yet.                                           *)
LEMMA InitStore == Init => StoreInv
<1> SUFFICES ASSUME Init PROVE StoreInv
  OBVIOUS
<1>1. \A p \in Puts : PutPart(p) /\ MetaPart(p)
  BY InitTypes DEF Init, TypeOK, PutPart, MetaPart, Undivided, Writing, Writers
<1>2. \A g \in Gets : GetPart(g)
  BY DEF Init, GetPart
<1> QED
  BY <1>1, <1>2, InitTypes DEF StoreInv

(* StoreInv is inductive: one case per operation, and the crash.           *)
LEMMA NextStore == StoreInv /\ [Next]_vars => StoreInv'
<1> SUFFICES ASSUME StoreInv, [Next]_vars PROVE StoreInv'
  OBVIOUS
<1> USE DEF StoreInv
<1>1. ASSUME NEW p \in Puts, Put(p) PROVE StoreInv'
  BY <1>1, PutTypes, CreateKeeps, CopyKeeps, MetaKeeps, CloseKeeps DEF Put
<1>2. ASSUME NEW g \in Gets, Get(g) PROVE StoreInv'
  <2>1. \A h \in Gets : GetPart(h)'
    BY <1>2, OpenKeeps, ReadKeeps DEF Get
  <2>2. UNCHANGED <<files, putVars, history>>
    BY <1>2 DEF Get, Open, Read
  <2>3. \A p \in Puts : PutPart(p)' /\ MetaPart(p)'
    BY <2>2 DEF PutPart, MetaPart, PutOnce, Undivided, Writing, Writers, files, putVars, history
  <2> QED
    BY <1>2, <2>1, <2>3, GetTypes
<1>3. CASE Crash
  BY <1>3, CrashTypes, CrashKeeps
<1>4. CASE UNCHANGED vars
  <2>1. TypeOK'
    BY <1>4 DEF vars, files, putVars, getVars, history, TypeOK
  <2>2. \A p \in Puts : PutPart(p)' /\ MetaPart(p)'
    BY <1>4 DEF vars, files, putVars, history, PutPart, MetaPart, PutOnce, Undivided, Writing, Writers
  <2>3. \A g \in Gets : GetPart(g)'
    BY <1>4 DEF vars, files, putVars, getVars, history, GetPart, Undivided
  <2> QED
    BY <2>1, <2>2, <2>3
<1> QED
  BY <1>1, <1>2, <1>3, <1>4 DEF Next

(* An undivided file is a prefix of its owner's content, whole once the    *)
(* copy is over, and a Get has read a prefix of it.                        *)
THEOREM StoreInvariance == Spec => []StoreInv
  BY InitStore, NextStore, PTL DEF Spec

(* Files, offsets and references stay what they are, whatever fails.       *)
THEOREM StoreTypes == Spec => []TypeOK
<1>1. StoreInv => TypeOK
  BY DEF StoreInv
<1> QED
  BY <1>1, StoreInvariance, PTL

(* What Put took is what Get gives back, unless Puts of one id overlapped, *)
(* a later one replaced the content, or the close lost data.               *)
THEOREM WhatIsPutIsRead == Spec => []ReadsWhatWasPut
<1>1. StoreInv => ReadsWhatWasPut
  BY DEF StoreInv, GetPart, ReadsWhatWasPut, Prefix, Content
<1> QED
  BY <1>1, StoreInvariance, PTL

(* Metadata stands beside a whole payload only, for an id put once.        *)
THEOREM MetadataIsHonest == Spec => []MetadataMarksComplete
<1>1. StoreInv => MetadataMarksComplete
  BY DEF StoreInv, PutPart, MetaPart, PutOnce, Undivided, MetadataMarksComplete, Prefix, Content
<1> QED
  BY <1>1, StoreInvariance, PTL
=============================================================================
