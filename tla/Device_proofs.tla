---------------------------- MODULE Device_proofs ----------------------------
(***************************************************************************)
(* For any phones, payloads, networks, hubs and number of mishaps: a phone *)
(* that was told "ok" can rely on a record a boot accepts; what is stored  *)
(* is one payload unless it was overwritten while it was copied; and a     *)
(* network is held only if a hub was reached on it.                        *)
(***************************************************************************)
EXTENDS Device, Induction

USE ProvisioningAssumption

\* What is stored was validated before it was written.
StoredValid == blob # <<>> => Validates(blob)
\* The flag is written behind the payload.
FlagBehind == main = "flagging" => blob # <<>>

\* The buffer holds payload p, or a commit is writing it there.
Coming(p) ==
  IF handing = 0 THEN IsWhole(payload, payloadLen, p)
  ELSE /\ IsWhole(reasm, expected, p) /\ payloadLen = expected /\ handing <= expected + 1
       /\ \A i \in 1..(handing - 1) : payload[i] = p

\* What was handed over is one payload, and nothing is taken before that.
HandedOver ==
  /\ payloadLen # 0 => \E p \in Payloads : Coming(p)
  /\ given \/ main = "taken" \/ handing # 0 => payloadLen # 0

\* What has been copied is the beginning of one payload; while there is more to
\* copy that payload still lies in the buffer, or comes there: a part that is
\* copied while it does counts as raced.
CopiedWhole ==
  main = "copying" /\ ~raced =>
    \E p \in Payloads :
      /\ copyLen = Size[p]
      /\ \A i \in 1..Len(copied) : copied[i] = p
      /\ Len(copied) < copyLen => Coming(p)

ProvisioningInv ==
  /\ ProvisioningTypeOK /\ StoredValid /\ FlagBehind /\ HandedOver /\ CopiedWhole
  /\ AckedIsStored /\ WholeUnlessRaced

(* Types of the buffers. *)
LEMMA BufferTypes ==
  /\ Empty \in [Parts -> Content]
  /\ 0 \in 0..MaxParts /\ 0 \in 0..(MaxParts + 1) /\ Parts \subseteq 0..MaxParts
  /\ \A p \in Payloads : Size[p] \in Parts
  /\ <<>> \in Seq(Content) /\ Len(<<>>) = 0
BY DEF Empty, Parts, Content

(* A valid buffer is not empty. *)
LEMMA ValidNotEmpty ==
  ASSUME NEW b \in Seq(Content), Validates(b)
  PROVE  b # <<>> /\ 1 \in 1..Len(b)
BY BufferTypes DEF Validates, Parts

(* Nothing is stored, handed over or acknowledged in the beginning. *)
LEMMA ProvisioningInitial == ProvisioningInit => ProvisioningInv
<1> SUFFICES ASSUME ProvisioningInit PROVE ProvisioningInv
  OBVIOUS
<1>1. blob \in Seq(Content) /\ copied \in Seq(Content) /\ Len(copied) <= copyLen
  BY BufferTypes DEF ProvisioningInit
<1>2. reasm \in [Parts -> Content] /\ payload \in [Parts -> Content]
  BY BufferTypes DEF ProvisioningInit
<1>3. mishaps \in 0..MaxMishaps /\ central \in Centrals \cup {NoOne}
  BY DEF ProvisioningInit
<1>4. ProvisioningTypeOK
  BY <1>1, <1>2, <1>3, BufferTypes DEF ProvisioningInit, ProvisioningTypeOK, Bluetooth
<1> QED
  BY <1>4 DEF ProvisioningInit, ProvisioningInv, StoredValid, FlagBehind, HandedOver,
         CopiedWhole,
    AckedIsStored, WholeUnlessRaced

----------------------------------------------------------------------------
(* Steps: what each leaves alone, and what it disturbs.                    *)

\* A step that neither stores, hands over, nor copies.
Elsewhere ==
  /\ UNCHANGED <<blob, payload, payloadLen, given, handing, copied, copyLen, acked, raced,
                 provisioned>>
  /\ handing # 0 => UNCHANGED <<reasm, expected>>
  /\ main' = main \/ main' \notin {"flagging", "taken", "copying"}

LEMMA ElsewhereKeeps ==
  ASSUME ProvisioningInv, ProvisioningTypeOK', Elsewhere
  PROVE  ProvisioningInv'
<1>1. StoredValid' /\ AckedIsStored' /\ WholeUnlessRaced'
  BY DEF ProvisioningInv, Elsewhere, StoredValid, AckedIsStored, WholeUnlessRaced, Recorded,
         Validates, IsWhole
<1>2. FlagBehind' /\ HandedOver' /\ CopiedWhole'
  <2>1. ASSUME NEW p \in Payloads, Coming(p) PROVE Coming(p)'
    BY <2>1 DEF Elsewhere, Coming, IsWhole
  <2> QED BY <2>1 DEF ProvisioningInv, Elsewhere, FlagBehind, HandedOver, CopiedWhole
<1> QED BY <1>1, <1>2 DEF ProvisioningInv

\* A step that clears the memory.
LEMMA ClearedKeeps ==
  ASSUME ProvisioningInv, ProvisioningTypeOK', ClearMemory, main' = "off",
         UNCHANGED <<blob, acked, raced, provisioned>>
  PROVE  ProvisioningInv'
<1>1. StoredValid' /\ AckedIsStored' /\ WholeUnlessRaced'
  BY DEF ProvisioningInv, StoredValid, AckedIsStored, WholeUnlessRaced, Recorded, Validates,
         IsWhole
<1>2. FlagBehind' /\ HandedOver' /\ CopiedWhole'
  BY DEF ClearMemory, FlagBehind, HandedOver, CopiedWhole
<1> QED BY <1>1, <1>2 DEF ProvisioningInv

(* Booting. *)
LEMMA BootKeeps ==
  ASSUME ProvisioningInv, NEW held \in BOOLEAN, NEW readable \in BOOLEAN, NEW starts \in BOOLEAN,
         Boot(held, readable, starts)
  PROVE  ProvisioningInv'
<1>1. Resolved(held, readable) \in {"none", "baked", "record"}
  BY DEF Resolved
<1>2. mishaps' \in 0..MaxMishaps
  BY DEF Boot, Mishap, ProvisioningInv, ProvisioningTypeOK
<1>3. ProvisioningTypeOK'
  BY <1>1, <1>2 DEF Boot, ProvisioningInv, ProvisioningTypeOK, Bluetooth, nvs, assembly,
         handOver, copy
<1>4. Elsewhere
  BY DEF Boot, Elsewhere, nvs, assembly, handOver, copy
<1> QED BY <1>3, <1>4, ElsewhereKeeps

(* A power cut, or the restart at the end. *)
LEMMA ResetKeeps == ASSUME ProvisioningInv, PowerCut \/ Leave PROVE ProvisioningInv'
<1>1. ClearMemory /\ main' = "off" /\ UNCHANGED <<baked, blob, acked, raced, provisioned>>
  BY DEF PowerCut, Leave, nvs
<1>2. mishaps' \in 0..MaxMishaps
  BY DEF PowerCut, Leave, Mishap, ProvisioningInv, ProvisioningTypeOK
<1>3. copied' \in Seq(Content) /\ Len(copied') <= copyLen'
  BY <1>1, BufferTypes DEF ClearMemory
<1>4. ProvisioningTypeOK'
  BY <1>1, <1>2, <1>3, BufferTypes DEF ClearMemory, ProvisioningInv, ProvisioningTypeOK
<1> QED BY <1>1, <1>4, ClearedKeeps

(* Connecting and disconnecting. *)
LEMMA LinkKeeps ==
  ASSUME ProvisioningInv, Disconnected \/ \E c \in Centrals : Connected(c)
  PROVE  ProvisioningInv'
<1>1. ProvisioningTypeOK'
  <2>1. CASE Disconnected
    BY <2>1, BufferTypes DEF Disconnected, ResetReasm, ProvisioningInv, ProvisioningTypeOK, nvs,
           handOver, copy
  <2>2. CASE \E c \in Centrals : Connected(c)
    BY <2>2 DEF Connected, ProvisioningInv, ProvisioningTypeOK, nvs, assembly, handOver, copy
  <2> QED BY <2>1, <2>2
<1>2. Elsewhere
  BY DEF Disconnected, Connected, AtRest, Elsewhere, nvs, handOver, copy
<1> QED BY <1>1, <1>2, ElsewhereKeeps

(* Frames that begin or fill a payload. *)
LEMMA FrameKeeps ==
  ASSUME ProvisioningInv, NEW c \in Centrals,
         (\E n \in 0..(MaxParts + 1) : Begin(c, n))
           \/ \E p \in Payloads : \E i \in 1..Size[p] : Chunk(c, i, p)
  PROVE  ProvisioningInv'
<1>1. CASE \E n \in 0..(MaxParts + 1) : Begin(c, n)
  <2>1. ProvisioningTypeOK'
    BY <1>1, BufferTypes DEF Begin, Writes, ResetReasm, ProvisioningInv, ProvisioningTypeOK,
           Parts, nvs, handOver, copy
  <2>2. Elsewhere
    BY <1>1 DEF Begin, Writes, AtRest, Elsewhere, nvs, handOver, copy
  <2> QED BY <2>1, <2>2, ElsewhereKeeps
<1>2. CASE \E p \in Payloads : \E i \in 1..Size[p] : Chunk(c, i, p)
  <2>1. PICK p \in Payloads : \E i \in 1..Size[p] : Chunk(c, i, p)
    BY <1>2
  <2>2. PICK i \in 1..Size[p] : Chunk(c, i, p)
    BY <2>1
  <2>3. i \in Parts /\ p \in Content
    BY BufferTypes DEF Parts, Content
  <2>4. reasm' \in [Parts -> Content] /\ highWater' \in 0..MaxParts
    BY <2>2, <2>3, BufferTypes DEF Chunk, ProvisioningInv, ProvisioningTypeOK
  <2>5. ProvisioningTypeOK'
    BY <2>2, <2>4 DEF Chunk, Writes, ProvisioningInv, ProvisioningTypeOK, nvs, handOver, copy
  <2>6. Elsewhere
    BY <2>2 DEF Chunk, Writes, AtRest, Elsewhere, nvs, handOver, copy
  <2> QED BY <2>5, <2>6, ElsewhereKeeps
<1> QED BY <1>1, <1>2

(* A step that keeps what is coming, and copies and stores nothing. *)
LEMMA HandedOn ==
  ASSUME ProvisioningInv, ProvisioningTypeOK', payloadLen # 0,
         UNCHANGED <<blob, provisioned, main, payloadLen, copied, copyLen, acked, raced>>,
         \A p \in Payloads : Coming(p) => Coming(p)'
  PROVE  ProvisioningInv'
<1>1. StoredValid' /\ FlagBehind' /\ AckedIsStored' /\ WholeUnlessRaced'
  BY DEF ProvisioningInv, StoredValid, FlagBehind, AckedIsStored, WholeUnlessRaced, Recorded,
         Validates, IsWhole
<1>2. HandedOver' /\ CopiedWhole'
  BY DEF ProvisioningInv, HandedOver, CopiedWhole
<1> QED BY <1>1, <1>2 DEF ProvisioningInv

(* A commit announces one payload, or nothing.  One that arrives while the *)
(* buffer is being copied is a race.                                        *)
LEMMA CommitKeeps ==
  ASSUME ProvisioningInv, NEW c \in Centrals, NEW p \in Payloads, Commit(c, p)
  PROVE  ProvisioningInv'
<1>1. UNCHANGED <<baked, blob, provisioned, main, running, central, copied, copyLen, mishaps,
                  acked>>
      /\ handing = 0
  BY DEF Commit, Writes, AtRest, nvs, copy
<1>2. CASE UNCHANGED <<handOver, raced>> /\ ResetReasm
  <2>1. ProvisioningTypeOK'
    BY <1>1, <1>2, BufferTypes DEF ResetReasm, ProvisioningInv, ProvisioningTypeOK,
           handOver
  <2>2. Elsewhere
    BY <1>1, <1>2 DEF Elsewhere, handOver
  <2> QED BY <2>1, <2>2, ElsewhereKeeps
<1>3. CASE ~(UNCHANGED <<handOver, raced>> /\ ResetReasm)
  <2>1. /\ IsWhole(reasm, expected, p)
        /\ payloadLen' = expected /\ handing' = 1
        /\ raced' = (raced \/ (main = "copying" /\ Len(copied) < copyLen))
        /\ UNCHANGED <<assembly, payload, given>>
    BY <1>3 DEF Commit, ChecksumMatches
  <2>2. raced' \in BOOLEAN /\ handing' \in 0..(MaxParts + 1)
    BY <2>1 DEF ProvisioningInv, ProvisioningTypeOK
  <2>3. ProvisioningTypeOK'
    BY <1>1, <2>1, <2>2 DEF ProvisioningInv, ProvisioningTypeOK, assembly
  <2>4. expected # 0 /\ expected \in Nat
    BY <2>1, BufferTypes DEF IsWhole, Parts
  <2>5. Coming(p)'
    BY <2>1, <2>4 DEF Coming, IsWhole, assembly
  <2>6. HandedOver'
    BY <2>1, <2>4, <2>5 DEF HandedOver
  <2>7. CopiedWhole'
    BY <1>1, <2>1 DEF ProvisioningInv, ProvisioningTypeOK, CopiedWhole
  <2>8. StoredValid' /\ FlagBehind' /\ AckedIsStored' /\ WholeUnlessRaced'
    BY <1>1, <2>1 DEF ProvisioningInv, StoredValid, FlagBehind, AckedIsStored,
           WholeUnlessRaced, Recorded, Validates, IsWhole
  <2> QED BY <2>3, <2>6, <2>7, <2>8 DEF ProvisioningInv
<1> QED BY <1>2, <1>3

(* The parts of it follow, and then the semaphore: the same payload is coming, *)
(* and in the end it is there.                                                 *)
LEMMA HandKeeps == ASSUME ProvisioningInv, HandPart \/ Give PROVE ProvisioningInv'
<1>1. UNCHANGED <<baked, blob, provisioned, main, running, central, payloadLen, copied,
                  copyLen, acked, raced, mishaps>>
      /\ handing # 0 /\ payloadLen # 0
  BY DEF HandPart, Give, nvs, copy, ProvisioningInv, ProvisioningTypeOK, HandedOver
<1>2. /\ expected \in 0..MaxParts /\ handing \in 0..(MaxParts + 1)
      /\ reasm \in [Parts -> Content] /\ payload \in [Parts -> Content]
  BY DEF ProvisioningInv, ProvisioningTypeOK
<1>3. CASE HandPart
  <2>1. handing \in Parts /\ payload' = [payload EXCEPT ![handing] = reasm[handing]]
        /\ handing' = handing + 1 /\ handing <= expected
        /\ UNCHANGED <<reasm, expected, highWater, inProgress, given>>
    BY <1>2, <1>3 DEF HandPart, Parts, assembly
  <2>2. payload' \in [Parts -> Content] /\ handing' \in 0..(MaxParts + 1)
    BY <1>2, <2>1 DEF Parts
  <2>3. ProvisioningTypeOK'
    BY <1>1, <2>1, <2>2 DEF ProvisioningInv, ProvisioningTypeOK
  <2>4. ASSUME NEW p \in Payloads, Coming(p) PROVE Coming(p)'
    <3>1. IsWhole(reasm, expected, p) /\ payloadLen = expected
          /\ \A i \in 1..(handing - 1) : payload[i] = p
      BY <1>1, <2>4 DEF Coming
    <3>2. reasm[handing] = p
      BY <2>1, <3>1 DEF IsWhole, Parts
    <3>3. \A i \in 1..(handing' - 1) : payload'[i] = p
      BY <1>2, <2>1, <3>1, <3>2 DEF Parts
    <3>4. handing' # 0 /\ handing' <= expected + 1
      BY <1>2, <2>1
    <3>5. expected' = Size[p] /\ \A i \in 1..expected' : reasm'[i] = p
      BY <2>1, <3>1 DEF IsWhole
    <3>6. payloadLen' = expected' /\ handing' <= expected' + 1
      BY <1>1, <2>1, <3>1, <3>4
    <3> QED BY <3>3, <3>4, <3>5, <3>6 DEF Coming, IsWhole
  <2> QED BY <1>1, <2>1, <2>3, <2>4, HandedOn
<1>4. CASE Give
  <2>1. handing > expected /\ ResetReasm /\ given' = TRUE /\ handing' = 0 /\ payload' = payload
    BY <1>4 DEF Give
  <2>2. ProvisioningTypeOK'
    BY <1>1, <2>1, BufferTypes DEF ResetReasm, ProvisioningInv, ProvisioningTypeOK
  <2>3. ASSUME NEW p \in Payloads, Coming(p) PROVE Coming(p)'
    <3>1. expected = Size[p] /\ payloadLen = expected
          /\ \A i \in 1..(handing - 1) : payload[i] = p
      BY <1>1, <2>3 DEF Coming, IsWhole
    <3>2. IsWhole(payload, payloadLen, p)
      BY <1>2, <2>1, <3>1 DEF IsWhole
    <3> QED BY <1>1, <2>1, <3>2 DEF Coming, IsWhole
  <2> QED BY <1>1, <2>1, <2>2, <2>3, HandedOn
<1> QED BY <1>3, <1>4

----------------------------------------------------------------------------
(* The main thread.                                                        *)

(* Taking the semaphore and reading the length. *)
LEMMA TakeKeeps == ASSUME ProvisioningInv, TakePayload \/ ReadLength PROVE ProvisioningInv'
<1>1. UNCHANGED <<blob, provisioned, payload, payloadLen, handing, reasm, expected, acked,
                  raced>>
  BY DEF TakePayload, ReadLength, nvs, assembly, handOver
<1>2. payloadLen # 0
  BY DEF TakePayload, ReadLength, ProvisioningInv, HandedOver
<1>3. ProvisioningTypeOK'
  <2>1. CASE TakePayload
    BY <2>1 DEF TakePayload, ProvisioningInv, ProvisioningTypeOK, Bluetooth, nvs, assembly, copy
  <2>2. CASE ReadLength
    <3>1. copied' \in Seq(Content) /\ copyLen' \in 0..MaxParts /\ Len(copied') <= copyLen'
      BY <2>2, BufferTypes DEF ReadLength, ProvisioningInv, ProvisioningTypeOK
    <3> QED
      BY <2>2, <3>1 DEF ReadLength, ProvisioningInv, ProvisioningTypeOK, Bluetooth, nvs,
             assembly, handOver
  <2> QED BY <2>1, <2>2
<1>4. \A p \in Payloads : Coming(p) <=> Coming(p)'
  BY <1>1 DEF Coming, IsWhole
<1>5. HandedOver' /\ CopiedWhole'
  <2>1. HandedOver'
    BY <1>1, <1>2, <1>4 DEF ProvisioningInv, HandedOver
  <2>2. PICK p \in Payloads : Coming(p)
    BY <1>2 DEF ProvisioningInv, HandedOver
  <2>3. payloadLen = Size[p]
    BY <2>2 DEF Coming, IsWhole
  <2>4. \/ main' = "taken"
        \/ main' = "copying" /\ copied' = <<>> /\ copyLen' = payloadLen
    BY DEF TakePayload, ReadLength
  <2>5. CopiedWhole'
    BY <1>4, <2>2, <2>3, <2>4 DEF CopiedWhole
  <2> QED BY <2>1, <2>5
<1>6. StoredValid' /\ FlagBehind' /\ AckedIsStored' /\ WholeUnlessRaced'
  BY <1>1 DEF TakePayload, ReadLength, ProvisioningInv, StoredValid, FlagBehind, AckedIsStored,
         WholeUnlessRaced,
    Recorded, Validates, IsWhole
<1> QED BY <1>3, <1>5, <1>6 DEF ProvisioningInv

(* Copying a part. *)
LEMMA CopyKeeps == ASSUME ProvisioningInv, CopyPart PROVE ProvisioningInv'
<1>1. UNCHANGED <<blob, provisioned, main, reasm, expected, payload, payloadLen, given, handing,
                  copyLen, acked>>
      /\ raced' = (raced \/ handing # 0)
  BY DEF CopyPart, nvs, assembly, handOver
<1>2. /\ copied \in Seq(Content) /\ copyLen \in 0..MaxParts /\ Len(copied) < copyLen
      /\ payload \in [Parts -> Content]
  BY DEF CopyPart, ProvisioningInv, ProvisioningTypeOK
<1>3. Len(copied) + 1 \in Parts /\ copied' = Append(copied, payload[Len(copied) + 1])
  BY <1>2 DEF CopyPart, Parts
<1>4. /\ copied' \in Seq(Content) /\ Len(copied') = Len(copied) + 1
      /\ \A i \in 1..Len(copied) : copied'[i] = copied[i]
      /\ copied'[Len(copied) + 1] = payload[Len(copied) + 1]
  BY <1>2, <1>3
<1>5. ProvisioningTypeOK'
  <2>1. raced' \in BOOLEAN
    BY <1>1 DEF ProvisioningInv, ProvisioningTypeOK
  <2> QED BY <1>1, <1>2, <1>4, <2>1 DEF CopyPart, ProvisioningInv, ProvisioningTypeOK, assembly
<1>6. CopiedWhole'
  <2> SUFFICES ASSUME ~raced, handing = 0 PROVE CopiedWhole'
    BY <1>1 DEF CopiedWhole
  <2>1. PICK p \in Payloads :
          /\ copyLen = Size[p]
          /\ \A i \in 1..Len(copied) : copied[i] = p
          /\ IsWhole(payload, payloadLen, p)
    BY <1>2 DEF CopyPart, ProvisioningInv, CopiedWhole, Coming
  <2>2. payload[Len(copied) + 1] = p
    BY <2>1, <1>2, <1>3 DEF IsWhole, Parts
  <2>3. \A i \in 1..Len(copied') : copied'[i] = p
    BY <2>1, <2>2, <1>2, <1>4
  <2>4. Coming(p)'
    BY <2>1, <1>1 DEF Coming, IsWhole
  <2> QED BY <2>1, <2>3, <2>4, <1>1 DEF CopiedWhole
<1>7. StoredValid' /\ FlagBehind' /\ AckedIsStored' /\ WholeUnlessRaced'
  BY <1>1 DEF ProvisioningInv, StoredValid, FlagBehind, AckedIsStored, WholeUnlessRaced,
         Recorded, Validates, IsWhole
<1>8. HandedOver'
  <2>1. \A p \in Payloads : Coming(p) => Coming(p)'
    BY <1>1 DEF Coming, IsWhole
  <2> QED BY <1>1, <2>1 DEF ProvisioningInv, HandedOver
<1> QED BY <1>5, <1>6, <1>7, <1>8 DEF ProvisioningInv

(* Writing the payload: it is valid, and one payload unless it was raced. *)
LEMMA BlobKeeps == ASSUME ProvisioningInv, StoreBlob PROVE ProvisioningInv'
<1>1. /\ UNCHANGED <<baked, provisioned, running, central, payload, payloadLen, given, handing,
                     acked, raced>>
      /\ UNCHANGED <<reasm, expected, highWater, inProgress>>
      /\ copied' = <<>> /\ copyLen' = 0 /\ main' \in {"waiting", "flagging"}
      /\ mishaps' \in 0..MaxMishaps
      /\ copied \in Seq(Content)
  BY DEF StoreBlob, ForgetCopy, assembly, handOver, Mishap, ProvisioningInv, ProvisioningTypeOK
<1>2. \/ blob' = blob /\ main' = "waiting"
      \/ blob' = copied /\ Validates(copied)
  BY DEF StoreBlob
<1>3. blob' \in Seq(Content)
  BY <1>1, <1>2 DEF ProvisioningInv, ProvisioningTypeOK
<1>4. ProvisioningTypeOK'
  BY <1>1, <1>3 DEF StoreBlob, ProvisioningInv, ProvisioningTypeOK, Bluetooth
<1>5. HandedOver' /\ CopiedWhole'
  <2>1. \A p \in Payloads : Coming(p) => Coming(p)'
    BY <1>1 DEF Coming, IsWhole
  <2> QED BY <1>1, <2>1 DEF ProvisioningInv, HandedOver, CopiedWhole
<1>6. CASE blob' = blob /\ main' = "waiting"
  BY <1>1, <1>4, <1>5, <1>6 DEF ProvisioningInv, StoredValid, FlagBehind, AckedIsStored,
         WholeUnlessRaced,
    Recorded, Validates, IsWhole
<1>7. CASE blob' = copied /\ Validates(copied)
  <2>1. copied # <<>> /\ 1 \in 1..Len(copied)
    BY <1>1, <1>7, ValidNotEmpty
  <2>2. StoredValid' /\ FlagBehind' /\ AckedIsStored'
    BY <1>1, <1>7, <2>1 DEF ProvisioningInv, StoredValid, FlagBehind, AckedIsStored, Recorded,
           Validates
  <2>3. WholeUnlessRaced'
    <3> SUFFICES ASSUME ~raced PROVE \E p \in Good : IsWhole(blob', Len(blob'), p)
      BY <1>1 DEF WholeUnlessRaced
    <3>1. Len(copied) = copyLen /\ main = "copying"
      BY DEF StoreBlob
    <3>2. PICK p \in Payloads : copyLen = Size[p] /\ \A i \in 1..Len(copied) : copied[i] = p
      BY <3>1 DEF ProvisioningInv, CopiedWhole
    <3>3. p \in Good
      BY <3>2, <2>1, <1>7 DEF Validates
    <3> QED BY <1>7, <3>1, <3>2, <3>3 DEF IsWhole
  <2> QED BY <1>4, <1>5, <2>2, <2>3 DEF ProvisioningInv
<1> QED BY <1>2, <1>6, <1>7

(* Writing the flag, and only then telling the phone. *)
LEMMA FlagKeeps == ASSUME ProvisioningInv, StoreFlag PROVE ProvisioningInv'
<1>1. /\ UNCHANGED <<baked, blob, running, central, payload, payloadLen, given, handing, copied,
                     copyLen, raced>>
      /\ UNCHANGED <<reasm, expected, highWater, inProgress>>
      /\ main' \in {"waiting", "leaving"} /\ mishaps' \in 0..MaxMishaps
  BY DEF StoreFlag, assembly, handOver, copy, Mishap, ProvisioningInv, ProvisioningTypeOK
<1>2. \/ provisioned' = TRUE
      \/ UNCHANGED <<provisioned, acked>>
  BY DEF StoreFlag, FlagStored
<1>3. acked' \subseteq Centrals
  BY DEF StoreFlag, NotifyOk, ProvisioningInv, ProvisioningTypeOK
<1>4. ProvisioningTypeOK'
  BY <1>1, <1>2, <1>3 DEF StoreFlag, ProvisioningInv, ProvisioningTypeOK, Bluetooth
<1>5. blob # <<>> /\ Validates(blob)
  BY DEF StoreFlag, ProvisioningInv, FlagBehind, StoredValid
<1>6. AckedIsStored'
  BY <1>1, <1>2, <1>5 DEF ProvisioningInv, AckedIsStored, Recorded, Validates
<1>7. StoredValid' /\ FlagBehind' /\ WholeUnlessRaced'
  BY <1>1 DEF ProvisioningInv, StoredValid, FlagBehind, WholeUnlessRaced, Validates, IsWhole
<1>8. HandedOver' /\ CopiedWhole'
  <2>1. \A p \in Payloads : Coming(p) => Coming(p)'
    BY <1>1 DEF Coming, IsWhole
  <2> QED BY <1>1, <2>1 DEF ProvisioningInv, HandedOver, CopiedWhole
<1> QED BY <1>4, <1>6, <1>7, <1>8 DEF ProvisioningInv

----------------------------------------------------------------------------
(* Every step keeps the invariant. *)
LEMMA ProvisioningStep == ASSUME ProvisioningInv, [ProvisioningNext]_provisioningVars
                          PROVE  ProvisioningInv'
<1>1. CASE MainThread
  BY <1>1, TakeKeeps, CopyKeeps, BlobKeeps, FlagKeeps, ResetKeeps DEF MainThread
<1>2. CASE Boots
  BY <1>2, BootKeeps DEF Boots
<1>3. CASE PowerCut
  BY <1>3, ResetKeeps
<1>4. CASE HostTask
  <2>1. CASE Disconnected \/ \E c \in Centrals : Connected(c)
    BY <2>1, LinkKeeps
  <2>2. ASSUME NEW c \in Centrals, NEW n \in 0..(MaxParts + 1), Begin(c, n)
        PROVE  ProvisioningInv'
    BY <2>2, FrameKeeps
  <2>3. ASSUME NEW c \in Centrals, NEW p \in Payloads, \E i \in 1..Size[p] : Chunk(c, i, p)
        PROVE  ProvisioningInv'
    BY <2>3, FrameKeeps
  <2>4. ASSUME NEW c \in Centrals, NEW p \in Payloads, Commit(c, p) PROVE ProvisioningInv'
    BY <2>4, CommitKeeps
  <2>5. CASE HandPart \/ Give
    BY <2>5, HandKeeps
  <2> QED BY <1>4, <2>1, <2>2, <2>3, <2>4, <2>5 DEF HostTask
<1>5. CASE UNCHANGED provisioningVars
  <2>1. Elsewhere
    BY <1>5 DEF provisioningVars, Elsewhere
  <2>2. ProvisioningTypeOK'
    BY <1>5 DEF provisioningVars, ProvisioningInv, ProvisioningTypeOK
  <2> QED BY <2>1, <2>2, ElsewhereKeeps
<1> QED BY <1>1, <1>2, <1>3, <1>4, <1>5 DEF ProvisioningNext

(* The invariant holds throughout. *)
THEOREM ProvisioningInvariant == ProvisioningSpec => []ProvisioningInv
BY ProvisioningInitial, ProvisioningStep, PTL DEF ProvisioningSpec

(***************************************************************************)
(* The board as a whole.  Its provisioning side is Provisioning, so what   *)
(* was proved above holds of it.                                           *)
(***************************************************************************)

\* While a network is held, and while the flag is set in the grace period, the
\* last connection was made on the network that is joined.
HubFound ==
  (sup = "hold" \/ (sup = "grace" /\ hubReachable)) /\ wifi # NoNet => foundOn = wifi

(* A step of the supervisor: only EnterGrace begins a grace period, with    *)
(* the flag reset, and only the flag ends it with a hold.                   *)
LEMMA SupervisorKeeps == ASSUME HubFound, SupervisorStep PROVE HubFound'
<1>1. CASE Scan \/ Join \/ SupervisorEnds \/ NoneJoined
  <2>1. sup' \notin {"hold", "grace"}
    BY <1>1 DEF Scan, Join, Joined, SupervisorEnds, NoneJoined
  <2> QED BY <2>1 DEF HubFound
<1>2. CASE EnterGrace
  BY <1>2 DEF EnterGrace, ResetFlag, HubFound
<1>3. CASE SeesHub
  BY <1>3 DEF SeesHub, leafThread, HubFound
<1>4. CASE GiveUp \/ LeaveNetwork \/ NoticesDrop
  BY <1>4 DEF GiveUp, LeaveNetwork, NoticesDrop, HubFound
<1> QED BY <1>1, <1>2, <1>3, <1>4 DEF SupervisorStep

(* A connection is found on the network that is joined when it is made. *)
LEMMA LeafKeeps == ASSUME HubFound, NEW a \in Addrs, Dial(a) \/ ConnectionEnds(a)
                   PROVE  HubFound'
BY DEF Dial, ConnectionEnds, HubFound

(* Access points may be lost, but none is joined behind the supervisor. *)
LEMMA EnvironmentKeeps == ASSUME HubFound, Environment PROVE HubFound'
<1>1. UNCHANGED <<sup, leafThread>> /\ wifi' \in {wifi, NoNet}
  BY DEF Environment, AirChanges, HubMoves, SignalChanges, WifiDrops
<1> QED BY <1>1 DEF leafThread, HubFound

(* No step of the board breaks HubFound; power takes everything with it. *)
LEMMA DeviceKeeps == ASSUME HubFound, [DeviceNext]_deviceVars PROVE HubFound'
<1>1. CASE PowerOn
  <2>1. CASE main' = "normal"
    BY <1>1, <2>1 DEF PowerOn, StartNormal, leafThread, HubFound
  <2>2. CASE main' # "normal"
    BY <1>1, <2>2 DEF PowerOn, supervisorVars, HubFound
  <2> QED BY <2>1, <2>2
<1>2. CASE PowerOff
  BY <1>2 DEF PowerOff, HubFound
<1>3. CASE Provisions
  BY <1>3 DEF Provisions, supervisorVars, HubFound
<1>4. CASE Supervises
  BY <1>4, SupervisorKeeps DEF Supervises
<1>5. CASE Surroundings
  BY <1>5, EnvironmentKeeps DEF Surroundings
<1>6. CASE \E a \in Addrs : Dials(a) \/ Loses(a)
  BY <1>6, LeafKeeps DEF Dials, Loses
<1>7. CASE UNCHANGED deviceVars
  BY <1>7 DEF deviceVars, supervisorVars, HubFound
<1> QED BY <1>1, <1>2, <1>3, <1>4, <1>5, <1>6, <1>7 DEF DeviceNext

(* A network is held only if a hub was reached on that very network, for   *)
(* any networks and hubs and however the radio behaves (main.rs 240-243,   *)
(* 286-325 and 536).                                                       *)
THEOREM HoldsWhatItFound == DeviceSpec => []HoldEarned
<1>1. DeviceInit => HubFound
  BY DEF DeviceInit, NotStarted, HubFound
<1>2. HubFound /\ [DeviceNext]_deviceVars => HubFound'
  BY DeviceKeeps
<1>3. HubFound => HoldEarned
  BY DEF HubFound, HoldEarned
<1> QED BY <1>1, <1>2, <1>3, PTL DEF DeviceSpec

----------------------------------------------------------------------------
(* A step of the board is a step of its provisioning side, or leaves that alone. *)
LEMMA DeviceProvisions == ASSUME [DeviceNext]_deviceVars
                          PROVE  [ProvisioningNext]_provisioningVars
<1>1. CASE PowerOn \/ PowerOff \/ Provisions
  BY <1>1 DEF PowerOn, PowerOff, Provisions, ProvisioningNext, MainThread
<1>2. CASE Supervises \/ Surroundings \/ \E a \in Addrs : Dials(a) \/ Loses(a)
  BY <1>2 DEF Supervises, Surroundings, Dials, Loses
<1>3. CASE UNCHANGED deviceVars
  BY <1>3 DEF deviceVars
<1> QED BY <1>1, <1>2, <1>3 DEF DeviceNext

(* The board implements its provisioning side. *)
THEOREM ImplementsProvisioning == DeviceSpec => ProvisioningSpec
<1>1. DeviceInit => ProvisioningInit
  BY DEF DeviceInit
<1>2. [DeviceNext]_deviceVars => [ProvisioningNext]_provisioningVars
  BY DeviceProvisions
<1> QED BY <1>1, <1>2, PTL DEF DeviceSpec, ProvisioningSpec

(* A phone that was told "ok" can rely on it, whatever fails afterwards. *)
THEOREM Acknowledged == DeviceSpec => []AckedIsStored
<1>1. ProvisioningInv => AckedIsStored
  BY DEF ProvisioningInv
<1> QED BY <1>1, ImplementsProvisioning, ProvisioningInvariant, PTL

(* What is stored is one payload, unless it was overwritten while it was   *)
(* being copied.                                                           *)
THEOREM StoredWhole == DeviceSpec => []WholeUnlessRaced
<1>1. ProvisioningInv => WholeUnlessRaced
  BY DEF ProvisioningInv
<1> QED BY <1>1, ImplementsProvisioning, ProvisioningInvariant, PTL

----------------------------------------------------------------------------
(* Types.                                                                  *)

Air == [Nets -> {"off", "seen", "locked"}]

(* The orders of the networks; the configured one is one of them. *)
LEMMA OrderTypes ==
  /\ Len(Networks) \in Nat \ {0} /\ Orders \subseteq Seq(Nets) /\ Networks \in Orders
  /\ \A s \in Orders : Len(s) = Len(Networks)
<1>1. Networks \in Seq(Nets) /\ Networks # <<>> /\ IsInjective(Networks)
  BY SupervisorAssumption
<1>2. Len(Networks) \in Nat \ {0} /\ Networks \in [1..Len(Networks) -> Nets]
  BY <1>1
<1> QED BY <1>1, <1>2 DEF Orders

(* What a scan finds is a sequence of networks. *)
LEMMA ScanType == ASSUME SupervisorTypeOK PROVE InSight \in Seq(Nets)
<1> DEFINE n == Len(signal)
           Adds(k, s) == CASE k = 0 -> <<>>
                           [] k > 0 /\ air[signal[k]] = "off" -> s
                           [] OTHER -> Append(s, signal[k])
           F == [k \in 1..n |-> [s \in Seq(Nets) |-> Adds(k, s)]]
           Is(f) == f = [k \in 0..n |-> Adds(k, f[k - 1])]
<1>1. n \in Nat /\ <<>> \in Seq(Nets) /\ \A k \in 1..n : signal[k] \in Nets
  BY OrderTypes DEF SupervisorTypeOK
<1>2. \A k \in 1..n : \A s \in Seq(Nets) : Adds(k, s) \in Seq(Nets)
  BY <1>1
<1>3. Found = CHOOSE f : Is(f)
  BY DEF Found
<1>4. \A s : Adds(0, s) = <<>>
  OBVIOUS
<1> HIDE DEF n, Adds
<1>5. F \in [1..n -> [Seq(Nets) -> Seq(Nets)]]
        /\ \A k \in 1..n : \A s \in Seq(Nets) : F[k][s] = Adds(k, s)
  BY <1>2
<1> HIDE DEF F
<1>6. PICK f \in [0..n -> Seq(Nets)] : f[0] = <<>> /\ \A k \in 1..n : f[k] = F[k][f[k - 1]]
  <2>1. Iterations(n, Seq(Nets), <<>>, F) # {}
    BY <1>1, <1>5, Recursion
  <2> QED BY <2>1 DEF Iterations
<1>7. Is(f)
  <2>1. ASSUME NEW k \in 1..n PROVE f[k] = Adds(k, f[k - 1])
    <3>1. f[k - 1] \in Seq(Nets)
      BY <1>1, <1>6
    <3> QED BY <1>5, <1>6, <3>1
  <2> QED BY <1>1, <1>4, <1>6, <2>1
<1>8. Is(Found)
  BY <1>3, <1>7
<1> DEFINE S == {k \in 0..n : Found[k] \in Seq(Nets)}
<1>9. 0 \in S
  <2>1. \A k \in 0..n : Found[k] = Adds(k, Found[k - 1])
    BY <1>8
  <2>2. 0 \in 0..n
    BY <1>1
  <2>3. Found[0] = <<>>
    BY <1>4, <2>1, <2>2
  <2> QED BY <1>1, <2>2, <2>3
<1>10. ASSUME NEW k \in 1..n, k - 1 \in S PROVE k \in S
  BY <1>1, <1>2, <1>8, <1>10
<1> HIDE DEF S
<1>11. 0..n \subseteq S
  BY <1>1, <1>9, <1>10, SetInductionTo
<1>12. n \in 0..n
  BY <1>1
<1> QED BY <1>11, <1>12 DEF S, InSight, n

(* Rotating a sequence of networks gives one. *)
LEMMA RotatedType ==
  ASSUME SupervisorTypeOK, NEW s \in Seq(Nets)
  PROVE  Rotated(s) \in Seq(Nets)
<1>1. Len(s) \in Nat /\ rotate \in Nat
  BY SupervisorAssumption DEF SupervisorTypeOK
<1>2. ASSUME NEW i \in 1..Len(s) PROVE s[1 + ((i - 1 + rotate) % Len(s))] \in Nets
  <2>1. (i - 1 + rotate) % Len(s) \in 0..(Len(s) - 1)
    BY <1>1
  <2>2. 1 + ((i - 1 + rotate) % Len(s)) \in 1..Len(s)
    BY <1>1, <2>1
  <2> QED BY <2>2
<1> QED BY <1>1, <1>2 DEF Rotated

(* A step of the supervisor keeps the types. *)
LEMMA SupervisorTypes == ASSUME SupervisorTypeOK, SupervisorStep PROVE SupervisorTypeOK'
<1>1. /\ Turns \in Nat \ {0} /\ MaxUpsets \in Nat
  BY SupervisorAssumption
<1>2. upsets' \in 0..MaxUpsets
  BY <1>1 DEF SupervisorTypeOK, SupervisorStep, Scan, Join, SupervisorEnds, NoneJoined,
         EnterGrace, SeesHub,
    GiveUp, LeaveNetwork, NoticesDrop, Upset, environment, leafThread
<1>3. UNCHANGED <<air, signal, answers, conn, foundOn>> /\ hubReachable' \in BOOLEAN
  BY DEF SupervisorTypeOK, SupervisorStep, Scan, Join, SupervisorEnds, NoneJoined, EnterGrace,
         SeesHub,
    GiveUp, LeaveNetwork, NoticesDrop, ResetFlag, environment, leafThread
<1>4. CASE Scan
  <2>1. order' \in Seq(Nets)
    <3>1. (IF InSight = <<>> THEN Networks ELSE InSight) \in Seq(Nets) /\ Networks \in Seq(Nets)
      BY ScanType, SupervisorAssumption
    <3> QED BY <1>4, <3>1, RotatedType DEF Scan
  <2> QED BY <1>2, <1>3, <1>4, <2>1 DEF Scan, SupervisorTypeOK
<1>5. CASE Join
  <2>1. Head(order) \in Nets /\ Tail(order) \in Seq(Nets)
    BY <1>5 DEF Join, SupervisorTypeOK
  <2>2. /\ order' \in Seq(Nets) /\ UNCHANGED rotate /\ late' \subseteq Addrs
        /\ wifi' \in Nets \cup {NoNet} /\ sup' \in {"try", "joined"}
    <3>1. CASE Joined(Head(order))
      BY <1>5, <2>1, <3>1, SupervisorAssumption DEF Join, Joined, SupervisorTypeOK
    <3>2. CASE order' = Tail(order) /\ UNCHANGED <<sup, wifi, late>>
      BY <1>5, <2>1, <3>2 DEF Join, SupervisorTypeOK
    <3> QED BY <1>5, <3>1, <3>2 DEF Join
  <2> QED BY <1>2, <1>3, <2>2 DEF SupervisorTypeOK
<1>6. CASE SupervisorEnds
  BY <1>2, <1>3, <1>6 DEF SupervisorEnds, SupervisorTypeOK
<1>7. CASE NoneJoined \/ EnterGrace \/ SeesHub \/ GiveUp \/ NoticesDrop
  BY <1>2, <1>3, <1>7 DEF NoneJoined, EnterGrace, SeesHub, GiveUp, NoticesDrop, SupervisorTypeOK
<1>8. CASE LeaveNetwork
  <2>1. (rotate + 1) % Turns \in 0..(Turns - 1)
    BY <1>1 DEF SupervisorTypeOK
  <2> QED BY <1>2, <1>3, <1>8, <2>1 DEF LeaveNetwork, SupervisorTypeOK
<1> QED BY <1>4, <1>5, <1>6, <1>7, <1>8 DEF SupervisorStep

(* So does a dial loop. *)
LEMMA LeafTypes ==
  ASSUME SupervisorTypeOK, NEW a \in Addrs, Dial(a) \/ ConnectionEnds(a)
  PROVE  SupervisorTypeOK'
BY DEF Dial, ConnectionEnds, environment, SupervisorTypeOK

(* So does the environment. *)
LEMMA EnvironmentTypes == ASSUME SupervisorTypeOK, Environment PROVE SupervisorTypeOK'
<1>1. MaxUpsets \in Nat
  BY SupervisorAssumption
<1>2. UNCHANGED <<sup, order, rotate, leafThread>> /\ upsets' \in 0..MaxUpsets
  <2>1. Upset /\ UNCHANGED <<sup, order, rotate, leafThread>>
    BY DEF Environment, AirChanges, HubMoves, SignalChanges, WifiDrops
  <2> QED BY <1>1, <2>1 DEF Upset, SupervisorTypeOK
<1>3. wifi' \in {wifi, NoNet}
  BY DEF Environment, AirChanges, HubMoves, SignalChanges, WifiDrops
<1>4. air' \in Air /\ signal' \in Orders
  BY DEF Environment, AirChanges, HubMoves, SignalChanges, WifiDrops, environment,
         SupervisorTypeOK, Air
<1>5. answers' \subseteq Addrs \X Nets /\ late' \subseteq Addrs
  <2>1. ASSUME NEW n \in Nets, NEW a \in Addrs, HubMoves(a, n)
        PROVE  answers' \subseteq Addrs \X Nets /\ late' \subseteq Addrs
    <3>1. <<a, n>> \in Addrs \X Nets
      OBVIOUS
    <3> QED BY <2>1, <3>1 DEF HubMoves, SupervisorTypeOK
  <2>2. CASE UNCHANGED <<answers, late>>
    BY <2>2 DEF SupervisorTypeOK
  <2> QED BY <2>1, <2>2 DEF Environment, AirChanges, SignalChanges, WifiDrops, environment
<1> QED BY <1>2, <1>3, <1>4, <1>5 DEF SupervisorTypeOK, leafThread, Air

(* Constants that a board which has not started has its variables at. *)
LEMMA RestTypes ==
  /\ Networks \in Orders /\ NoNet \in Nets \cup {NoNet} /\ <<>> \in Seq(Nets)
  /\ [n \in Nets |-> "off"] \in Air /\ [a \in Addrs |-> NoNet] \in [Addrs -> Nets \cup {NoNet}]
  /\ 0 \in 0..(Turns - 1) /\ 0 \in 0..MaxUpsets
BY OrderTypes, SupervisorAssumption DEF Air

(* Only a board on its normal path is not as it was before it started. *)
BoardTypes == SupervisorTypeOK /\ leafUp \in BOOLEAN /\ (main # "normal" => NotStarted)

(* Every step of the board keeps that. *)
LEMMA BoardKeeps == ASSUME BoardTypes, [DeviceNext]_deviceVars PROVE BoardTypes'
<1>1. CASE PowerOn /\ main' = "normal"
  <2>1. main = "off" /\ StartNormal
    BY <1>1 DEF PowerOn, Boots, Boot
  <2>2. MaxUpsets \in Nat
    BY SupervisorAssumption
  <2>3. upsets' \in 0..MaxUpsets /\ sup' \in {"scan", "ended"} /\ leafUp' \in BOOLEAN
    <3>1. UNCHANGED upsets \/ Upset
      BY <2>1 DEF StartNormal
    <3>2. upsets' \in 0..MaxUpsets
      BY <2>2, <3>1 DEF Upset, BoardTypes, SupervisorTypeOK
    <3>3. sup' \in {"scan", "ended"} /\ leafUp' \in BOOLEAN
      BY <2>1 DEF StartNormal
    <3> QED BY <3>2, <3>3
  <2>4. SupervisorTypeOK'
    BY <2>1, <2>3 DEF StartNormal, BoardTypes, SupervisorTypeOK, leafThread
  <2> QED BY <1>1, <2>3, <2>4 DEF BoardTypes
<1>2. CASE PowerOn /\ main' # "normal"
  BY <1>2 DEF PowerOn, Boots, Boot, supervisorVars, BoardTypes, SupervisorTypeOK, NotStarted
<1>3. CASE PowerOff
  <2>1. NotStarted'
    BY <1>3 DEF PowerOff, NotStarted
  <2>2. SupervisorTypeOK' /\ leafUp' \in BOOLEAN
    BY <2>1, RestTypes DEF NotStarted, SupervisorTypeOK, Air
  <2> QED BY <2>1, <2>2 DEF BoardTypes
<1>4. CASE Provisions
  <2>1. main # "normal" /\ UNCHANGED <<supervisorVars, leafUp>>
    BY <1>4 DEF Provisions, TakePayload, ReadLength, CopyPart, StoreBlob, StoreFlag, HostTask,
           Disconnected, Connected, Begin, Commit, HandPart, Give, Chunk, Writes, AtRest,
           Bluetooth
  <2> QED BY <2>1 DEF supervisorVars, BoardTypes, SupervisorTypeOK, NotStarted
<1>5. CASE Supervises
  BY <1>5, SupervisorTypes DEF Supervises, provisioningVars, BoardTypes
<1>6. CASE Surroundings
  BY <1>6, EnvironmentTypes DEF Surroundings, provisioningVars, BoardTypes
<1>7. CASE \E a \in Addrs : Dials(a) \/ Loses(a)
  <2>1. leafUp /\ UNCHANGED <<main, leafUp>> /\ SupervisorTypeOK'
    BY <1>7, LeafTypes DEF Dials, Loses, provisioningVars, BoardTypes
  <2>2. main = "normal"
    BY <2>1 DEF BoardTypes, NotStarted
  <2> QED BY <2>1, <2>2 DEF BoardTypes
<1>8. CASE UNCHANGED deviceVars
  BY <1>8 DEF deviceVars, provisioningVars, supervisorVars, BoardTypes, SupervisorTypeOK,
         NotStarted
<1> QED BY <1>1, <1>2, <1>3, <1>4, <1>5, <1>6, <1>7, <1>8 DEF DeviceNext

(* Every variable of the board keeps its type, and while the board is not  *)
(* on its normal path, neither the supervisor nor a dial loop has done     *)
(* anything (main.rs 144-284).                                             *)
THEOREM DeviceTypes == DeviceSpec => []DeviceTypeOK
<1>1. DeviceInit => BoardTypes
  BY RestTypes DEF DeviceInit, NotStarted, BoardTypes, SupervisorTypeOK, Air
<1>2. BoardTypes /\ [DeviceNext]_deviceVars => BoardTypes'
  BY BoardKeeps
<1>3. BoardTypes /\ ProvisioningInv => DeviceTypeOK
  BY DEF BoardTypes, ProvisioningInv, DeviceTypeOK
<1> QED BY <1>1, <1>2, <1>3, ImplementsProvisioning, ProvisioningInvariant, PTL DEF DeviceSpec
=============================================================================
