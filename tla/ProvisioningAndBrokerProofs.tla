-------------------- MODULE ProvisioningAndBrokerProofs ---------------------
(***************************************************************************)
(* Proofs about the two ends of the USB link.  PicoProvisioning, on        *)
(* CredentialStore, for every clock, hold time, queue length and set of    *)
(* credentials: nothing is provisioned that was not meant to be, and what  *)
(* was confirmed is what the next boot loads.  Broker, for every window    *)
(* and number of records.  The two parts share no variable.                *)
(***************************************************************************)
EXTENDS PicoProvisioning, Broker, TLAPS

-----------------------------------------------------------------------------
(***************************************************************************)
(* CredentialStore for every set of credentials and every generation       *)
(* limit: the two sectors are never ambiguous and implement AtomicCell.    *)
(***************************************************************************)

Other(t) == 1 - t
Area == {Erased, Torn} \cup
        [state : {"record"}, data : [generation : 1 .. MaxGeneration, content : Contents]]
Sector == [data : Area, commit : 0 .. MaxGeneration]

(* Two committed sectors have different generations.                       *)
Distinct(s) == valid(s[0]) /\ valid(s[1]) => generation(s[0]) # generation(s[1])

(* The running transaction writes beside the current sector, with the next *)
(* generation, into a sector that has no commit once it is erased; and it  *)
(* commits only the record it was given.                                   *)
TxInv ==
    tx.pc # "idle" =>
        LET t == tx.target
            o == sector[Other(tx.target)]
        IN  /\ tx.generation >= 1
            /\ valid(o) => tx.generation = generation(o) + 1
            /\ tx.pc = "erase" /\ valid(sector[t]) => valid(o) /\ generation(sector[t]) < generation(o)
            /\ tx.pc \in {"program", "readback", "commit"} => sector[t].commit = NoCommit
            /\ tx.pc \in {"commit", "verify"} => sector[t].data = Holds(record)
            /\ tx.pc = "verify" => sector[t].commit \in {NoCommit, tx.generation}

(* What the last transaction confirmed is what a load finds.               *)
AnswerInv ==
    answer.status = "OK" =>
        /\ tx.pc = "idle"
        /\ latest_slot(sector) \in Sectors
        /\ sector[latest_slot(sector)].data.data.content = answer.content

StoreInv == StoreTypeOK /\ Distinct(sector) /\ TxInv /\ AnswerInv

-----------------------------------------------------------------------------
(* latest_slot                                                             *)

(* A committed sector is the latest when the other one is not committed or *)
(* has a lower generation.                                                 *)
LEMMA LatestIs ==
    ASSUME NEW s \in [Sectors -> Sector], NEW t \in Sectors, valid(s[t]),
           valid(s[Other(t)]) => generation(s[Other(t)]) < generation(s[t])
    PROVE  latest_slot(s) = t
<1>1. generation(s[0]) \in Int /\ generation(s[1]) \in Int
  BY DEF Sectors, Sector, Area, generation, Erased, Torn, NoData
<1> QED
  BY <1>1 DEF latest_slot, Other, Sectors

(* What latest_slot is when the generations differ.                        *)
LEMMA LatestOf ==
    ASSUME NEW s \in [Sectors -> Sector], Distinct(s)
    PROVE  /\ latest_slot(s) \in Sectors \cup {None}
           /\ latest_slot(s) = None <=> ~valid(s[0]) /\ ~valid(s[1])
           /\ \A t \in Sectors : latest_slot(s) = t =>
                 /\ valid(s[t])
                 /\ valid(s[Other(t)]) => generation(s[Other(t)]) < generation(s[t])
<1>1. generation(s[0]) \in Int /\ generation(s[1]) \in Int
  BY DEF Sectors, Sector, Area, generation, Erased, Torn, NoData
<1> QED
  BY <1>1 DEF latest_slot, Distinct, Other, Sectors, None, Ambiguous

(* Sectors that agree on what is committed give a load the same answer.    *)
LEMMA SameLoad ==
    ASSUME NEW s \in [Sectors -> Sector], Distinct(s), NEW r \in [Sectors -> Sector],
           NEW t \in Sectors, r[Other(t)] = s[Other(t)],
           valid(s[t]) => valid(s[Other(t)]) /\ generation(s[t]) < generation(s[Other(t)]),
           valid(r[t]) => r[t] = s[t]
    PROVE  Distinct(r) /\ latest_slot(r) = latest_slot(s) /\ Load(r) = Load(s)
<1>1. Other(t) \in Sectors /\ Other(t) # t /\ Other(Other(t)) = t
  BY DEF Sectors, Other
<1>2. Distinct(r)
  BY <1>1 DEF Distinct, Sectors, Other
<1>3. CASE valid(s[Other(t)])
  <2>1. latest_slot(s) = Other(t) /\ latest_slot(r) = Other(t)
    BY <1>1, <1>3, LatestIs
  <2> QED
    BY <1>1, <1>2, <2>1 DEF Load, Sectors, None, Ambiguous
<1>4. CASE ~valid(s[Other(t)])
  <2>1. latest_slot(s) = None /\ latest_slot(r) = None
    BY <1>1, <1>4 DEF latest_slot, Sectors, Other
  <2> QED
    BY <1>2, <2>1 DEF Load
<1> QED
  BY <1>3, <1>4

(* The content a load finds is that of the latest sector.                  *)
LEMMA LoadContent ==
    ASSUME NEW s \in [Sectors -> Sector], NEW t \in Sectors, latest_slot(s) = t
    PROVE  Load(s).content = s[t].data.data.content
BY DEF Load, Sectors, None, Ambiguous

(* A sector without a commit holds no committed record.                    *)
LEMMA Uncommitted ==
    ASSUME NEW x \in Sector, valid(x)
    PROVE  x.commit \in 1 .. MaxGeneration /\ x.commit = generation(x)
BY DEF Sector, Area, valid, generation, Erased, Torn, NoData

-----------------------------------------------------------------------------
(* The flash operations of a transaction                                   *)

InTarget(x) == sector' = [sector EXCEPT ![tx.target] = x]

(* The sectors, the load and the distinctness that an operation keeps when *)
(* it commits nothing new.                                                 *)
Unseen ==
    /\ sector' \in [Sectors -> Sector] /\ Distinct(sector)'
    /\ sector'[Other(tx.target)] = sector[Other(tx.target)]
    /\ latest_slot(sector') = latest_slot(sector) /\ Load(sector') = Load(sector)

(* The invariant's facts about the sectors of a running transaction.       *)
LEMMA OpenTransaction ==
    ASSUME StoreInv, tx.pc # "idle"
    PROVE  /\ sector \in [Sectors -> Sector] /\ tx.target \in Sectors
           /\ Other(tx.target) \in Sectors /\ Other(tx.target) # tx.target
           /\ tx.generation \in 1 .. MaxGeneration /\ tx.content \in Contents
           /\ Holds(record) \in Area
           /\ tx.pc \in {"erase", "program", "readback", "commit"} =>
                (valid(sector[tx.target]) => /\ valid(sector[Other(tx.target)])
                                            /\ generation(sector[tx.target]) <
                                               generation(sector[Other(tx.target)]))
<1>1. /\ sector \in [Sectors -> Sector] /\ tx.target \in Sectors
      /\ tx.generation \in 1 .. MaxGeneration /\ tx.content \in Contents
  BY GenerationAssumption DEF StoreInv, StoreTypeOK, Sector, Area, TxInv
<1>2. Other(tx.target) \in Sectors /\ Other(tx.target) # tx.target
  BY <1>1 DEF Other, Sectors
<1>3. Holds(record) \in Area
  BY <1>1 DEF Holds, record, Data, Area
<1>4. ASSUME tx.pc \in {"program", "readback", "commit"} PROVE ~valid(sector[tx.target])
  BY <1>1, <1>4, Uncommitted DEF StoreInv, TxInv, NoCommit
<1> QED
  BY <1>1, <1>2, <1>3, <1>4 DEF StoreInv, TxInv

(* An operation that leaves its sector uncommitted, or as it was, is not   *)
(* seen by a load.                                                         *)
LEMMA UnseenWrite ==
    ASSUME StoreInv, tx.pc \in {"erase", "program", "readback", "commit"},
           NEW x \in Sector, valid(x) => x = sector[tx.target], InTarget(x)
    PROVE  Unseen
<1>1. sector' \in [Sectors -> Sector] /\ sector'[tx.target] = x
      /\ sector'[Other(tx.target)] = sector[Other(tx.target)]
  BY OpenTransaction DEF InTarget
<1>2. /\ Distinct(sector') /\ latest_slot(sector') = latest_slot(sector)
      /\ Load(sector') = Load(sector)
  <2>1. Distinct(sector)
    BY DEF StoreInv
  <2> QED
    BY <1>1, <2>1, OpenTransaction, SameLoad
<1> QED
  BY <1>1, <1>2 DEF Unseen

(* An erasure, whole or cut, is not seen by a load.                        *)
LEMMA ErasingUnseen ==
    ASSUME StoreInv, tx.pc = "erase", Erasing
    PROVE  Unseen
<1>1. PICK d \in {sector[tx.target].data, Torn, Erased}, c \in {sector[tx.target].commit, NoCommit} :
         InTarget([data |-> d, commit |-> c])
  BY DEF Erasing, SetTarget, InTarget
<1>2. sector[tx.target] \in Sector
  BY OpenTransaction
<1> DEFINE x == [data |-> d, commit |-> c]
<1>3. x \in Sector
  BY <1>2, GenerationAssumption DEF Sector, Area, NoCommit
<1>4. ASSUME valid(x) PROVE x = sector[tx.target]
  <2>1. c # NoCommit
    BY <1>3, <1>4, Uncommitted DEF NoCommit
  <2>2. d # Torn /\ d # Erased
    BY <1>4 DEF valid, Torn, Erased
  <2> QED
    BY <1>1, <1>2, <2>1, <2>2 DEF Sector
<1> HIDE DEF x
<1> QED
  BY <1>1, <1>3, <1>4, UnseenWrite DEF x

(* Data programmed into an erased sector, rightly or not, is not seen.     *)
LEMMA ProgrammingUnseen ==
    ASSUME StoreInv, tx.pc = "program", Programming
    PROVE  Unseen /\ sector'[tx.target].commit = NoCommit
<1>1. PICK d \in {sector[tx.target].data, Torn, Holds(record)} :
         InTarget([data |-> d, commit |-> sector[tx.target].commit])
  BY DEF Programming, SetTarget, InTarget
<1>2. sector[tx.target] \in Sector /\ Holds(record) \in Area /\ sector[tx.target].commit = NoCommit
  BY OpenTransaction DEF StoreInv, TxInv
<1> DEFINE x == [data |-> d, commit |-> sector[tx.target].commit]
<1>3. x \in Sector /\ x.commit = NoCommit
  BY <1>2 DEF Sector, Area
<1>4. ~valid(x)
  BY <1>3, Uncommitted DEF NoCommit
<1>5. InTarget(x)
  BY <1>1
<1> HIDE DEF x
<1>6. Unseen
  BY <1>3, <1>4, <1>5, UnseenWrite
<1> QED
  BY <1>3, <1>5, <1>6, OpenTransaction DEF InTarget

(* A commit that takes makes the new record the latest; one that does not  *)
(* is not seen.                                                            *)
LEMMA CommittingSeen ==
    ASSUME StoreInv, tx.pc = "commit", Committing
    PROVE  /\ sector' \in [Sectors -> Sector] /\ Distinct(sector)'
           /\ sector'[Other(tx.target)] = sector[Other(tx.target)]
           /\ sector'[tx.target].data = Holds(record)
           /\ sector'[tx.target].commit \in {NoCommit, tx.generation}
           /\ Load(sector').content \in {Load(sector).content, tx.content}
<1>1. /\ sector[tx.target] \in Sector /\ sector[tx.target].commit = NoCommit
      /\ sector[tx.target].data = Holds(record) /\ Holds(record) \in Area
  BY OpenTransaction DEF StoreInv, TxInv
<1>2. PICK c \in {NoCommit, tx.generation} : InTarget([data |-> Holds(record), commit |-> c])
  BY <1>1 DEF Committing, SetTarget, InTarget
<1> DEFINE x == [data |-> Holds(record), commit |-> c]
<1>3. x \in Sector /\ x.data = Holds(record) /\ x.commit = c
  BY <1>1, OpenTransaction, GenerationAssumption DEF Sector, NoCommit
<1>4. InTarget(x)
  BY <1>2
<1> HIDE DEF x
<1>5. /\ sector' \in [Sectors -> Sector] /\ sector'[tx.target] = x
      /\ sector'[Other(tx.target)] = sector[Other(tx.target)]
  BY <1>3, <1>4, OpenTransaction DEF InTarget
<1>6. CASE c = NoCommit
  <2>1. ~valid(x)
    BY <1>3, <1>6, Uncommitted DEF NoCommit
  <2>2. Unseen
    BY <1>3, <1>4, <2>1, UnseenWrite
  <2> QED
    BY <1>3, <1>5, <1>6, <2>2 DEF Unseen
<1>7. CASE c = tx.generation
  <2>1. valid(x) /\ generation(x) = tx.generation
    BY <1>3, <1>7 DEF valid, generation, Holds, record, Data
  <2>2. valid(sector[Other(tx.target)]) => generation(sector[Other(tx.target)]) < generation(x)
    BY <2>1, OpenTransaction, Uncommitted DEF StoreInv, TxInv
  <2>3. latest_slot(sector') = tx.target
    BY <1>5, <2>1, <2>2, OpenTransaction, LatestIs
  <2>4. Load(sector').content = tx.content
    BY <1>3, <1>5, <2>3, OpenTransaction, LoadContent DEF Holds, record, Data
  <2>5. Distinct(sector')
    <3>1. generation(x) \in Int
      BY <2>1, OpenTransaction
    <3>2. valid(sector[Other(tx.target)]) => generation(sector[Other(tx.target)]) # generation(x)
      BY <2>2, <3>1, OpenTransaction, Uncommitted
    <3> QED
      BY <1>5, <3>2, OpenTransaction DEF Distinct, Other, Sectors
  <2> QED
    BY <1>3, <1>5, <1>7, <2>4, <2>5
<1> QED
  BY <1>2, <1>6, <1>7

-----------------------------------------------------------------------------
(* The steps of the store, and the steps of the cell they implement        *)

CellStep == Cell!Next \/ UNCHANGED Cell!vars

TxType == [pc : {"idle", "erase", "program", "readback", "commit", "verify"},
           content : Contents, generation : 0 .. MaxGeneration, target : Sectors]
AnswerType == [status : {"none", "OK", "IO", "LIMIT", "AMBIGUOUS"}, content : Contents]

(* StoreTypeOK by parts.                                                   *)
LEMMA Types ==
    StoreTypeOK <=> sector \in [Sectors -> Sector] /\ tx \in TxType /\ answer \in AnswerType
BY DEF StoreTypeOK, Sector, Area, TxType, AnswerType

(* A transaction that ends without PBNS_OK, or is cut, keeps the invariant *)
(* whenever the sectors do.                                                *)
LEMMA Ends ==
    ASSUME StoreInv, sector' \in [Sectors -> Sector], Distinct(sector)',
           tx' = NoTransaction, answer' \in AnswerType, answer'.status # "OK"
    PROVE  StoreInv'
<1>1. NoTransaction \in TxType
  BY GenerationAssumption DEF NoTransaction, TxType, Contents, Sectors
<1>2. StoreTypeOK'
  BY <1>1, Types DEF StoreTypeOK, Sector, Area, TxType, AnswerType
<1> QED
  BY <1>2 DEF StoreInv, TxInv, AnswerInv, NoTransaction

(* write_transaction chooses sector and generation, or refuses.            *)
LEMMA BeginStep ==
    ASSUME StoreInv, NEW c \in Contents, write_transaction(c)
    PROVE  StoreInv' /\ CellStep
<1> DEFINE current == latest_slot(sector)
<1>1. /\ sector \in [Sectors -> Sector] /\ Distinct(sector) /\ tx \in TxType
      /\ answer \in AnswerType /\ tx.pc = "idle" /\ UNCHANGED sector
  BY Types DEF StoreInv, write_transaction
<1>2. /\ current \in Sectors \cup {None}
      /\ current = None => ~valid(sector[0]) /\ ~valid(sector[1])
      /\ \A t \in Sectors : current = t =>
           /\ valid(sector[t])
           /\ valid(sector[Other(t)]) => generation(sector[Other(t)]) < generation(sector[t])
  BY <1>1, LatestOf
<1>3. CASE refusal(current) # "OK"
  <2>1. /\ tx' = tx /\ answer' = [status |-> refusal(current), content |-> c]
        /\ refusal(current) \in {"AMBIGUOUS", "LIMIT"}
    BY <1>3 DEF write_transaction, refusal
  <2>2. StoreTypeOK'
    BY <1>1, <2>1 DEF StoreTypeOK, Sector, Area, TxType, AnswerType
  <2>3. StoreInv'
    BY <1>1, <2>1, <2>2 DEF StoreInv, TxInv, AnswerInv, Distinct
  <2> QED
    BY <1>1, <2>1, <2>3 DEF CellStep, Cell!Next, Cell!Forget
<1>4. CASE refusal(current) = "OK"
  <2>1. /\ tx' = [pc |-> "erase", content |-> c, target |-> target(current),
                  generation |-> next_generation(current)]
        /\ answer' = NoAnswer
    BY <1>4 DEF write_transaction
  <2>2. /\ target(current) \in Sectors
        /\ current # None => current \in Sectors /\ Other(target(current)) = current
    BY <1>2 DEF target, Sectors, None, Other
  <2>3. ASSUME current # None PROVE generation(sector[current]) \in 1 .. MaxGeneration - 1
    <3>1. sector[current] \in Sector /\ valid(sector[current])
      BY <1>1, <1>2, <2>2, <2>3
    <3>2. generation(sector[current]) \in 1 .. MaxGeneration
      BY <3>1, Uncommitted
    <3>3. generation(sector[current]) # MaxGeneration
      BY <1>4, <2>3 DEF refusal
    <3> QED
      BY <3>2, <3>3, GenerationAssumption
  <2>4. next_generation(current) \in 1 .. MaxGeneration
    BY <2>3, GenerationAssumption DEF next_generation
  <2>5. StoreTypeOK'
    <3>1. tx' \in TxType
      BY <2>1, <2>2, <2>4 DEF TxType
    <3>2. answer' \in AnswerType
      BY <2>1 DEF NoAnswer, AnswerType, Contents
    <3> QED
      BY <1>1, <3>1, <3>2 DEF StoreTypeOK, Sector, Area, TxType, AnswerType
  <2>6. TxInv'
    <3>1. CASE current = None
      <4>1. ~valid(sector[target(current)]) /\ ~valid(sector[Other(target(current))])
        BY <1>2, <3>1 DEF target, None, Other
      <4> QED
        BY <1>1, <2>1, <2>4, <4>1 DEF TxInv, None
    <3>2. CASE current # None
      <4>1. Other(current) = target(current) /\ next_generation(current) = generation(sector[current]) + 1
        BY <2>2, <3>2, SMTT(30) DEF Other, Sectors, next_generation, target
      <4> QED
        BY <1>1, <1>2, <2>1, <2>2, <2>4, <3>2, <4>1 DEF TxInv
    <3> QED
      BY <3>1, <3>2
  <2>7. StoreInv'
    BY <1>1, <2>1, <2>5, <2>6 DEF StoreInv, AnswerInv, NoAnswer, Distinct
  <2> QED
    BY <1>1, <2>1, <2>7 DEF CellStep, Cell!Next, Cell!Begin, NoAnswer
<1> QED
  BY <1>3, <1>4

(* A step that commits nothing is a step of the cell that keeps its value. *)
LEMMA QuietCell ==
    ASSUME tx.pc # "idle", Load(sector').content \in {Load(sector).content, tx.content},
           \/ tx'.pc # "idle" /\ tx'.content = tx.content
           \/ tx'.pc = "idle",
           answer'.status # "OK"
    PROVE  CellStep
BY DEF CellStep, Cell!Next, Cell!Write

(* The steps of write_transaction after its first half.                    *)
LEMMA TransactionStep ==
    ASSUME StoreInv, StoreStep
    PROVE  StoreInv' /\ CellStep
<1>1. /\ sector \in [Sectors -> Sector] /\ Distinct(sector) /\ tx \in TxType
      /\ answer \in AnswerType /\ TxInv /\ AnswerInv
  BY Types DEF StoreInv
<1>2. tx.pc # "idle" /\ answer.status # "OK"
  BY <1>1 DEF StoreStep, erase, program, readback, commit, verify, AnswerInv
<1>3. ASSUME Complete("IO"), sector' \in [Sectors -> Sector], Distinct(sector)',
             Load(sector').content \in {Load(sector).content, tx.content}
      PROVE  StoreInv' /\ CellStep
  <2>1. answer' \in AnswerType /\ answer'.status # "OK" /\ tx' = NoTransaction
    BY <1>1, <1>3 DEF Complete, AnswerType, TxType
  <2> QED
    BY <1>2, <1>3, <2>1, Ends, QuietCell DEF NoTransaction
<1>4. ASSUME NEW pc \in {"program", "readback", "commit", "verify"},
             tx' = [tx EXCEPT !.pc = pc], UNCHANGED answer,
             sector' \in [Sectors -> Sector], Distinct(sector)', TxInv',
             Load(sector').content \in {Load(sector).content, tx.content}
      PROVE  StoreInv' /\ CellStep
  <2>1. tx' \in TxType /\ tx'.pc # "idle" /\ tx'.content = tx.content
    BY <1>1, <1>4 DEF TxType
  <2>2. StoreTypeOK'
    BY <1>1, <1>4, <2>1 DEF StoreTypeOK, Sector, Area, TxType, AnswerType
  <2> QED
    BY <1>2, <1>4, <2>1, <2>2, QuietCell DEF StoreInv, AnswerInv
<1>5. CASE erase
  <2>1. CASE SetTarget(Erased, NoCommit) /\ tx' = [tx EXCEPT !.pc = "program"] /\ UNCHANGED answer
    <3>1. Erasing
      BY <2>1 DEF Erasing
    <3>2. Unseen
      BY <1>5, <3>1, ErasingUnseen DEF erase
    <3>3. TxInv'
      BY <1>1, <1>5, <2>1, <3>2, OpenTransaction DEF erase, TxInv, SetTarget, Unseen, TxType
    <3> QED
      BY <1>4, <2>1, <3>2, <3>3 DEF Unseen
  <2>2. CASE Erasing /\ Complete("IO")
    BY <1>3, <1>5, <2>2, ErasingUnseen DEF erase, Unseen
  <2> QED
    BY <1>5, <2>1, <2>2 DEF erase
<1>6. CASE program
  <2>1. Programming
    BY <1>6 DEF program, Programming
  <2>2. Unseen /\ sector'[tx.target].commit = NoCommit
    BY <1>6, <2>1, ProgrammingUnseen DEF program
  <2>3. CASE tx' = [tx EXCEPT !.pc = "readback"] /\ UNCHANGED answer
    <3>1. TxInv'
      BY <1>1, <1>6, <2>2, <2>3 DEF program, TxInv, Unseen, TxType
    <3> QED
      BY <1>4, <2>2, <2>3, <3>1 DEF Unseen
  <2> QED
    BY <1>3, <1>6, <2>2, <2>3 DEF program, Unseen
<1>7. CASE readback
  <2>1. CASE sector[tx.target].data = Holds(record) /\ tx' = [tx EXCEPT !.pc = "commit"] /\ UNCHANGED answer
    <3>1. TxInv'
      BY <1>1, <1>7, <2>1 DEF readback, TxInv, TxType, record
    <3> QED
      BY <1>1, <1>4, <1>7, <2>1, <3>1 DEF readback, Distinct
  <2> QED
    BY <1>1, <1>3, <1>7, <2>1 DEF readback, Distinct
<1>8. CASE commit
  <2>1. Committing
    BY <1>8 DEF commit, Committing
  <2>2. CASE tx' = [tx EXCEPT !.pc = "verify"] /\ UNCHANGED answer
    <3>1. TxInv'
      BY <1>1, <1>8, <2>1, <2>2, CommittingSeen DEF commit, TxInv, TxType, record
    <3> QED
      BY <1>4, <1>8, <2>1, <2>2, <3>1, CommittingSeen DEF commit
  <2> QED
    BY <1>3, <1>8, <2>1, <2>2, CommittingSeen DEF commit
<1>9. CASE verify
  <2>1. UNCHANGED sector /\ Complete(verified) /\ tx.pc = "verify"
    BY <1>9 DEF verify
  <2>2. CASE verified # "OK"
    BY <1>1, <1>3, <2>1, <2>2 DEF verified, Distinct
  <2>3. CASE verified = "OK"
    <3>1. valid(sector[tx.target]) /\ sector[tx.target].data = Holds(record)
      BY <2>3 DEF verified
    <3>2. generation(sector[tx.target]) = tx.generation
      BY <3>1 DEF generation, Holds, record, Data
    <3>3. latest_slot(sector) = tx.target
      BY <1>1, <1>2, <3>1, <3>2, OpenTransaction, Uncommitted, LatestIs DEF TxInv
    <3>4. sector[tx.target].data.data.content = tx.content /\ Load(sector).content = tx.content
      <4>1. Holds(record).data.content = tx.content
        BY DEF Holds, record, Data
      <4>2. sector[tx.target].data.data.content = tx.content
        BY <4>1, <3>1
      <4> QED
        BY <1>2, <4>2, <3>1, <3>3, OpenTransaction, LoadContent
    <3>5. tx' = NoTransaction /\ answer' = [status |-> "OK", content |-> tx.content]
      BY <2>1, <2>3 DEF Complete
    <3>6. StoreTypeOK'
      <4>1. NoTransaction \in TxType
        BY GenerationAssumption DEF NoTransaction, TxType, Contents, Sectors
      <4>2. answer' \in AnswerType
        BY <1>1, <3>5, Zenon DEF AnswerType, TxType
      <4> QED
        BY <1>1, <2>1, <3>5, <4>1, <4>2 DEF StoreTypeOK, Sector, Area, TxType, AnswerType
    <3>7. StoreInv'
      BY <1>1, <1>2, <2>1, <3>3, <3>4, <3>5, <3>6, OpenTransaction DEF StoreInv, TxInv, AnswerInv, NoTransaction, Distinct
    <3> QED
      BY <1>2, <2>1, <3>4, <3>5, <3>7 DEF CellStep, Cell!Next, Cell!Write, NoTransaction
  <2> QED
    BY <2>2, <2>3
<1> QED
  BY <1>5, <1>6, <1>7, <1>8, <1>9 DEF StoreStep

(* A power cut anywhere leaves the old content or the new one.             *)
LEMMA StorePowerCutStep ==
    ASSUME StoreInv, StorePowerCut
    PROVE  StoreInv' /\ CellStep
<1>1. sector \in [Sectors -> Sector] /\ Distinct(sector) /\ tx \in TxType
  BY Types DEF StoreInv
<1>2. tx' = NoTransaction /\ answer' = NoAnswer
  BY DEF StorePowerCut
<1>3. answer' \in AnswerType /\ answer'.status # "OK"
  BY <1>2, SMTT(30) DEF NoAnswer, AnswerType, Contents
<1>4. /\ sector' \in [Sectors -> Sector] /\ Distinct(sector)'
      /\ \/ Load(sector') = Load(sector)
         \/ tx.pc # "idle" /\ Load(sector').content \in {Load(sector).content, tx.content}
  <2>1. CASE tx.pc = "erase"
    BY <2>1, ErasingUnseen DEF StorePowerCut, Unseen
  <2>2. CASE tx.pc = "program"
    BY <2>2, ProgrammingUnseen DEF StorePowerCut, Unseen
  <2>3. CASE tx.pc = "commit"
    BY <2>3, CommittingSeen DEF StorePowerCut
  <2>4. CASE tx.pc \notin {"erase", "program", "commit"}
    BY <1>1, <2>4 DEF StorePowerCut, Distinct
  <2> QED
    BY <2>1, <2>2, <2>3, <2>4
<1>5. StoreInv'
  BY <1>2, <1>3, <1>4, Ends
<1>6. CASE tx.pc # "idle"
  BY <1>2, <1>3, <1>4, <1>5, <1>6, QuietCell DEF NoTransaction
<1>7. CASE tx.pc = "idle"
  BY <1>2, <1>3, <1>4, <1>5, <1>7, Zenon DEF CellStep, Cell!Next, Cell!Forget, NoTransaction
<1> QED
  BY <1>6, <1>7

(* The erased flash satisfies the invariant.                               *)
LEMMA StoreStart == StoreInit => StoreInv /\ Cell!Init
<1> SUFFICES ASSUME StoreInit PROVE StoreInv /\ Cell!Init
  OBVIOUS
<1>1. StoreTypeOK
  <2>1. sector \in [Sectors -> Sector] /\ ~valid(sector[0]) /\ ~valid(sector[1])
    BY GenerationAssumption DEF StoreInit, Sectors, Sector, Area, NoCommit, valid, Erased
  <2>2. tx \in TxType /\ answer \in AnswerType
    BY GenerationAssumption DEF StoreInit, NoTransaction, NoAnswer, TxType, AnswerType, Contents, Sectors
  <2> QED
    BY <2>1, <2>2, Types
<1>2. latest_slot(sector) = None /\ Distinct(sector)
  BY DEF StoreInit, latest_slot, Distinct, valid, Erased, Sectors
<1>3. Load(sector).content = Tombstone
  BY <1>2 DEF Load
<1> QED
  BY <1>1, <1>2, <1>3 DEF StoreInv, TxInv, AnswerInv, StoreInit, NoTransaction, NoAnswer, Cell!Init

(* A step that changes nothing of the store.                               *)
LEMMA StoreStutter ==
    ASSUME StoreInv, UNCHANGED storeVars
    PROVE  StoreInv' /\ CellStep
BY DEF storeVars, StoreInv, StoreTypeOK, Distinct, TxInv, record, AnswerInv, CellStep, Cell!vars

(* Every step of the store.                                                *)
LEMMA AnyStep ==
    ASSUME StoreInv, [StoreNext]_storeVars
    PROVE  StoreInv' /\ CellStep
BY BeginStep, TransactionStep, StorePowerCutStep, StoreStutter DEF StoreNext

-----------------------------------------------------------------------------
(* The results                                                             *)

(* The invariant of write_transaction holds throughout.                    *)
THEOREM StoreInvariance == StoreSpec => []StoreInv
<1>1. StoreInv /\ [StoreNext]_storeVars => StoreInv'
  BY AnyStep
<1> QED
  BY <1>1, StoreStart, PTL DEF StoreSpec

(* No sequence of failed and interrupted transactions leaves two committed *)
(* sectors of one generation (latest_slot, PBNS_ERR_AMBIGUOUS).            *)
THEOREM NeverAmbiguousAlways == StoreSpec => []NeverAmbiguous
<1>1. StoreInv => NeverAmbiguous
  <2> SUFFICES ASSUME StoreInv PROVE NeverAmbiguous
    OBVIOUS
  <2>1. sector \in [Sectors -> Sector] /\ Distinct(sector)
    BY Types DEF StoreInv
  <2> QED
    BY <2>1, LatestOf DEF NeverAmbiguous, Sectors, None, Ambiguous
<1> QED
  BY <1>1, StoreInvariance, PTL

(* The two sectors implement an atomic cell: a load finds the old record   *)
(* or the new one, and the new one once the transaction has returned OK.   *)
THEOREM CellImplementation == StoreSpec => ImplementsCell
<1>1. StoreInv /\ [StoreNext]_storeVars => [Cell!Next]_(Cell!vars)
  BY AnyStep DEF CellStep
<1> QED
  BY <1>1, StoreStart, StoreInvariance, PTL DEF StoreSpec, ImplementsCell, Cell!Spec

-----------------------------------------------------------------------------

Parser == [ready_sent : BOOLEAN, provisioned : BOOLEAN, reading : BOOLEAN, setting : BOOLEAN]
Gate == [state : {"IDLE", "PRESS_PENDING", "LATCHED"}, started : Nat, sampled : BOOLEAN,
         last : Nat, next : Nat]
Lines == [command : Commands, early : BOOLEAN]

DeviceTypeInv ==
    /\ now \in Nat /\ lastUp \in Nat /\ lastUp <= now
    /\ gate \in Gate
    /\ session \in {"INACTIVE", "WAIT_DISCONNECT", "WAIT_CONNECT", "READY"}
    /\ parser \in Parser
    /\ dtr \in BOOLEAN
    /\ queue \in Seq(Lines)

(* A press that is being timed, or has latched, began after the last       *)
(* sample that found the button up.                                        *)
GateInv ==
    /\ gate.state # "IDLE" => lastUp <= gate.started
    /\ gate.state = "LATCHED" => gate.last - gate.started >= Hold

(* Lines are read in an open session only, and the queue was flushed when  *)
(* it opened.                                                              *)
UsbSessionInv ==
    /\ parser.setting => parser.reading
    /\ parser.reading => session = "READY"
    /\ session = "READY" => \A i \in 1 .. Len(queue) : ~queue[i].early

(* A transaction runs only inside a SET; REBOOT is allowed only by the     *)
(* confirmed answer to the last one.                                       *)
SetInv ==
    /\ ~parser.setting => tx.pc = "idle"
    /\ tx.pc # "idle" => tx.content \in Credentials
    /\ answer.status = "OK" => answer.content \in Credentials
    /\ parser.provisioned /\ ~parser.setting => answer.status = "OK"

DeviceInv == DeviceTypeInv /\ GateInv /\ UsbSessionInv /\ SetInv

(* The queue of the serial port when it is empty.                          *)
LEMMA EmptyQueue == <<>> \in Seq(Lines) /\ Len(<<>>) = 0
OBVIOUS

(* The queue without its first line.                                       *)
LEMMA NextOfQueue ==
    ASSUME NEW q \in Seq(Lines), q # <<>>
    PROVE  /\ Head(q) \in Lines /\ Head(q) = q[1] /\ Tail(q) \in Seq(Lines) /\ Len(q) >= 1
           /\ Len(Tail(q)) = Len(q) - 1
           /\ \A i \in 1 .. Len(Tail(q)) : i + 1 \in 1 .. Len(q) /\ Tail(q)[i] = q[i + 1]
OBVIOUS

(* The queue with one more line.                                           *)
LEMMA AppendToQueue ==
    ASSUME NEW q \in Seq(Lines), NEW l \in Lines
    PROVE  /\ Append(q, l) \in Seq(Lines) /\ Len(Append(q, l)) = Len(q) + 1 /\ Len(q) \in Nat
           /\ \A i \in 1 .. Len(q) : Append(q, l)[i] = q[i]
           /\ Append(q, l)[Len(q) + 1] = l
BY SMTT(30)

-----------------------------------------------------------------------------
(* Every step of the device is a step of the store or leaves it alone.     *)
LEMMA StoreSeesSteps == Next => [StoreNext]_storeVars
<1> SUFFICES ASSUME Next PROVE StoreNext \/ UNCHANGED storeVars
  OBVIOUS
<1>1. CASE process_set_command
  BY <1>1 DEF process_set_command, StoreNext, Contents
<1>2. CASE FlashStep \/ PowerLoss
  BY <1>2 DEF FlashStep, PowerLoss, StoreNext
<1> QED
  BY <1>1, <1>2
  DEF Next, Tick, physical_gate_task, provisioning_task, other_line, set_returned, reboot, loop_ends,
      HostOpens, HostCloses, HostSends

(* A boot, after REBOOT or a power cut, starts with nothing pending.       *)
LEMMA BootStep ==
    ASSUME NEW s, Boot(s), queue' \in Seq(Lines),
           dtr' \in BOOLEAN, tx'.pc = "idle", answer'.status = "OK" => answer'.content \in Credentials
    PROVE  DeviceInv'
<1>1. DeviceTypeInv'
  BY DEF Boot, Released, parser_reset, DeviceTypeInv, Parser, Gate
<1>2. GateInv' /\ UsbSessionInv' /\ SetInv'
  BY DEF Boot, Released, parser_reset, GateInv, UsbSessionInv, SetInv
<1> QED
  BY <1>1, <1>2 DEF DeviceInv

(* physical_gate_task: the gate, and the flush when it latches.            *)
LEMMA GateStep ==
    ASSUME DeviceInv, NEW pressed \in BOOLEAN, physical_gate_task(pressed)
    PROVE  DeviceInv'
<1>1. DeviceTypeInv /\ GateInv /\ UsbSessionInv /\ SetInv
  BY DEF DeviceInv
<1>2. /\ session = "INACTIVE" /\ gate.state # "LATCHED"
      /\ gate' = [state |-> observe(pressed), sampled |-> TRUE, last |-> now,
                  next |-> next_sample_deadline,
                  started |-> IF observe(pressed) = "IDLE" THEN 0
                              ELSE IF gate.state = "IDLE" THEN now ELSE gate.started]
      /\ lastUp' = (IF pressed THEN lastUp ELSE now)
      /\ UNCHANGED <<storeVars, now, loaded, dtr>>
      /\ \/ queue' = <<>> /\ parser' = parser_reset /\ session' \in {"WAIT_DISCONNECT", "WAIT_CONNECT"}
         \/ UNCHANGED <<queue, parser, session>>
  BY DEF physical_gate_task, sample_due, flushed
<1>3. next_sample_deadline \in Nat
  BY <1>1, TimingAssumption DEF next_sample_deadline, Min, DeviceTypeInv
<1>4. /\ observe(pressed) \in {"IDLE", "PRESS_PENDING", "LATCHED"}
      /\ observe(pressed) # "IDLE" => pressed
      /\ observe(pressed) = "LATCHED" => gate.state = "PRESS_PENDING" /\ now - gate.started >= Hold
  BY <1>1, <1>2 DEF observe, DeviceTypeInv, Gate
<1>5. DeviceTypeInv'
  <2>1. /\ gate' \in Gate
        /\ lastUp' \in Nat /\ lastUp' <= now' /\ now' \in Nat /\ dtr' \in BOOLEAN
    BY <1>1, <1>2, <1>3, <1>4 DEF DeviceTypeInv, Gate
  <2>2. parser_reset \in Parser
    BY DEF parser_reset, Parser
  <2>3. /\ parser' \in Parser
        /\ session' \in {"INACTIVE", "WAIT_DISCONNECT", "WAIT_CONNECT", "READY"}
    BY <1>1, <1>2, <2>2 DEF DeviceTypeInv
  <2>4. queue' \in Seq(Lines)
    BY <1>1, <1>2, EmptyQueue DEF DeviceTypeInv
  <2> QED
    BY <2>1, <2>3, <2>4 DEF DeviceTypeInv
<1>6. GateInv'
  BY <1>1, <1>2, <1>4 DEF DeviceTypeInv, GateInv, Gate
<1>7. UsbSessionInv' /\ SetInv'
  BY <1>1, <1>2 DEF UsbSessionInv, SetInv, storeVars, parser_reset
<1> QED
  BY <1>5, <1>6, <1>7 DEF DeviceInv

(* provisioning_task: the session, its flush and READY.                    *)
LEMMA TaskStep ==
    ASSUME DeviceInv, provisioning_task
    PROVE  DeviceInv'
<1>1. DeviceTypeInv /\ GateInv /\ UsbSessionInv /\ SetInv
  BY SMTT(30) DEF DeviceInv
<1>2. /\ UNCHANGED <<storeVars, now, gate, lastUp, loaded, dtr>> /\ session # "INACTIVE" /\ ~parser.reading
      /\ session' \in {"WAIT_CONNECT", "READY", session}
      /\ session' = "READY" => session = "READY" \/ queue' = <<>>
      /\ queue' \in {queue, <<>>}
  BY DEF provisioning_task, flushed
<1>3. \/ parser' = parser_reset
      \/ /\ session' = "READY"
         /\ \E sent \in BOOLEAN, was \in {parser, parser_reset} :
               parser' = [was EXCEPT !.ready_sent = @ \/ sent, !.reading = TRUE]
  BY DEF provisioning_task
<1>4. /\ parser' \in Parser /\ ~parser'.setting /\ ~parser.setting /\ tx.pc = "idle"
      /\ parser'.reading => session' = "READY"
      /\ parser'.provisioned => parser.provisioned
  <2>1. parser \in Parser /\ ~parser.setting /\ tx.pc = "idle"
    BY <1>1, <1>2 DEF DeviceTypeInv, UsbSessionInv, SetInv
  <2>2. CASE parser' = parser_reset
    BY <2>1, <2>2 DEF parser_reset, Parser
  <2>3. ASSUME NEW sent \in BOOLEAN, NEW was \in {parser, parser_reset}, session' = "READY",
               parser' = [was EXCEPT !.ready_sent = @ \/ sent, !.reading = TRUE]
        PROVE  <1>4!:
    <3>1. was \in Parser /\ ~was.setting /\ (was.provisioned => parser.provisioned)
      <4>1. CASE was = parser
        BY <2>1, <4>1
      <4>2. CASE was = parser_reset
        BY <4>2 DEF parser_reset, Parser
      <4> QED
        BY <4>1, <4>2
    <3> QED
      BY <2>1, <2>3, <3>1 DEF Parser
  <2> QED
    BY <1>3, <2>2, <2>3
<1>5. DeviceTypeInv'
  BY <1>1, <1>2, <1>4, EmptyQueue DEF DeviceTypeInv
<1>6. GateInv' /\ SetInv'
  BY <1>1, <1>2, <1>4 DEF GateInv, SetInv, storeVars
<1>7. UsbSessionInv'
  BY <1>1, <1>2, <1>4, EmptyQueue DEF UsbSessionInv
<1> QED
  BY <1>5, <1>6, <1>7 DEF DeviceInv

(* The lines of the queue, read one by one in an open session.             *)
LEMMA LineStep ==
    ASSUME DeviceInv, other_line \/ process_set_command
    PROVE  DeviceInv'
<1>1. DeviceTypeInv /\ GateInv /\ UsbSessionInv /\ SetInv
  BY DEF DeviceInv
<1>2. /\ queue # <<>> /\ queue' = Tail(queue) /\ UNCHANGED <<now, gate, lastUp, session, loaded, dtr>>
      /\ parser.reading /\ ~parser.setting
  BY DEF other_line, process_set_command, NextLine
<1>3. queue' \in Seq(Lines) /\ (session' = "READY" => \A i \in 1 .. Len(queue') : ~queue'[i].early)
  BY <1>1, <1>2, NextOfQueue DEF DeviceTypeInv, UsbSessionInv
<1>4. CASE other_line
  <2>1. parser' = [parser EXCEPT !.provisioned = FALSE] /\ UNCHANGED storeVars
    BY <1>4 DEF other_line
  <2>2. parser' \in Parser /\ parser'.reading /\ ~parser'.setting /\ ~parser'.provisioned
    BY <1>1, <1>2, <2>1 DEF DeviceTypeInv, Parser
  <2> QED
    BY <1>1, <1>2, <1>3, <2>1, <2>2 DEF DeviceInv, DeviceTypeInv, GateInv, UsbSessionInv, SetInv, storeVars
<1>5. CASE process_set_command
  <2>1. parser' = [parser EXCEPT !.setting = TRUE] /\ Head(queue).command \in Credentials
    BY <1>5 DEF process_set_command
  <2>2. parser' \in Parser /\ parser'.reading /\ parser'.setting
    BY <1>1, <1>2, <2>1 DEF DeviceTypeInv, Parser
  <2>3. /\ tx'.pc # "idle" => tx'.content \in Credentials
        /\ answer'.status # "OK"
    <3>1. write_transaction(Head(queue).command)
      BY <1>5 DEF process_set_command
    <3> QED
      BY <2>1, <3>1 DEF write_transaction, refusal, NoAnswer
  <2> QED
    BY <1>1, <1>2, <1>3, <2>2, <2>3 DEF DeviceInv, DeviceTypeInv, GateInv, UsbSessionInv, SetInv
<1> QED
  BY <1>4, <1>5

(* The answer to SET, and the steps of its transaction.                    *)
LEMMA SetStep ==
    ASSUME DeviceInv, FlashStep \/ \E sent \in BOOLEAN : set_returned(sent)
    PROVE  DeviceInv'
<1>1. DeviceTypeInv /\ GateInv /\ UsbSessionInv /\ SetInv
  BY DEF DeviceInv
<1>2. CASE FlashStep
  <2>1. parser.setting /\ StoreStep /\ UNCHANGED <<deviceVars, dtr, queue>>
    BY <1>2 DEF FlashStep
  <2>2. tx.pc # "idle" /\ tx.content \in Credentials
    BY <1>1, <2>1 DEF SetInv, StoreStep, erase, program, readback, commit, verify
  <2>3. \/ \E status \in {"IO", "OK"} : Complete(status)
        \/ \E pc \in {"program", "readback", "commit", "verify"} :
             tx' = [tx EXCEPT !.pc = pc] /\ UNCHANGED answer
    BY <2>1 DEF StoreStep, erase, program, readback, commit, verify, verified
  <2>4. /\ tx'.pc # "idle" => tx'.content \in Credentials
        /\ answer'.status = "OK" => answer'.content \in Credentials
    <3>1. CASE \E status \in {"IO", "OK"} : Complete(status)
      BY <2>2, <3>1 DEF Complete, NoTransaction
    <3>2. ASSUME NEW pc \in {"program", "readback", "commit", "verify"},
                 tx' = [tx EXCEPT !.pc = pc], UNCHANGED answer
          PROVE  tx'.content \in Credentials /\ answer' = answer
      <4>1. tx'.content = tx.content
        BY <3>2
      <4> QED
        BY <2>2, <3>2, <4>1
    <3> QED
      BY <1>1, <2>3, <3>1, <3>2 DEF SetInv
  <2> QED
    BY <1>1, <2>1, <2>4 DEF DeviceInv, DeviceTypeInv, GateInv, UsbSessionInv, SetInv, deviceVars
<1>3. ASSUME NEW sent \in BOOLEAN, set_returned(sent) PROVE DeviceInv'
  <2>1. /\ tx.pc = "idle" /\ parser' = [parser EXCEPT !.setting = FALSE, !.provisioned = provisions(sent)]
        /\ UNCHANGED <<storeVars, now, gate, lastUp, session, loaded, dtr, queue>>
    BY <1>3 DEF set_returned
  <2>2. parser' \in Parser /\ ~parser'.setting /\ (parser'.provisioned => answer.status = "OK")
        /\ (parser'.reading => parser.reading)
    BY <1>1, <1>3, <2>1 DEF DeviceTypeInv, Parser, provisions
  <2> QED
    BY <1>1, <2>1, <2>2, ZenonT(30) DEF DeviceInv, DeviceTypeInv, GateInv, UsbSessionInv, SetInv, storeVars
<1> QED
  BY <1>2, <1>3

(* The clock, the end of the loop and the USB host.                        *)
LEMMA OtherStep ==
    ASSUME DeviceInv, Tick \/ loop_ends \/ HostOpens \/ HostCloses \/ \E c \in Commands : HostSends(c)
    PROVE  DeviceInv'
<1>1. DeviceTypeInv /\ GateInv /\ UsbSessionInv /\ SetInv
  BY DEF DeviceInv
<1>2. UNCHANGED storeVars
  BY DEF Tick, loop_ends, HostOpens, HostCloses, HostSends
<1>3. CASE Tick \/ HostOpens \/ HostCloses
  <2>1. /\ UNCHANGED <<gate, lastUp, session, parser, queue>>
        /\ now' \in {now, now + 1} /\ dtr' \in BOOLEAN
    BY <1>1, <1>3 DEF Tick, HostOpens, HostCloses, deviceVars, DeviceTypeInv
  <2>2. DeviceTypeInv'
    BY <1>1, <2>1 DEF DeviceTypeInv
  <2> QED
    BY <1>1, <1>2, <2>1, <2>2 DEF storeVars, DeviceInv, GateInv, UsbSessionInv, SetInv
<1>4. CASE loop_ends
  <2>1. /\ ~parser.setting /\ parser' = [parser EXCEPT !.reading = FALSE]
        /\ UNCHANGED <<now, gate, lastUp, session, loaded, dtr, queue>>
    BY <1>4 DEF loop_ends
  <2>2. parser' \in Parser /\ ~parser'.reading /\ ~parser'.setting
        /\ (parser'.provisioned => parser.provisioned)
    BY <1>1, <2>1 DEF DeviceTypeInv, Parser
  <2> QED
    BY <1>1, <1>2, <2>1, <2>2 DEF DeviceInv, DeviceTypeInv, GateInv, UsbSessionInv, SetInv, storeVars
<1>5. ASSUME NEW c \in Commands, HostSends(c) PROVE DeviceInv'
  <2>1. queue' = Append(queue, Line(c)) /\ UNCHANGED <<deviceVars, dtr>>
    BY <1>5 DEF HostSends
  <2>2. Line(c) \in Lines /\ (session = "READY" => ~Line(c).early)
    BY <1>5 DEF Line, Lines
  <2>3. queue' \in Seq(Lines)
    BY <1>1, <2>1, <2>2, AppendToQueue DEF DeviceTypeInv
  <2>4. session = "READY" => \A i \in 1 .. Len(queue') : ~queue'[i].early
    <3> SUFFICES ASSUME session = "READY", NEW i \in 1 .. Len(queue') PROVE ~queue'[i].early
      OBVIOUS
    <3>1. \/ i \in 1 .. Len(queue) /\ queue'[i] = queue[i]
          \/ queue'[i] = Line(c)
      BY <1>1, <2>1, <2>2, AppendToQueue DEF DeviceTypeInv
    <3> QED
      BY <1>1, <2>2, <3>1 DEF UsbSessionInv
  <2> QED
    BY <1>1, <1>2, <2>1, <2>3, <2>4
    DEF deviceVars, storeVars, DeviceInv, DeviceTypeInv, GateInv, UsbSessionInv, SetInv
<1> QED
  BY <1>3, <1>4, <1>5

(* Every step of the device.                                               *)
LEMMA DeviceStep ==
    ASSUME StoreInv, DeviceInv, Next
    PROVE  DeviceInv'
<1>1. CASE reboot
  <2>1. /\ Boot(sector) /\ UNCHANGED <<storeVars, dtr>> /\ queue # <<>> /\ queue' = Tail(queue)
        /\ ~parser.setting
    BY <1>1 DEF reboot, NextLine
  <2>2. queue' \in Seq(Lines) /\ dtr' \in BOOLEAN /\ tx'.pc = "idle"
        /\ (answer'.status = "OK" => answer'.content \in Credentials)
    BY <2>1, NextOfQueue DEF DeviceInv, DeviceTypeInv, SetInv, storeVars
  <2> QED
    BY <2>1, <2>2, BootStep
<1>2. CASE PowerLoss
  <2>1. Boot(sector') /\ dtr' = FALSE /\ queue' = <<>> /\ tx' = NoTransaction /\ answer' = NoAnswer
    BY <1>2 DEF PowerLoss, StorePowerCut
  <2>2. tx'.pc = "idle" /\ answer'.status # "OK" /\ queue' \in Seq(Lines)
    BY <2>1, EmptyQueue DEF NoTransaction, NoAnswer
  <2> QED
    BY <2>1, <2>2, BootStep
<1> QED
  BY <1>1, <1>2, GateStep, TaskStep, LineStep, SetStep, OtherStep DEF Next

(* The first boot.                                                         *)
LEMMA DeviceStart == Init => StoreInv /\ DeviceInv
<1> SUFFICES ASSUME Init PROVE StoreInv /\ DeviceInv
  OBVIOUS
<1>1. StoreInv
  BY StoreStart DEF Init
<1>2. DeviceTypeInv
  <2>1. Released \in Gate /\ parser_reset \in Parser
    BY DEF Released, parser_reset, Gate, Parser
  <2>2. now \in Nat /\ lastUp \in Nat /\ lastUp <= now
    BY DEF Init
  <2>3. gate \in Gate /\ parser \in Parser /\ dtr \in BOOLEAN /\ session = "INACTIVE"
    BY <2>1 DEF Init
  <2>4. queue \in Seq(Lines)
    BY EmptyQueue DEF Init
  <2> QED
    BY <2>2, <2>3, <2>4 DEF DeviceTypeInv
<1>3. GateInv /\ UsbSessionInv /\ SetInv
  BY DEF Init, StoreInit, NoTransaction, NoAnswer, Released, parser_reset, GateInv, UsbSessionInv, SetInv
<1> QED
  BY <1>1, <1>2, <1>3 DEF DeviceInv

-----------------------------------------------------------------------------
(* The results                                                             *)

(* The invariants of store and device hold together.                       *)
THEOREM DeviceInvariance == Spec => [](StoreInv /\ DeviceInv)
<1>1. StoreInv /\ DeviceInv /\ [Next]_vars => StoreInv' /\ DeviceInv'
  <2> SUFFICES ASSUME StoreInv, DeviceInv, [Next]_vars PROVE StoreInv' /\ DeviceInv'
    OBVIOUS
  <2>1. StoreInv'
    BY AnyStep, StoreSeesSteps DEF vars
  <2>2. CASE UNCHANGED vars
    BY <2>1, <2>2
    DEF vars, deviceVars, storeVars, DeviceInv, DeviceTypeInv, GateInv, UsbSessionInv, SetInv
  <2> QED
    BY <2>1, <2>2, DeviceStep
<1> QED
  BY <1>1, DeviceStart, PTL DEF Spec

(* Only a press held for the whole hold time opens provisioning, and only  *)
(* lines sent to the session it opened are read (physical_gate_task,       *)
(* provisioning_task).                                                     *)
THEOREM ProvisioningIsDeliberateAlways == Spec => []ProvisioningIsDeliberate
<1>1. DeviceInv => ProvisioningIsDeliberate
  BY TimingAssumption DEF DeviceInv, DeviceTypeInv, Gate, GateInv, UsbSessionInv, ProvisioningIsDeliberate
<1> QED
  BY <1>1, DeviceInvariance, PTL

(* Whenever REBOOT is obeyed the next boot loads the record of the last    *)
(* SET (process_line, pbns_credentials_load).                              *)
THEOREM RebootLoadsTheLastSetAlways == Spec => []RebootLoadsTheLastSet
<1>1. StoreInv /\ DeviceInv => RebootLoadsTheLastSet
  <2> SUFFICES ASSUME StoreInv, DeviceInv, parser.provisioned, ~parser.setting
               PROVE  Load(sector) = [status |-> "OK", content |-> answer.content]
    BY DEF RebootLoadsTheLastSet
  <2>1. answer.status = "OK" /\ answer.content # Tombstone
    BY CredentialsAssumption DEF DeviceInv, SetInv, Tombstone
  <2>2. /\ latest_slot(sector) \in Sectors
        /\ sector[latest_slot(sector)].data.data.content = answer.content
    BY <2>1 DEF StoreInv, AnswerInv
  <2> QED
    BY <2>1, <2>2 DEF Load, Sectors, None, Ambiguous
<1> QED
  BY <1>1, DeviceInvariance, PTL

(* The composed device implements the atomic cell as well: what runs       *)
(* around the transactions does not disturb them.                          *)
THEOREM DeviceImplementsCell == Spec => ImplementsCell
<1>1. StoreInv /\ [Next]_vars => [Cell!Next]_(Cell!vars)
  <2> SUFFICES ASSUME StoreInv, [Next]_vars PROVE CellStep
    BY DEF CellStep
  <2> QED
    BY AnyStep, StoreSeesSteps DEF vars
<1>2. Init => Cell!Init
  BY StoreStart DEF Init
<1> QED
  BY <1>1, <1>2, DeviceInvariance, PTL DEF Spec, ImplementsCell, Cell!Spec

-----------------------------------------------------------------------------
(***************************************************************************)
(* The host's broker, for sessions of any number of records and any        *)
(* window.  The invariant ties the fields of an active session to the      *)
(* length of its log and to the frames the log cannot hold yet; it is what *)
(* makes every frame sent next the right one.                              *)
(***************************************************************************)
Fields == Flags \cup Counters

BrokerRecord(b) ==
  /\ b = [f \in Fields |-> b[f]]
  /\ \A f \in Flags : b[f] \in BOOLEAN
  /\ \A f \in Counters : b[f] \in Nat

BrokerTypes == BrokerRecord(broker) /\ transport \in [open : BOOLEAN, cancels : {0, 1}]

Frames == [type : {"REQUEST", "DATA", "COMPLETE", "ACK", "CANCEL"}, sequence : Nat]

(* A log the peer can rely on, whether or not its session goes on.         *)
Lacks(log, type) == \A i \in 1 .. Len(log) : log[i].type # type

Orderly(log) ==
  /\ log \in Seq(Frames)
  /\ \A i \in 1 .. Len(log) :
       /\ IF i = 1 THEN log[i].type \in {"REQUEST", "CANCEL"} ELSE log[i].type # "REQUEST"
       /\ log[i].type \in {"DATA", "COMPLETE", "ACK"} => log[i].sequence = i - 2
       /\ log[i].type = "CANCEL" => i = Len(log)
       /\ log[i].type = "COMPLETE" => \A j \in 1 .. Len(log) : log[j].type = "DATA" => j < i

(* What the fields of an active session say of its log.                    *)
Going ==
  /\ broker.initialized /\ transport.cancels = 0 /\ Lacks(wire, "CANCEL") /\ Len(wire) >= 1
  /\ broker.bulk_mode /\ ~ broker.bulk_failed => Len(wire) = broker.acks + 1
  /\ broker.upload_mode /\ ~ broker.bulk_mode => Len(wire) = broker.upload_next + 1 /\ Lacks(wire, "COMPLETE")
  /\ broker.response_received => ~ Lacks(wire, "COMPLETE")

SessionInv ==
  /\ broker.active => Going
  /\ result.call = "upload_finish" /\ result.status # "STATE" => ~ Lacks(wire, "COMPLETE")

BrokerInv == BrokerTypes /\ NothingLeaks /\ Orderly(wire) /\ SessionInv

-----------------------------------------------------------------------------
(* A frame that is put behind a log with no CANCEL.                        *)
LEMMA AppendOrderly ==
  ASSUME NEW log, Orderly(log), Lacks(log, "CANCEL"), NEW f \in Frames,
         \/ f.type = "CANCEL"
         \/ f.type \in {"DATA", "COMPLETE", "ACK"} /\ Len(log) >= 1 /\ f.sequence = Len(log) - 1,
         f.type = "DATA" => Lacks(log, "COMPLETE")
  PROVE  /\ Orderly(Append(log, f)) /\ Len(Append(log, f)) = Len(log) + 1
         /\ \A type : f.type # type /\ Lacks(log, type) => Lacks(Append(log, f), type)
         /\ ~ Lacks(Append(log, f), f.type) /\ \A type : ~ Lacks(log, type) => ~ Lacks(Append(log, f), type)
<1> DEFINE all == Append(log, f)
<1>1. log \in Seq(Frames) /\ Len(log) \in Nat
  BY DEF Orderly
<1>2. all \in Seq(Frames) /\ Len(all) = Len(log) + 1 /\ all[Len(log) + 1] = f
  BY <1>1
<1>3. \A i \in 1 .. Len(log) : all[i] = log[i]
  BY <1>1
<1>4. \A i \in 1 .. Len(all) : i \in 1 .. Len(log) \/ i = Len(log) + 1
  BY <1>1, <1>2
<1> HIDE DEF all
<1>5. ASSUME NEW type, f.type # type, Lacks(log, type) PROVE Lacks(all, type)
  BY <1>2, <1>3, <1>4, <1>5 DEF Lacks
<1>6. ~ Lacks(all, f.type)
  BY <1>1, <1>2 DEF Lacks
<1>7. ASSUME NEW i \in 1 .. Len(all)
      PROVE  /\ IF i = 1 THEN all[i].type \in {"REQUEST", "CANCEL"} ELSE all[i].type # "REQUEST"
             /\ all[i].type \in {"DATA", "COMPLETE", "ACK"} => all[i].sequence = i - 2
             /\ all[i].type = "CANCEL" => i = Len(all)
  <2>1. CASE i \in 1 .. Len(log)
    BY <1>3, <2>1 DEF Orderly, Lacks
  <2>2. CASE i = Len(log) + 1
    BY <1>1, <1>2, <2>2
  <2> QED
    BY <1>4, <2>1, <2>2, Zenon
<1>8. ASSUME NEW i \in 1 .. Len(all), all[i].type = "COMPLETE", NEW j \in 1 .. Len(all), all[j].type = "DATA"
      PROVE  j < i
  <2>1. CASE i \in 1 .. Len(log)
    <3>1. log[i].type = "COMPLETE"
      BY <1>3, <1>8, <2>1
    <3>2. j \in 1 .. Len(log)
      BY <1>2, <1>4, <1>8, <2>1, <3>1 DEF Lacks
    <3>3. log[j].type = "DATA"
      BY <1>3, <1>8, <3>2
    <3> QED
      BY <2>1, <3>1, <3>2, <3>3 DEF Orderly
  <2>2. CASE i = Len(log) + 1
    <3>1. j # i
      BY <1>8, Zenon
    <3> QED
      BY <1>1, <1>4, <2>2, <3>1
  <2> QED
    BY <1>4, <2>1, <2>2
<1>9. Orderly(all)
  BY <1>2, <1>7, <1>8 DEF Orderly
<1>10. ASSUME NEW type, ~ Lacks(log, type) PROVE ~ Lacks(all, type)
  BY <1>1, <1>2, <1>3, <1>10 DEF Lacks
<1> QED
  BY <1>2, <1>5, <1>6, <1>9, <1>10 DEF all

LEMMA FrameFacts ==
  ASSUME NEW type \in {"REQUEST", "DATA", "COMPLETE", "ACK", "CANCEL"}, NEW n \in Nat
  PROVE  WireFrame(type, n) \in Frames /\ WireFrame(type, n).type = type /\ WireFrame(type, n).sequence = n
BY Zenon DEF WireFrame, Frames

LEMMA StartOrderly ==
  /\ Orderly(<<>>) /\ Lacks(<<>>, "CANCEL")
  /\ Orderly(REQUEST) /\ Len(REQUEST) = 1
  /\ \A type : type # "REQUEST" => Lacks(REQUEST, type)
<1>1. REQUEST \in Seq(Frames) /\ Len(REQUEST) = 1 /\ REQUEST[1].type = "REQUEST"
  BY DEF REQUEST, WireFrame, Frames
<1>2. Orderly(REQUEST) /\ \A type : type # "REQUEST" => Lacks(REQUEST, type)
  BY <1>1 DEF Orderly, Lacks
<1> QED
  BY <1>1, <1>2 DEF Orderly, Lacks

LEMMA CancelOrderly ==
  ASSUME NEW log, Orderly(log), Lacks(log, "CANCEL"), NEW sent \in MaybeSent(log, WireFrame("CANCEL", 1))
  PROVE  Orderly(sent)
<1>1. WireFrame("CANCEL", 1) \in Frames /\ WireFrame("CANCEL", 1).type = "CANCEL"
  BY DEF WireFrame, Frames
<1>2. Orderly(Append(log, WireFrame("CANCEL", 1)))
  BY <1>1, AppendOrderly
<1> QED
  BY <1>2, Zenon DEF MaybeSent

-----------------------------------------------------------------------------
LEMMA ZeroFacts ==
  /\ BrokerRecord(Zero) /\ Zero.active = FALSE /\ Zero.opened = FALSE
  /\ BrokerRecord(Idle) /\ Idle.active = FALSE /\ Idle.opened = FALSE
  /\ BrokerRecord(Opened) /\ Opened.initialized = TRUE /\ Opened.active = TRUE /\ Opened.opened = TRUE
  /\ \A f \in Fields \ {"initialized", "opened", "active"} : Opened[f] = IF f \in Flags THEN FALSE ELSE 0
<1>1. BrokerRecord(Zero) /\ \A f \in Fields : Zero[f] = IF f \in Flags THEN FALSE ELSE 0
  <2>1. \A f \in Fields : Zero[f] = IF f \in Flags THEN FALSE ELSE 0
    BY DEF Zero, Fields
  <2>2. \A f \in Counters : f \notin Flags
    BY DEF Counters, Flags
  <2>3. Zero = [f \in Fields |-> Zero[f]]
    BY Zenon DEF Zero, Fields
  <2>4. \A f \in Flags : Zero[f] = FALSE
    BY <2>1, Zenon DEF Fields
  <2>5. \A f \in Counters : Zero[f] = 0
    BY <2>1, <2>2, Zenon DEF Fields
  <2>6. \A f \in Flags : Zero[f] \in BOOLEAN
    BY <2>4, Zenon
  <2>7. BrokerRecord(Zero)
    BY <2>3, <2>5, <2>6 DEF BrokerRecord
  <2> QED
    BY <2>1, <2>7, Zenon
<1>2. "initialized" \in Flags /\ "opened" \in Flags /\ "active" \in Flags
  BY DEF Flags
<1>3. "initialized" \in Fields /\ "opened" \in Fields /\ "active" \in Fields
  BY <1>2 DEF Fields
<1>4. \A f \in Counters : f \notin {"initialized", "opened", "active"}
  BY DEF Counters
<1>5. Idle = [f \in Fields |-> IF f = "initialized" THEN TRUE ELSE Zero[f]]
  BY <1>1, <1>3, Zenon DEF Idle, BrokerRecord
<1>6. Opened = [f \in Fields |-> IF f \in {"initialized", "opened", "active"} THEN TRUE ELSE Zero[f]]
  BY <1>3, <1>5, Zenon DEF Opened
<1>7. \A f \in Flags : f \in Fields
  BY DEF Fields
<1>8. \A f \in Counters : f \in Fields
  BY DEF Fields
<1>9. BrokerRecord(Idle)
  BY <1>1, <1>4, <1>5, <1>7, <1>8, Zenon DEF BrokerRecord
<1>10. BrokerRecord(Opened)
  BY <1>1, <1>4, <1>6, <1>7, <1>8, Zenon DEF BrokerRecord
<1>11. Zero.active = FALSE /\ Zero.opened = FALSE /\ Idle.active = FALSE /\ Idle.opened = FALSE
  BY <1>1, <1>2, <1>3, <1>5, Zenon
<1> QED
  BY <1>1, <1>3, <1>6, <1>9, <1>10, <1>11, Zenon

(* Only the field f differs.                                               *)
Only(f, b, c) == \A g \in Fields \ {f} : c[g] = b[g]

(* A field is set.                                                         *)
LEMMA SetFlag ==
  ASSUME NEW b, BrokerRecord(b), NEW f \in Flags, NEW c, c = [b EXCEPT ![f] = TRUE]
  PROVE  BrokerRecord(c) /\ c[f] /\ Only(f, b, c)
<1>1. f \in Fields /\ (\A g \in Counters : g # f) /\ (\A g \in Flags : g \in Fields) /\ \A g \in Counters : g \in Fields
  BY DEF Fields, Flags, Counters
<1>2. c = [g \in Fields |-> IF g = f THEN TRUE ELSE b[g]]
  BY <1>1, Zenon DEF BrokerRecord
<1>3. c = [g \in Fields |-> c[g]]
  BY <1>2, Zenon
<1>4. c[f] = TRUE /\ \A g \in Fields \ {f} : c[g] = b[g]
  BY <1>1, <1>2, Zenon
<1>5. \A g \in Flags : c[g] \in BOOLEAN
  BY <1>1, <1>4, Zenon DEF BrokerRecord
<1>6. \A g \in Counters : c[g] \in Nat
  BY <1>1, <1>4, Zenon DEF BrokerRecord
<1> QED
  BY <1>3, <1>4, <1>5, <1>6, Zenon DEF BrokerRecord, Only

LEMMA SetCounter ==
  ASSUME NEW b, BrokerRecord(b), NEW f \in Counters, NEW v \in Nat, NEW c, c = [b EXCEPT ![f] = v]
  PROVE  BrokerRecord(c) /\ c[f] = v /\ Only(f, b, c)
<1>1. f \in Fields /\ (\A g \in Flags : g # f) /\ (\A g \in Flags : g \in Fields) /\ \A g \in Counters : g \in Fields
  BY DEF Fields, Flags, Counters
<1>2. c = [g \in Fields |-> IF g = f THEN v ELSE b[g]]
  BY <1>1 DEF BrokerRecord
<1>3. c = [g \in Fields |-> c[g]]
  BY <1>2, Zenon
<1>4. c[f] = v /\ \A g \in Fields \ {f} : c[g] = b[g]
  BY <1>1, <1>2
<1>5. \A g \in Flags : c[g] \in BOOLEAN
  BY <1>1, <1>4, Zenon DEF BrokerRecord
<1>6. \A g \in Counters : c[g] \in Nat
  BY <1>1, <1>4 DEF BrokerRecord
<1> QED
  BY <1>3, <1>4, <1>5, <1>6 DEF BrokerRecord, Only

(* The session goes on, with what its log depends on as it was.            *)
Steady == {"initialized", "active", "opened", "bulk_mode", "upload_mode", "response_received", "acks", "upload_next"}

LEMMA GoesOn ==
  ASSUME BrokerInv, BrokerRecord(broker'), \A f \in Steady : broker'[f] = broker[f],
         broker.bulk_failed => broker'.bulk_failed, UNCHANGED <<transport, wire>>,
         result'.call # "upload_finish" \/ result'.status = "STATE"
  PROVE  BrokerInv'
<1>1. /\ broker'.initialized = broker.initialized
      /\ broker'.active = broker.active /\ broker'.opened = broker.opened /\ broker'.bulk_mode = broker.bulk_mode
      /\ broker'.upload_mode = broker.upload_mode /\ broker'.response_received = broker.response_received
      /\ broker'.acks = broker.acks /\ broker'.upload_next = broker.upload_next
  BY DEF Steady
<1>2. BrokerTypes' /\ NothingLeaks' /\ Orderly(wire)'
  BY <1>1 DEF BrokerInv, BrokerTypes, NothingLeaks
<1>3. Going => Going'
  BY <1>1 DEF Going
<1>4. SessionInv'
  BY <1>1, <1>3 DEF BrokerInv, SessionInv
<1> QED
  BY <1>2, <1>4 DEF BrokerInv

LEMMA RefuseKeeps ==
  ASSUME BrokerInv, NEW name, NEW status, Refuse(name, status), name # "upload_finish" \/ status = "STATE"
  PROVE  BrokerInv'
<1>1. UNCHANGED <<broker, transport, wire>> /\ result'.call = name /\ result'.status = status
  BY DEF Refuse, Returns
<1>2. BrokerRecord(broker')
  BY <1>1 DEF BrokerInv, BrokerTypes
<1> QED
  BY <1>1, <1>2, GoesOn

(* A session is over, or there was none.                                   *)
LEMMA OverKeeps ==
  ASSUME BrokerInv, BrokerRecord(broker'), broker'.active = FALSE, broker'.opened = FALSE,
         transport' \in [open : BOOLEAN, cancels : {0, 1}], transport'.open = FALSE, Orderly(wire'),
         result'.call = "upload_finish" /\ result'.status # "STATE" => ~ Lacks(wire', "COMPLETE")
  PROVE  BrokerInv'
<1>1. BrokerTypes' /\ NothingLeaks'
  BY Zenon DEF BrokerTypes, NothingLeaks
<1>2. SessionInv'
  BY DEF SessionInv
<1> QED
  BY <1>1, <1>2 DEF BrokerInv

LEMMA FinishSessionKeeps ==
  ASSUME BrokerInv, NEW log, NEW payload, NEW cancels \in {0, 1}, finish_session(log, payload, cancels), Orderly(log),
         result'.call = "upload_finish" /\ result'.status # "STATE" => ~ Lacks(log, "COMPLETE")
  PROVE  BrokerInv'
<1>1. broker' = Idle /\ transport' = [open |-> FALSE, cancels |-> cancels] /\ wire' = log
  BY DEF finish_session
<1>2. BrokerRecord(broker') /\ broker'.active = FALSE /\ broker'.opened = FALSE
  BY <1>1, ZeroFacts
<1>3. transport' \in [open : BOOLEAN, cancels : {0, 1}] /\ transport'.open = FALSE
  BY <1>1
<1> QED
  BY <1>1, <1>2, <1>3, OverKeeps, Zenon

LEMMA AbortKeeps ==
  ASSUME BrokerInv, NEW log, Abort(log, 0), Orderly(log), Lacks(log, "CANCEL"), result'.call # "upload_finish"
  PROVE  BrokerInv'
<1>1. PICK sent \in MaybeSent(log, WireFrame("CANCEL", 1)) : finish_session(sent, 0, 0 + 1)
  BY DEF Abort
<1>2. Orderly(sent) /\ finish_session(sent, 0, 1)
  BY <1>1, CancelOrderly
<1> QED
  BY <1>2, FinishSessionKeeps

-----------------------------------------------------------------------------
(* Starting and ending.                                                    *)
LEMMA IdleFacts ==
  ASSUME BrokerInv, ~ broker.active
  PROVE  BrokerRecord(broker) /\ ~ broker.opened /\ transport.open = FALSE /\ broker.active = FALSE /\ broker.opened = FALSE
<1>1. broker.active \in BOOLEAN /\ broker.opened \in BOOLEAN /\ transport.open \in BOOLEAN
  BY DEF BrokerInv, BrokerTypes, BrokerRecord, Flags
<1> QED
  BY <1>1, Zenon DEF BrokerInv, BrokerTypes, NothingLeaks

LEMMA NoneStarted ==
  ASSUME BrokerInv, NEW name \in {"request", "bulk_begin", "upload_begin"}, Refused(name) \/ NotOpened(name) \/ NotSent(name)
  PROVE  BrokerInv'
<1>1. CASE Refused(name)
  BY <1>1, RefuseKeeps DEF Refused
<1>2. CASE NotOpened(name)
  <2>1. BrokerRecord(broker') /\ UNCHANGED <<broker, transport, wire>> /\ result'.call # "upload_finish"
    BY <1>2 DEF NotOpened, Returns, BrokerInv, BrokerTypes
  <2> QED
    BY <2>1, GoesOn
<1>3. CASE NotSent(name)
  <2>1. PICK log \in {<<>>, REQUEST} : finish_session(log, 0, 0) \/ Abort(log, 0)
    BY <1>3 DEF NotSent
  <2>2. Orderly(log) /\ Lacks(log, "CANCEL")
    BY StartOrderly
  <2>3. result'.call # "upload_finish"
    BY <1>3 DEF NotSent, Returns
  <2> QED
    BY <2>1, <2>2, <2>3, AbortKeeps, FinishSessionKeeps
<1> QED
  BY <1>1, <1>2, <1>3

LEMMA RequestKeeps ==
  ASSUME BrokerInv, Request
  PROVE  BrokerInv'
<1>1. result'.call # "upload_finish"
  BY DEF Request, Returns
<1>2. Orderly(REQUEST) /\ Lacks(REQUEST, "CANCEL")
  BY StartOrderly
<1>3. (\E payload : finish_session(REQUEST, payload, 0)) \/ Abort(REQUEST, 0)
  BY DEF Request
<1> QED
  BY <1>1, <1>2, <1>3, AbortKeeps, FinishSessionKeeps

LEMMA StartKeeps ==
  ASSUME BrokerInv, BulkBegin \/ UploadBegin
  PROVE  BrokerInv'
<1>1. /\ transport' = [open |-> TRUE, cancels |-> 0] /\ wire' = REQUEST /\ result'.call # "upload_finish"
  <2>1. PICK name \in {"bulk_begin", "upload_begin"} : \E fields : Start(name, fields)
    BY Zenon DEF BulkBegin, UploadBegin
  <2>2. PICK fields : Start(name, fields)
    BY <2>1
  <2> QED
    BY <2>1, <2>2 DEF Start, Returns
<1>2. PICK n \in Nat, bulk \in BOOLEAN :
        broker' = [f \in Fields |-> IF bulk /\ f = "exact" THEN n
                                    ELSE IF f = (IF bulk THEN "bulk_mode" ELSE "upload_mode") THEN TRUE ELSE Opened[f]]
  <2>1. CASE BulkBegin
    <3>1. PICK n \in 1 .. MaxData : Start("bulk_begin", [bulk_mode |-> TRUE, exact |-> n])
      BY <2>1, Zenon DEF BulkBegin
    <3>2. /\ DOMAIN [bulk_mode |-> TRUE, exact |-> n] = {"bulk_mode", "exact"}
          /\ [bulk_mode |-> TRUE, exact |-> n]["bulk_mode"] = TRUE /\ [bulk_mode |-> TRUE, exact |-> n]["exact"] = n
      OBVIOUS
    <3>3. broker' = [f \in Fields |-> IF f = "exact" THEN n ELSE IF f = "bulk_mode" THEN TRUE ELSE Opened[f]]
      BY <3>1, <3>2, Zenon DEF Start, Fields
    <3>4. n \in Nat
      BY BrokerAssumption
    <3> QED
      BY <3>3, <3>4, Zenon
  <2>2. CASE UploadBegin
    <3>1. /\ DOMAIN [upload_mode |-> TRUE] = {"upload_mode"} /\ [upload_mode |-> TRUE]["upload_mode"] = TRUE
      OBVIOUS
    <3>2. broker' = [f \in Fields |-> IF f = "upload_mode" THEN TRUE ELSE Opened[f]]
      BY <2>2, <3>1, Zenon DEF UploadBegin, Start, Fields
    <3> QED
      BY <3>2, Zenon
  <2> QED
    BY <2>1, <2>2, Zenon
<1> DEFINE mode == IF bulk THEN "bulk_mode" ELSE "upload_mode"
<1>3. /\ \A f \in Fields \ {"exact", mode} : broker'[f] = Opened[f]
      /\ broker'[mode] = TRUE /\ broker'.exact \in Nat
  <2>1. "exact" \in Fields /\ mode \in Fields /\ mode # "exact" /\ Opened["exact"] \in Nat
    BY ZeroFacts DEF Fields, Flags, Counters, BrokerRecord
  <2> QED
    BY <1>2, <2>1, Zenon
<1>4. BrokerRecord(broker')
  <2>1. broker' = [f \in Fields |-> broker'[f]]
    BY <1>2
  <2>2. \A f \in Counters : broker'[f] \in Nat
    <3>1. \A f \in Counters : f # mode /\ f \in Fields
      BY DEF Counters, Fields
    <3> QED
      BY <1>3, <3>1, ZeroFacts DEF BrokerRecord
  <2>3. \A f \in Flags : broker'[f] \in BOOLEAN
    <3>1. \A f \in Flags : f # "exact" /\ f \in Fields
      BY DEF Flags, Fields
    <3> QED
      BY <1>3, <3>1, ZeroFacts, Zenon DEF BrokerRecord
  <2> QED
    BY <2>1, <2>2, <2>3 DEF BrokerRecord
<1>5. /\ broker'.active = TRUE /\ broker'.opened = TRUE /\ broker'.initialized = TRUE
      /\ ~ broker'.response_received /\ broker'.acks = 0 /\ broker'.upload_next = 0
  <2>1. /\ "active" \in Fields \ {"exact", mode} /\ "opened" \in Fields \ {"exact", mode} /\ "initialized" \in Fields \ {"exact", mode}
        /\ "response_received" \in Fields \ {"exact", mode} /\ "acks" \in Fields \ {"exact", mode}
        /\ "upload_next" \in Fields \ {"exact", mode} /\ "response_received" \in Flags /\ "acks" \notin Flags /\ "upload_next" \notin Flags
    BY DEF Fields, Flags, Counters
  <2> HIDE DEF mode
  <2> QED
    BY <1>3, <2>1, ZeroFacts, Zenon
<1>6. BrokerTypes' /\ NothingLeaks' /\ Orderly(wire)'
  BY <1>1, <1>4, <1>5, StartOrderly, Zenon DEF BrokerTypes, NothingLeaks
<1>7. Going'
  BY <1>1, <1>5, StartOrderly DEF Going
<1>8. SessionInv'
  BY <1>1, <1>7 DEF SessionInv
<1> QED
  BY <1>6, <1>8 DEF BrokerInv

LEMMA EndKeeps ==
  ASSUME BrokerInv, Initialize \/ Reset \/ Cancel
  PROVE  BrokerInv'
<1>1. Orderly(wire) /\ transport \in [open : BOOLEAN, cancels : {0, 1}]
  BY DEF BrokerInv, BrokerTypes
<1>2. ASSUME broker.active PROVE Going
  BY <1>2 DEF BrokerInv, SessionInv
<1>3. CASE Initialize
  <2>1. ~ broker.active
    BY <1>2, <1>3 DEF Initialize, Going
  <2>2. broker' = Idle /\ UNCHANGED <<transport, wire>> /\ result'.call # "upload_finish"
    BY <1>3 DEF Initialize, Returns
  <2>3. transport.open = FALSE
    BY <2>1, IdleFacts, Zenon
  <2> QED
    BY <1>1, <2>2, <2>3, ZeroFacts, OverKeeps, Zenon
<1>4. CASE Reset
  <2>1. broker' = Zero /\ result'.call # "upload_finish"
    BY <1>4 DEF Reset, Returns
  <2>2. CASE broker.active
    <3>1. transport' = [open |-> FALSE, cancels |-> transport.cancels + 1] /\ transport.cancels = 0
      BY <1>2, <1>4, <2>2 DEF Reset, Going
    <3>2. Orderly(wire')
      BY <1>1, <1>2, <1>4, <2>2, CancelOrderly DEF Reset, Going
    <3>3. transport' \in [open : BOOLEAN, cancels : {0, 1}] /\ transport'.open = FALSE
      BY <3>1
    <3> QED
      BY <2>1, <3>2, <3>3, ZeroFacts, OverKeeps, Zenon
  <2>3. CASE ~ broker.active
    <3>1. transport' = [transport EXCEPT !.open = FALSE] /\ UNCHANGED wire
      BY <1>4, <2>3 DEF Reset
    <3>2. transport' \in [open : BOOLEAN, cancels : {0, 1}] /\ transport'.open = FALSE
      BY <1>1, <3>1, Zenon
    <3> QED
      BY <1>1, <2>1, <3>1, <3>2, ZeroFacts, OverKeeps, Zenon
  <2> QED
    BY <2>2, <2>3
<1>5. CASE Cancel
  <2>1. CASE Refuse("cancel", "STATE")
    BY <2>1, RefuseKeeps
  <2>2. CASE ~ Refuse("cancel", "STATE")
    <3>1. broker.active /\ Abort(wire, transport.cancels) /\ result'.call # "upload_finish"
      BY <1>5, <2>2 DEF Cancel, Returns
    <3>2. Abort(wire, 0) /\ Lacks(wire, "CANCEL")
      BY <1>2, <3>1 DEF Going
    <3> QED
      BY <1>1, <3>1, <3>2, AbortKeeps
  <2> QED
    BY <2>1, <2>2
<1> QED
  BY <1>3, <1>4, <1>5

LEMMA FinishKeeps ==
  ASSUME BrokerInv, BulkFinish \/ UploadFinish
  PROVE  BrokerInv'
<1>1. Orderly(wire) /\ transport.cancels \in {0, 1}
  BY DEF BrokerInv, BrokerTypes
<1>2. CASE \E name \in {"bulk_finish", "upload_finish"} : Refuse(name, "STATE")
  BY <1>2, RefuseKeeps
<1>3. CASE ~ \E name \in {"bulk_finish", "upload_finish"} : Refuse(name, "STATE")
  <2>1. finish_session(wire, 0, transport.cancels)
    BY <1>3 DEF BulkFinish, UploadFinish, Finish
  <2>2. result'.call = "upload_finish" => ~ Lacks(wire, "COMPLETE")
    <3>1. CASE BulkFinish
      BY <1>3, <3>1 DEF BulkFinish, Finish, Returns
    <3>2. CASE UploadFinish
      <4>1. broker.active /\ broker.response_received
        BY <1>3, <3>2 DEF UploadFinish, Finish
      <4> QED
        BY <4>1 DEF BrokerInv, SessionInv, Going
    <3> QED
      BY <3>1, <3>2
  <2> QED
    BY <1>1, <2>1, <2>2, FinishSessionKeeps
<1> QED
  BY <1>2, <1>3

-----------------------------------------------------------------------------
(* Records come in.                                                        *)
Incoming == {"next_sequence", "received", "stream_complete", "stream_failed", "bulk_failed"}

Moved(a, b) == BrokerRecord(b) /\ (a.bulk_failed => b.bulk_failed) /\ \A f \in Fields \ Incoming : b[f] = a[f]

LEMMA MovedByFlag ==
  ASSUME NEW a, NEW b, Moved(a, b), NEW f \in {"stream_complete", "stream_failed", "bulk_failed"},
         NEW c, c = [b EXCEPT ![f] = TRUE]
  PROVE  Moved(a, c) /\ c[f]
<1>1. f \in Flags /\ f \in Incoming /\ "bulk_failed" \in Fields
  BY DEF Flags, Incoming, Fields
<1>2. BrokerRecord(b)
  BY DEF Moved
<1>3. BrokerRecord(c) /\ c[f] /\ Only(f, b, c)
  BY <1>1, <1>2, SetFlag, Zenon
<1>4. b.bulk_failed => c.bulk_failed
  BY <1>1, <1>3 DEF Only
<1> QED
  BY <1>1, <1>3, <1>4, Zenon DEF Moved, Only

LEMMA MovedByCounter ==
  ASSUME NEW a, NEW b, Moved(a, b), NEW f \in {"next_sequence", "received"}, NEW v \in Nat, NEW c, c = [b EXCEPT ![f] = v]
  PROVE  Moved(a, c)
<1>1. f \in Counters /\ f \in Incoming /\ "bulk_failed" \in Fields /\ f # "bulk_failed"
  BY DEF Flags, Counters, Incoming, Fields
<1>2. BrokerRecord(b)
  BY DEF Moved
<1>3. BrokerRecord(c) /\ Only(f, b, c)
  BY <1>1, <1>2, SetCounter, Zenon
<1>4. c.bulk_failed = b.bulk_failed
  BY <1>1, <1>3 DEF Only
<1> QED
  BY <1>1, <1>3, <1>4 DEF Moved, Only

LEMMA MovedTo ==
  ASSUME BrokerInv
  PROVE  /\ Moved(broker, broker) /\ Moved(broker, StreamAccept)
         /\ Moved(broker, BulkFailed) /\ BulkFailed.bulk_failed
<1>1. Moved(broker, broker)
  BY DEF Moved, BrokerInv, BrokerTypes
<1>2. Moved(broker, StreamAccept)
  <2>1. broker.next_sequence + 1 \in Nat
    BY SMTT(30) DEF BrokerInv, BrokerTypes, BrokerRecord, Counters
  <2> QED
    BY <1>1, <2>1, MovedByCounter, Zenon DEF StreamAccept
<1>3. Moved(broker, BulkFailed) /\ BulkFailed.bulk_failed
  <2>1. PICK b : b = [broker EXCEPT !["bulk_failed"] = TRUE]
    BY Zenon
  <2>2. Moved(broker, b) /\ b.bulk_failed
    BY <1>1, <2>1, MovedByFlag, Zenon
  <2>3. BulkFailed = [b EXCEPT !["stream_failed"] = TRUE]
    BY <2>1, Zenon DEF BulkFailed, BrokerInv, BrokerTypes, BrokerRecord, Fields, Flags
  <2>4. Moved(b, b)
    BY <2>2 DEF Moved
  <2>5. Moved(broker, BulkFailed) /\ Moved(b, BulkFailed)
    BY <2>2, <2>3, <2>4, MovedByFlag, Zenon
  <2> QED
    BY <2>2, <2>5 DEF Moved
<1> QED
  BY <1>1, <1>2, <1>3

(* The session the user sees is the same, after such a change.             *)
LEMMA IncomingKeeps ==
  ASSUME BrokerInv, Moved(broker, broker'), UNCHANGED <<transport, wire>>, result'.call # "upload_finish"
  PROVE  BrokerInv'
<1>1. Steady \subseteq Fields \ Incoming
  BY DEF Steady, Fields, Flags, Counters, Incoming
<1> QED
  BY <1>1, GoesOn DEF Moved

LEMMA ReceiveKeeps ==
  ASSUME BrokerInv, Receive
  PROVE  BrokerInv'
<1>1. CASE Refuse("receive", "STATE")
  BY <1>1, RefuseKeeps
<1>2. CASE ~ Refuse("receive", "STATE")
  <2>1. UNCHANGED <<transport, wire>> /\ result'.call # "upload_finish"
    BY <1>2 DEF Receive, Returns
  <2>2. \/ broker' \in {broker, StreamAccept}
        \/ broker' = [broker EXCEPT !["stream_failed"] = TRUE]
        \/ broker' = [StreamAccept EXCEPT !["stream_complete"] = TRUE]
    BY <1>2 DEF Receive
  <2>3. Moved(broker, broker')
    <3>1. CASE broker' \in {broker, StreamAccept}
      BY <3>1, MovedTo
    <3>2. CASE broker' = [broker EXCEPT !["stream_failed"] = TRUE]
      BY <3>2, MovedTo, MovedByFlag, Zenon
    <3>3. CASE broker' = [StreamAccept EXCEPT !["stream_complete"] = TRUE]
      BY <3>3, MovedTo, MovedByFlag, Zenon
    <3> QED
      BY <2>2, <3>1, <3>2, <3>3
  <2> QED
    BY <2>1, <2>3, IncomingKeeps
<1> QED
  BY <1>1, <1>2

LEMMA BulkReceiveKeeps ==
  ASSUME BrokerInv, BulkReceive
  PROVE  BrokerInv'
<1>1. CASE Refuse("bulk_receive", "STATE")
  BY <1>1, RefuseKeeps
<1>2. CASE ~ Refuse("bulk_receive", "STATE")
  <2>1. UNCHANGED <<transport, wire>> /\ result'.call # "upload_finish"
    BY <1>2 DEF BulkReceive, Returns
  <2>2. \/ \E size \in 1 .. MaxData : broker' = [StreamAccept EXCEPT !["received"] = StreamAccept["received"] + size]
        \/ broker' = [StreamAccept EXCEPT !["stream_complete"] = TRUE]
        \/ broker' = BulkFailed
        \/ broker' = [BulkFailed EXCEPT !["stream_complete"] = TRUE]
    BY <1>2 DEF BulkReceive
  <2>3. Moved(broker, broker')
    <3>1. CASE \E size \in 1 .. MaxData : broker' = [StreamAccept EXCEPT !["received"] = StreamAccept["received"] + size]
      <4>1. StreamAccept["received"] \in Nat
        BY MovedTo DEF Moved, BrokerRecord, Counters
      <4>2. PICK size \in 1 .. MaxData : broker' = [StreamAccept EXCEPT !["received"] = StreamAccept["received"] + size]
        BY <3>1, Zenon
      <4>3. StreamAccept["received"] + size \in Nat
        BY <4>1, BrokerAssumption
      <4> QED
        BY <4>2, <4>3, MovedTo, MovedByCounter, Zenon
    <3>2. CASE broker' = [StreamAccept EXCEPT !["stream_complete"] = TRUE]
      BY <3>2, MovedTo, MovedByFlag, Zenon
    <3>3. CASE broker' = BulkFailed
      BY <3>3, MovedTo
    <3>4. CASE broker' = [BulkFailed EXCEPT !["stream_complete"] = TRUE]
      BY <3>4, MovedTo, MovedByFlag, Zenon
    <3> QED
      BY <2>2, <3>1, <3>2, <3>3, <3>4
  <2> QED
    BY <2>1, <2>3, IncomingKeeps
<1> QED
  BY <1>1, <1>2

-----------------------------------------------------------------------------
(* Frames go out.                                                          *)
LEMMA SentKeeps ==
  ASSUME BrokerInv, BrokerRecord(broker'), broker'.active = broker.active, broker'.opened = broker.opened,
         UNCHANGED transport, Orderly(wire'), Going', result'.call # "upload_finish"
  PROVE  BrokerInv'
<1>1. BrokerTypes' /\ NothingLeaks'
  BY DEF BrokerInv, BrokerTypes, NothingLeaks
<1>2. SessionInv'
  BY DEF SessionInv
<1> QED
  BY <1>1, <1>2 DEF BrokerInv

LEMMA BulkAckKeeps ==
  ASSUME BrokerInv, BulkAck
  PROVE  BrokerInv'
<1>1. CASE \E status : Refuse("bulk_ack", status)
  BY <1>1, RefuseKeeps
<1>2. CASE ~ \E status : Refuse("bulk_ack", status)
  <2>1. /\ broker.active /\ broker.bulk_mode /\ ~ broker.bulk_failed
        /\ UNCHANGED transport /\ result'.call # "upload_finish"
    BY <1>2 DEF BulkAck, BulkOpen, Returns
  <2>2. Going /\ Orderly(wire) /\ BrokerRecord(broker)
    BY <2>1 DEF BrokerInv, SessionInv, BrokerTypes
  <2>3. Len(wire) = broker.acks + 1 /\ broker.acks \in Nat /\ Lacks(wire, "CANCEL") /\ broker.initialized /\ transport.cancels = 0
    BY <2>1, <2>2 DEF Going, BrokerRecord, Counters
  <2>4. PICK all : all = Append(wire, WireFrame("ACK", broker.acks))
    BY Zenon
  <2>5. /\ Orderly(all) /\ Len(all) = broker.acks + 2 /\ Lacks(all, "CANCEL")
        /\ ~ Lacks(wire, "COMPLETE") => ~ Lacks(all, "COMPLETE")
    <3>1. PICK f \in Frames : f = WireFrame("ACK", broker.acks) /\ f.type = "ACK" /\ f.sequence = broker.acks
      BY <2>3, FrameFacts
    <3> QED
      BY <2>2, <2>3, <2>4, <3>1, AppendOrderly
  <2>6. \/ wire' = all /\ broker' = [broker EXCEPT !["acks"] = broker.acks + 1]
        \/ wire' \in {wire, all} /\ broker' = BulkFailed
    BY <1>2, <2>4, Zenon DEF BulkAck, MaybeSent
  <2>7. CASE wire' = all /\ broker' = [broker EXCEPT !["acks"] = broker.acks + 1]
    <3>1. "acks" \in Counters /\ broker.acks + 1 \in Nat
      BY <2>3 DEF Counters
    <3>2. BrokerRecord(broker') /\ Only("acks", broker, broker')
      <4>1. BrokerRecord(broker) /\ broker' = [broker EXCEPT !["acks"] = broker.acks + 1]
        BY <2>2, <2>7
      <4> QED
        BY <3>1, <4>1, SetCounter, Zenon
    <3>3. /\ broker'.active = broker.active /\ broker'.opened = broker.opened /\ broker'.initialized = broker.initialized
          /\ broker'.bulk_mode = broker.bulk_mode /\ broker'.response_received = broker.response_received
      BY <3>2 DEF Only, Fields, Flags
    <3>4. broker'.acks = broker.acks + 1
      BY <2>2, <2>7, Zenon DEF BrokerRecord, Fields, Counters
    <3>5. Going'
      BY <2>1, <2>2, <2>3, <2>5, <2>7, <3>3, <3>4, SMTT(30) DEF Going
    <3> QED
      BY <2>1, <2>5, <2>7, <3>2, <3>3, <3>5, SentKeeps
  <2>8. CASE wire' \in {wire, all} /\ broker' = BulkFailed
    <3>1. BrokerRecord(broker') /\ broker'.bulk_failed /\ \A f \in Fields \ Incoming : broker'[f] = broker[f]
      BY <2>8, MovedTo DEF Moved
    <3>2. /\ broker'.active = broker.active /\ broker'.opened = broker.opened /\ broker'.initialized = broker.initialized
          /\ broker'.bulk_mode = broker.bulk_mode /\ broker'.response_received = broker.response_received
      BY <3>1, Zenon DEF Incoming, Fields, Flags
    <3>3. Going'
      BY <2>1, <2>2, <2>3, <2>5, <2>8, <3>1, <3>2 DEF Going
    <3>4. Orderly(wire')
      BY <2>2, <2>5, <2>8
    <3> QED
      BY <2>1, <3>1, <3>2, <3>3, <3>4, SentKeeps
  <2> QED
    BY <2>6, <2>7, <2>8
<1> QED
  BY <1>1, <1>2

(* The logs of a step of an upload.                                        *)
LEMMA UploadLogs ==
  ASSUME BrokerInv, broker.active, broker.upload_mode, ~ broker.bulk_mode,
         NEW data, data = Append(wire, WireFrame("DATA", broker.upload_next)),
         NEW all, all = Append(data, COMPLETE)
  PROVE  /\ broker.upload_next \in Nat /\ BrokerRecord(broker)
         /\ Orderly(wire) /\ Lacks(wire, "CANCEL")
         /\ Orderly(data) /\ Lacks(data, "CANCEL") /\ Lacks(data, "COMPLETE") /\ Len(data) = broker.upload_next + 2
         /\ Orderly(all) /\ Lacks(all, "CANCEL") /\ ~ Lacks(all, "COMPLETE") /\ Len(all) >= 1
<1>1. Going /\ Orderly(wire) /\ BrokerRecord(broker)
  BY DEF BrokerInv, SessionInv, BrokerTypes
<1>2. PICK n \in Nat : n = broker.upload_next
  BY <1>1 DEF BrokerRecord, Counters
<1>3. Len(wire) = n + 1 /\ Lacks(wire, "CANCEL") /\ Lacks(wire, "COMPLETE")
  BY <1>1, <1>2 DEF Going
<1>4. PICK f \in Frames : f = WireFrame("DATA", n) /\ f.type = "DATA" /\ f.sequence = n
  BY FrameFacts
<1>5. PICK g \in Frames : all = Append(data, g) /\ g.type = "COMPLETE" /\ g.sequence = n + 1
  BY <1>2, FrameFacts DEF COMPLETE
<1>6. Orderly(data) /\ Lacks(data, "CANCEL") /\ Lacks(data, "COMPLETE") /\ Len(data) = n + 2
  BY <1>1, <1>2, <1>3, <1>4, AppendOrderly
<1>7. Orderly(all) /\ Lacks(all, "CANCEL") /\ ~ Lacks(all, "COMPLETE") /\ Len(all) = n + 3
  <2>1. Len(data) >= 1 /\ g.sequence = Len(data) - 1
    BY <1>5, <1>6
  <2>2. Orderly(Append(data, g)) /\ Len(Append(data, g)) = Len(data) + 1
    BY <1>5, <1>6, <2>1, AppendOrderly, Zenon
  <2>3. ~ Lacks(Append(data, g), g.type) /\ (g.type # "CANCEL" => Lacks(Append(data, g), "CANCEL"))
    BY <1>5, <1>6, <2>1, AppendOrderly, ZenonT(30)
  <2> QED
    BY <1>5, <1>6, <2>2, <2>3
<1> QED
  BY <1>1, <1>2, <1>3, <1>6, <1>7

LEMMA UploadSendKeeps ==
  ASSUME BrokerInv, NEW final \in BOOLEAN, UploadSend(final)
  PROVE  BrokerInv'
<1>1. CASE Refuse("upload_send", "STATE")
  BY <1>1, RefuseKeeps
<1>2. CASE ~ Refuse("upload_send", "STATE")
  <2>1. broker.active /\ broker.upload_mode /\ ~ broker.bulk_mode /\ result'.call # "upload_finish"
    BY <1>2 DEF UploadSend, Returns
  <2>2. PICK data : data = Append(wire, WireFrame("DATA", broker.upload_next))
    BY Zenon
  <2>3. PICK all : all = Append(data, COMPLETE)
    BY Zenon
  <2>4. /\ broker.upload_next \in Nat /\ BrokerRecord(broker)
        /\ Orderly(wire) /\ Lacks(wire, "CANCEL")
        /\ Orderly(data) /\ Lacks(data, "CANCEL") /\ Lacks(data, "COMPLETE") /\ Len(data) = broker.upload_next + 2
        /\ Orderly(all) /\ Lacks(all, "CANCEL") /\ ~ Lacks(all, "COMPLETE") /\ Len(all) >= 1
    BY <2>1, <2>2, <2>3, UploadLogs, Zenon
  <2>5. Going /\ broker.initialized /\ transport.cancels = 0 /\ Lacks(wire, "COMPLETE") /\ ~ broker.response_received
    BY <2>1 DEF BrokerInv, SessionInv, Going
  <2>6. \/ wire' = data /\ broker' = [broker EXCEPT !["upload_next"] = broker.upload_next + 1] /\ UNCHANGED transport
        \/ /\ wire' = all /\ UNCHANGED transport
           /\ broker' = [StreamAccept EXCEPT !.upload_next = @ + 1, !.upload_mode = FALSE, !.response_received = TRUE]
        \/ \E log \in {wire, data, all} : Abort(log, transport.cancels)
    BY <1>2, <2>2, <2>3, Zenon DEF UploadSend
  <2>7. CASE wire' = data /\ broker' = [broker EXCEPT !["upload_next"] = broker.upload_next + 1] /\ UNCHANGED transport
    <3>1. "upload_next" \in Counters /\ broker.upload_next + 1 \in Nat
      BY <2>4 DEF Counters
    <3>2. BrokerRecord(broker') /\ Only("upload_next", broker, broker')
      <4>1. BrokerRecord(broker) /\ broker' = [broker EXCEPT !["upload_next"] = broker.upload_next + 1]
        BY <2>4, <2>7
      <4> QED
        BY <3>1, <4>1, SetCounter, Zenon
    <3>3. /\ broker'.active = broker.active /\ broker'.opened = broker.opened /\ broker'.initialized = broker.initialized
          /\ broker'.bulk_mode = broker.bulk_mode /\ broker'.response_received = broker.response_received
      BY <3>2 DEF Only, Fields, Flags
    <3>4. broker'.upload_next = broker.upload_next + 1
      BY <2>4, <2>7, Zenon DEF BrokerRecord, Fields, Counters
    <3>5. Going'
      <4>1. /\ Lacks(wire', "CANCEL") /\ Lacks(wire', "COMPLETE") /\ Len(wire') = broker.upload_next + 2
            /\ transport' = transport
        BY <2>4, <2>7, Zenon
      <4>2. Len(wire') >= 1 /\ Len(wire') = broker'.upload_next + 1
        BY <2>4, <3>4, <4>1
      <4>3. ~ broker'.bulk_mode /\ ~ broker'.response_received /\ broker'.initialized /\ transport'.cancels = 0
        BY <2>1, <2>5, <3>3, <4>1, Zenon
      <4> QED
        BY <4>1, <4>2, <4>3, Zenon DEF Going, Lacks
    <3> QED
      BY <2>1, <2>4, <2>7, <3>2, <3>3, <3>5, SentKeeps
  <2>8. CASE /\ wire' = all /\ UNCHANGED transport
             /\ broker' = [StreamAccept EXCEPT !.upload_next = @ + 1, !.upload_mode = FALSE, !.response_received = TRUE]
    <3>1. BrokerRecord(StreamAccept) /\ \A f \in Fields \ Incoming : StreamAccept[f] = broker[f]
      BY MovedTo DEF Moved
    <3>2. PICK n \in Nat : n = StreamAccept.upload_next + 1
      BY <3>1 DEF BrokerRecord, Counters
    <3>3. /\ "upload_next" \in Fields /\ "upload_mode" \in Fields /\ "response_received" \in Fields
          /\ \A f \in Counters : f \in Fields /\ f \notin {"upload_mode", "response_received"}
          /\ \A f \in Flags : f \in Fields /\ f # "upload_next"
      BY DEF Fields, Flags, Counters
    <3>4. broker' = [f \in Fields |-> IF f = "response_received" THEN TRUE ELSE IF f = "upload_mode" THEN FALSE
                                      ELSE IF f = "upload_next" THEN n ELSE StreamAccept[f]]
      BY <2>8, <3>1, <3>2, <3>3, Zenon DEF BrokerRecord
    <3>5. /\ broker'.upload_mode = FALSE /\ broker'.upload_next = n
          /\ \A f \in Fields \ {"response_received", "upload_mode", "upload_next"} : broker'[f] = StreamAccept[f]
      BY <3>3, <3>4, Zenon
    <3>6. broker'.response_received = TRUE /\ broker' = [f \in Fields |-> broker'[f]]
      BY <3>3, <3>4, Zenon
    <3>7. \A f \in Flags : broker'[f] \in BOOLEAN
      BY <3>1, <3>3, <3>5, <3>6, Zenon DEF BrokerRecord
    <3>8. \A f \in Counters : broker'[f] \in Nat
      BY <3>1, <3>2, <3>3, <3>5, Zenon DEF BrokerRecord
    <3>9. BrokerRecord(broker')
      BY <3>6, <3>7, <3>8 DEF BrokerRecord
    <3>10. /\ broker'.active = broker.active /\ broker'.opened = broker.opened /\ broker'.initialized = broker.initialized
           /\ broker'.bulk_mode = broker.bulk_mode
      BY <3>1, <3>5 DEF Incoming, Fields, Flags
    <3>11. Going'
      BY <2>1, <2>4, <2>5, <2>8, <3>5, <3>10, Zenon DEF Going
    <3> QED
      BY <2>1, <2>4, <2>8, <3>9, <3>10, <3>11, SentKeeps
  <2>9. CASE \E log \in {wire, data, all} : Abort(log, transport.cancels)
    BY <2>1, <2>4, <2>5, <2>9, AbortKeeps
  <2> QED
    BY <2>6, <2>7, <2>8, <2>9
<1> QED
  BY <1>1, <1>2

LEMMA BrokerInitially == BrokerInit => BrokerInv
<1> SUFFICES ASSUME BrokerInit PROVE BrokerInv
  OBVIOUS
<1>1. transport \in [open : BOOLEAN, cancels : {0, 1}] /\ transport.open = FALSE /\ result.call # "upload_finish"
  BY DEF BrokerInit
<1>2. broker = Zero /\ wire = <<>>
  BY DEF BrokerInit
<1> QED
  BY <1>1, <1>2, ZeroFacts, StartOrderly, Zenon DEF BrokerInv, BrokerTypes, NothingLeaks, SessionInv

LEMMA BrokerStep == BrokerInv /\ [BrokerNext]_brokerVars => BrokerInv'
<1> SUFFICES ASSUME BrokerInv, [BrokerNext]_brokerVars PROVE BrokerInv'
  BY SMTT(30)
<1>1. CASE UNCHANGED brokerVars
  BY <1>1 DEF brokerVars, BrokerInv, BrokerTypes, NothingLeaks, SessionInv, Going
<1>2. CASE BrokerNext
  BY <1>2, EndKeeps, NoneStarted, RequestKeeps, StartKeeps, ReceiveKeeps, BulkReceiveKeeps, BulkAckKeeps,
     FinishKeeps, UploadSendKeeps DEF BrokerNext
<1> QED
  BY <1>1, <1>2

(* The inductive invariant: the fields of an active session say how long   *)
(* its log is and which frames it cannot hold yet (finish_session clears   *)
(* them with the connection).                                              *)
THEOREM BrokerInvariant == BrokerSpec => []BrokerInv
BY BrokerInitially, BrokerStep, PTL DEF BrokerSpec

(* No order of calls and failures leaves the transport open behind an idle *)
(* broker, or a session on a closed one (finish_session): NothingLeaks,    *)
(* for sessions of any length and any window.                              *)
THEOREM NothingIsLeaked == BrokerSpec => []NothingLeaks
<1>1. BrokerInv => NothingLeaks
  BY Zenon DEF BrokerInv
<1> QED
  BY <1>1, BrokerInvariant, PTL

(* The frames of a session are numbered and ordered as the peer expects,   *)
(* and nothing follows a CANCEL, which is sent once (emit_cancel,          *)
(* abort_upload_session, upload_emit): WireInOrder, for logs of any        *)
(* length.                                                                 *)
THEOREM WiresAreInOrder == BrokerSpec => []WireInOrder
<1>1. BrokerInv => WireInOrder
  <2> SUFFICES ASSUME BrokerInv PROVE WireInOrder
    OBVIOUS
  <2>1. Orderly(wire) /\ SessionInv /\ transport.cancels \in {0, 1}
    BY DEF BrokerInv, BrokerTypes
  <2>2. \A i \in 1 .. Len(wire) : IF i = 1 THEN wire[i].type \in {"REQUEST", "CANCEL"} ELSE wire[i].type # "REQUEST"
    BY <2>1 DEF Orderly
  <2>3. \A i \in Of("DATA") \cup Of("COMPLETE") \cup Of("ACK") : wire[i].sequence = i - 2
    BY <2>1 DEF Orderly, Of
  <2>4. \A i \in Of("COMPLETE"), j \in Of("DATA") : j < i
    BY <2>1 DEF Orderly, Of
  <2>5. result.call = "upload_finish" /\ result.status # "STATE" => Of("COMPLETE") # {}
    BY <2>1, SMTT(30) DEF SessionInv, Lacks, Of
  <2>6. \A i \in Of("CANCEL") : i = Len(wire)
    BY <2>1 DEF Orderly, Of
  <2>7. transport.cancels > 0 => transport.cancels = 1 /\ ~ broker.active
    BY <2>1 DEF SessionInv, Going
  <2> QED
    BY <2>2, <2>3, <2>4, <2>5, <2>6, <2>7 DEF WireInOrder
<1> QED
  BY <1>1, BrokerInvariant, PTL

=============================================================================
