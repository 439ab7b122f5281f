--------------------------- MODULE CredentialStore ---------------------------
(***************************************************************************)
(* The Pico's credential store (src/pico/src/credentials.c): two flash     *)
(* sectors, each with a data record and, on a page of its own, a commit    *)
(* record.  A transaction erases the sector that is not current, programs  *)
(* the data, reads it back, and only then programs the commit.  Each flash *)
(* operation may fail, program wrong bits, or be cut by a power loss with  *)
(* its area in any state of the operation.                                 *)
(***************************************************************************)
EXTENDS Integers

CONSTANTS Credentials,     \* the credential records
          MaxGeneration    \* UINT64_MAX

ASSUME GenerationAssumption == MaxGeneration \in Nat \ {0}
ASSUME CredentialsAssumption == "tombstone" \notin Credentials

VARIABLES sector,   \* the two sectors: data and commit area
          tx,       \* the running write_transaction
          answer    \* what the last transaction returned

storeVars == <<sector, tx, answer>>

Sectors == {0, 1}
Tombstone == "tombstone"
Contents == Credentials \cup {Tombstone}

(* An area is erased, torn (any other bits; the CRC refuses them) or holds *)
(* a record; generation 0 is no record.                                    *)
NoData == [generation |-> 0, content |-> Tombstone]
Data(g, c) == [generation |-> g, content |-> c]
Erased == [state |-> "erased", data |-> NoData]
Torn == [state |-> "torn", data |-> NoData]
Holds(d) == [state |-> "record", data |-> d]
NoCommit == 0     \* no commit record that its CRC accepts

(* read_slot: both records are valid and the commit names the generation.  *)
valid(s) == s.data.state = "record" /\ s.commit = s.data.data.generation
generation(s) == s.data.data.generation

None == -1          \* no valid slot
Ambiguous == -2     \* two slots of one generation
latest_slot(s) ==
    IF ~valid(s[0]) /\ ~valid(s[1]) THEN None
    ELSE IF valid(s[0]) /\ ~valid(s[1]) THEN 0
    ELSE IF valid(s[1]) /\ ~valid(s[0]) THEN 1
    ELSE IF generation(s[0]) = generation(s[1]) THEN Ambiguous
    ELSE IF generation(s[0]) > generation(s[1]) THEN 0 ELSE 1

(* pbns_credentials_load; a tombstone reads as no credentials.             *)
Load(s) == LET current == latest_slot(s)
           IN IF current = Ambiguous THEN [status |-> "AMBIGUOUS", content |-> Tombstone]
              ELSE IF current = None \/ s[current].data.data.content = Tombstone
              THEN [status |-> "STATE", content |-> Tombstone]
              ELSE [status |-> "OK", content |-> s[current].data.data.content]

NoTransaction == [pc |-> "idle", content |-> Tombstone, generation |-> 0, target |-> 0]
NoAnswer == [status |-> "none", content |-> Tombstone]

Complete(status) ==
    /\ answer' = [status |-> status, content |-> tx.content]
    /\ tx' = NoTransaction

StoreInit ==
    /\ sector = [s \in Sectors |-> [data |-> Erased, commit |-> NoCommit]]
    /\ tx = NoTransaction
    /\ answer = NoAnswer

(* The first half of write_transaction: which sector, which generation.    *)
current_overwritten(current) == IF current = 0 THEN 0 ELSE 1
target(current) == IF current = 0 THEN 1 ELSE 0

generation_kept(current) == IF current = None THEN 1 ELSE generation(sector[current])
next_generation(current) == IF current = None THEN 1 ELSE generation(sector[current]) + 1

refusal(current) ==
    IF current = Ambiguous THEN "AMBIGUOUS"
    ELSE IF current # None /\ generation(sector[current]) = MaxGeneration
    THEN "LIMIT" ELSE "OK"

write_transaction(c) ==
    /\ tx.pc = "idle"
    /\ LET current == latest_slot(sector)
       IN IF refusal(current) # "OK"
          THEN tx' = tx /\ answer' = [status |-> refusal(current), content |-> c]
          ELSE /\ tx' = [pc |-> "erase", content |-> c, target |-> target(current),
                         generation |-> next_generation(current)]
               /\ answer' = NoAnswer
    /\ UNCHANGED sector

record == Data(tx.generation, tx.content)
SetTarget(data, commit) ==
    sector' = [sector EXCEPT ![tx.target] = [data |-> data, commit |-> commit]]

(* The states an operation under way can leave its areas in.               *)
Erasing == \E d \in {sector[tx.target].data, Torn, Erased},
              c \in {sector[tx.target].commit, NoCommit} : SetTarget(d, c)
Programming == \E d \in {sector[tx.target].data, Torn, Holds(record)} :
                  SetTarget(d, sector[tx.target].commit)
Committing == \E c \in {sector[tx.target].commit, NoCommit, tx.generation} :
                  SetTarget(sector[tx.target].data, c)

erase ==
    /\ tx.pc = "erase"
    /\ \/ SetTarget(Erased, NoCommit) /\ tx' = [tx EXCEPT !.pc = "program"]
                                      /\ UNCHANGED answer
       \/ Erasing /\ Complete("IO")

(* Programmed bits that did not take are found by the read back.           *)
program ==
    /\ tx.pc = "program"
    /\ \/ /\ SetTarget(Torn, sector[tx.target].commit)
             \/ SetTarget(Holds(record), sector[tx.target].commit)
          /\ tx' = [tx EXCEPT !.pc = "readback"]
          /\ UNCHANGED answer
       \/ Programming /\ Complete("IO")

readback ==
    /\ tx.pc = "readback"
    /\ IF sector[tx.target].data = Holds(record)
       THEN tx' = [tx EXCEPT !.pc = "commit"] /\ UNCHANGED answer
       ELSE Complete("IO")
    /\ UNCHANGED sector

commit ==
    /\ tx.pc = "commit"
    /\ \/ /\ \E c \in {NoCommit, tx.generation} : SetTarget(sector[tx.target].data, c)
          /\ tx' = [tx EXCEPT !.pc = "verify"]
          /\ UNCHANGED answer
       \/ Committing /\ Complete("IO")

(* read_slot on the sector just committed, compared with what was meant.   *)
verified == IF valid(sector[tx.target]) /\ sector[tx.target].data = Holds(record)
            THEN "OK" ELSE "IO"

verify ==
    /\ tx.pc = "verify"
    /\ Complete(verified)
    /\ UNCHANGED sector

(* Power is lost: the flash operation under way stops anywhere.            *)
StorePowerCut ==
    /\ CASE tx.pc = "erase" -> Erasing
         [] tx.pc = "program" -> Programming
         [] tx.pc = "commit" -> Committing
         [] OTHER -> UNCHANGED sector
    /\ tx' = NoTransaction
    /\ answer' = NoAnswer

StoreStep == erase \/ program \/ readback \/ commit \/ verify
StoreNext == (\E c \in Contents : write_transaction(c)) \/ StoreStep \/ StorePowerCut
StoreSpec == StoreInit /\ [][StoreNext]_storeVars

-----------------------------------------------------------------------------
(* The types of the flash areas and of a transaction.                      *)
StoreTypeOK ==
    /\ sector \in [Sectors ->
         [data : {Erased, Torn} \cup
                 [state : {"record"}, data : [generation : 1 .. MaxGeneration, content : Contents]],
          commit : 0 .. MaxGeneration]]
    /\ tx \in [pc : {"idle", "erase", "program", "readback", "commit", "verify"},
               content : Contents, generation : 0 .. MaxGeneration, target : Sectors]
    /\ answer \in [status : {"none", "OK", "IO", "LIMIT", "AMBIGUOUS"}, content : Contents]

(* No sequence of failed and interrupted transactions leaves two committed *)
(* slots of one generation: pbns_credentials_load and every later store    *)
(* would answer PBNS_ERR_AMBIGUOUS for good.                               *)
NeverAmbiguous == latest_slot(sector) # Ambiguous

Cell == INSTANCE AtomicCell
    WITH Empty <- Tombstone, cell <- Load(sector).content,
         writing <- IF tx.pc = "idle" THEN {} ELSE {tx.content},
         written <- IF answer.status = "OK" THEN {answer.content} ELSE {}

(* A store or clear is atomic: pbns_credentials_load finds the old record  *)
(* or the new one, wherever power is cut and whatever the flash reports,   *)
(* and a transaction that returned PBNS_OK is what it finds.               *)
ImplementsCell == Cell!Spec
=============================================================================
