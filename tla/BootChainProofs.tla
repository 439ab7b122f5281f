--------------------------- MODULE BootChainProofs ----------------------------
(***************************************************************************)
(* The whole boot chain, for every set of versions, artifacts, digests and *)
(* boot entries: what the recovery application and the version register    *)
(* guarantee survives the launcher, the setup, the boot menu and power     *)
(* cycles; a stored configuration always has its entry in the menu; and    *)
(* recovery announces the failure that called it.                          *)
(***************************************************************************)
EXTENDS BootChain, TLAPS

-----------------------------------------------------------------------------
(***************************************************************************)
(* The version register never goes back, for every set of versions and     *)
(* every generation limit.  What makes it inductive: the two records are   *)
(* ordered the same way by generation and by version, and between the read *)
(* and the write of an advance nothing else has changed the slots, so the  *)
(* slot that is overwritten is never the one that holds the version.       *)
(***************************************************************************)

(* Of two readable records the one of the higher generation carries the    *)
(* higher version.                                                         *)
SlotsOrdered ==
    decode_record(slot[0]) /\ decode_record(slot[1]) =>
        \/ slot[0].generation < slot[1].generation /\ slot[0].version < slot[1].version
        \/ slot[1].generation < slot[0].generation /\ slot[1].version < slot[0].version

(* What an advance about to write has read is still what the slots hold.   *)
CurrentIsFresh ==
    /\ call.pc # "idle" => call.target \in Versions
    /\ call.pc = "write" /\ call.mode = "S" =>
          /\ call.current = read_nvram(slot)
          /\ call.target > call.current.version
          /\ call.current.generation < MaxGeneration

(* A call under way has not returned yet.                                  *)
PendingHasNoResult == call.pc # "idle" => result = NoResult

IInv == /\ TypeOK /\ SlotsOrdered /\ CurrentIsFresh
        /\ PendingHasNoResult /\ OkMeansDurable

LEMMA ReadNvramType ==
    ASSUME NEW s \in [Slots -> Record]
    PROVE  read_nvram(s) \in State
<1>1. selected(s) \in Slots
  BY DEF selected, Slots
<1>2. s[selected(s)] \in Record
  BY <1>1
<1>3. Failed("OK") \in State /\ Failed("AMBIGUOUS") \in State
  BY GenerationAssumption DEF Failed, State, ReadStatuses, Statuses, NoSlot
<1> QED
  BY <1>1, <1>2, <1>3 DEF read_nvram, State, ReadStatuses, Statuses, Record, Slots

LEMMA AnswersType ==
    ASSUME slot \in [Slots -> Record], nv \in Nat \cup {Undefined},
           NEW mode \in Modes, NEW a \in Answers(mode)
    PROVE  a \in State
<1>1. read_nvram(slot) \in State
  BY ReadNvramType
<1>2. read_current(nv) \in State
  BY GenerationAssumption DEF read_current, State, ReadStatuses, Statuses, Failed, Undefined, Unwritten, NoSlot
<1>3. \A f \in {"BUSY", "CRYPTO", "IO"} : Failed(f) \in State
  BY GenerationAssumption DEF Failed, State, ReadStatuses, Statuses, NoSlot
<1> QED
  BY <1>1, <1>2, <1>3 DEF Answers, ReadFaults

(* What a read returns when no slot is readable, and when slot 1 or slot 0 *)
(* is the newer readable one.                                              *)
LEMMA ReadNone ==
    ASSUME NEW s, ~decode_record(s[0]), ~decode_record(s[1])
    PROVE  read_nvram(s).version = 0 /\ read_nvram(s).generation = 0 /\ read_nvram(s).active = NoSlot
<1>1. read_nvram(s) = Failed("OK")
  BY DEF read_nvram
<1> QED
  BY <1>1 DEF Failed

LEMMA ReadOne ==
    ASSUME NEW s \in [Slots -> Record], decode_record(s[1]),
           decode_record(s[0]) => s[0].generation < s[1].generation
    PROVE  /\ read_nvram(s).version = s[1].version
           /\ read_nvram(s).generation = s[1].generation /\ read_nvram(s).active = 1
<1>0. s[0].generation \in Int /\ s[1].generation \in Int
  BY DEF Record, Slots
<1>1. selected(s) = 1
  BY DEF selected
<1>2. read_nvram(s) = [status |-> "OK", version |-> s[1].version,
                       generation |-> s[1].generation, active |-> 1]
  BY <1>0, <1>1 DEF read_nvram
<1> QED
  BY <1>2

LEMMA ReadZero ==
    ASSUME NEW s \in [Slots -> Record], decode_record(s[0]),
           decode_record(s[1]) => s[1].generation < s[0].generation
    PROVE  /\ read_nvram(s).version = s[0].version
           /\ read_nvram(s).generation = s[0].generation /\ read_nvram(s).active = 0
<1>0. s[0].generation \in Int /\ s[1].generation \in Int
  BY DEF Record, Slots
<1>1. selected(s) = 0
  BY <1>0 DEF selected
<1>2. read_nvram(s) = [status |-> "OK", version |-> s[0].version,
                       generation |-> s[0].generation, active |-> 0]
  BY <1>0, <1>1 DEF read_nvram
<1> QED
  BY <1>2

(* A write of the slot that does not hold the version leaves the version   *)
(* as it was, or makes it the target, and keeps the records ordered.       *)
LEMMA SlotWriteLemma ==
    ASSUME TypeOK, SlotsOrdered, CurrentIsFresh,
           call.pc = "write", call.mode = "S",
           NEW w \in SlotWrites
    PROVE  /\ w \in [Slots -> Record]
           /\ read_nvram(w).version \in {read_nvram(slot).version, call.target}
           /\ decode_record(w[0]) /\ decode_record(w[1]) =>
                \/ w[0].generation < w[1].generation /\ w[0].version < w[1].version
                \/ w[1].generation < w[0].generation /\ w[1].version < w[0].version
<1> DEFINE old == read_nvram(slot)
<1>1. /\ call.current = old /\ call.target > old.version
      /\ old.generation < MaxGeneration /\ call.target \in Nat \ {0}
  BY VersionsAssumption DEF CurrentIsFresh
<1>2. slot[0] \in Record /\ slot[1] \in Record /\ old \in State
  BY ReadNvramType DEF TypeOK, Slots
<1>3. encode_record \in Record /\ NoRecord \in Record
  BY <1>1, <1>2, GenerationAssumption DEF encode_record, Record, NoRecord, State, ReadStatuses, Statuses
<1>4. PICK r \in {slot[inactive], encode_record, NoRecord} :
           w = [slot EXCEPT ![inactive] = r]
  BY DEF SlotWrites
<1>5. inactive \in Slots
  BY <1>1, <1>2 DEF inactive, Slots, State, ReadStatuses, Statuses, NoSlot
<1>6. w \in [Slots -> Record]
  BY <1>2, <1>3, <1>4, <1>5 DEF TypeOK, Slots
<1>7. encode_record.generation = old.generation + 1 /\ encode_record.version = call.target
  BY <1>1 DEF encode_record
<1>c. slot \in [Slots -> Record] /\ slot[0].generation \in Int /\ slot[1].generation \in Int
  BY <1>2 DEF TypeOK, Record
<1>d. \/ ~decode_record(slot[0]) /\ ~decode_record(slot[1]) /\ old.active = NoSlot
      \/ /\ decode_record(slot[1]) /\ old.active = 1
         /\ decode_record(slot[0]) => slot[0].generation < slot[1].generation
      \/ /\ decode_record(slot[0]) /\ old.active = 0
         /\ decode_record(slot[1]) => slot[1].generation < slot[0].generation
  BY <1>c, ReadNone, ReadOne, ReadZero DEF SlotsOrdered
<1>8. ~decode_record(NoRecord)
  BY DEF decode_record, NoRecord
<1>9. CASE inactive = 0
  <2>1. w[0] = r /\ w[1] = slot[1]
    BY <1>4, <1>9 DEF TypeOK, Slots
  <2>2. ~decode_record(slot[0]) \/ (decode_record(slot[1]) /\ slot[1].generation > slot[0].generation)
    BY <1>1, <1>c, <1>d, <1>9 DEF inactive, NoSlot
  <2>3. old.version = IF decode_record(slot[1]) THEN slot[1].version ELSE 0
    BY <2>2, <1>c, ReadNone, ReadOne, ReadZero
  <2>4. old.generation = IF decode_record(slot[1]) THEN slot[1].generation ELSE 0
    BY <2>2, <1>c, ReadNone, ReadOne, ReadZero
  <2>5. r \in {slot[0], encode_record, NoRecord}
    BY <1>4, <1>9
  <2>6. CASE r = slot[0]
    <3>1. w = slot
      BY <2>6, <1>4, <1>9 DEF TypeOK, Slots
    <3> QED
      BY <3>1, <1>6 DEF SlotsOrdered
  <2>7. CASE r = encode_record
    <3>1. decode_record(w[1]) => w[1].generation < w[0].generation /\ w[1].version < w[0].version
      BY <2>7, <2>1, <2>3, <2>4, <1>1, <1>7, <1>2 DEF State, ReadStatuses, Statuses, Record
    <3>2. w[0].version = call.target /\ decode_record(w[0])
      BY <2>7, <2>1, <1>1, <1>2, <1>7 DEF decode_record, State, ReadStatuses, Statuses
    <3>3. read_nvram(w).version = call.target
      BY <3>1, <3>2, <1>6 DEF read_nvram, selected, Record, Slots, decode_record
    <3> QED
      BY <3>1, <3>3, <1>6
  <2>8. CASE r = NoRecord
    <3>1. ~decode_record(w[0])
      BY <2>8, <2>1, <1>8
    <3>2. read_nvram(w).version = old.version
      BY <3>1, <2>1, <2>3 DEF read_nvram, selected, Failed
    <3> QED
      BY <3>1, <3>2, <1>6
  <2> QED
    BY <2>5, <2>6, <2>7, <2>8
<1>10. CASE inactive = 1
  <2>1. w[1] = r /\ w[0] = slot[0]
    BY <1>4, <1>10 DEF TypeOK, Slots
  <2>2. decode_record(slot[0]) /\ ~(decode_record(slot[1]) /\ slot[1].generation >= slot[0].generation)
    BY <1>1, <1>c, <1>d, <1>10 DEF inactive, NoSlot
  <2>3. old.version = slot[0].version /\ old.generation = slot[0].generation
    BY <2>2, <1>c, ReadNone, ReadOne, ReadZero
  <2>5. r \in {slot[1], encode_record, NoRecord}
    BY <1>4, <1>10
  <2>6. CASE r = slot[1]
    <3>1. w = slot
      BY <2>6, <1>4, <1>10 DEF TypeOK, Slots
    <3> QED
      BY <3>1, <1>6 DEF SlotsOrdered
  <2>7. CASE r = encode_record
    <3>1. w[0].generation < w[1].generation /\ w[0].version < w[1].version
      BY <2>7, <2>1, <2>3, <1>1, <1>7, <1>2 DEF State, ReadStatuses, Statuses
    <3>2. w[1].version = call.target /\ decode_record(w[1])
      BY <2>7, <2>1, <1>1, <1>2, <1>7 DEF decode_record, State, ReadStatuses, Statuses
    <3>3. read_nvram(w).version = call.target
      BY <3>1, <3>2, <1>6 DEF read_nvram, selected, Record, Slots, decode_record
    <3> QED
      BY <3>1, <3>3, <1>6
  <2>8. CASE r = NoRecord
    <3>1. ~decode_record(w[1])
      BY <2>8, <2>1, <1>8
    <3>2. read_nvram(w).version = old.version
      BY <3>1, <2>1, <2>2, <2>3 DEF read_nvram, selected, Failed
    <3> QED
      BY <3>1, <3>2, <1>6
  <2> QED
    BY <2>5, <2>6, <2>7, <2>8
<1> QED
  BY <1>5, <1>9, <1>10 DEF Slots

-----------------------------------------------------------------------------
LEMMA InitIInv == Init => IInv
<1> SUFFICES ASSUME Init PROVE IInv
  OBVIOUS
<1>1. TypeOK
  BY GenerationAssumption
  DEF Init, TypeOK, Idle, NoResult, NoRecord, Record, Slots, Modes, Undefined,
      State, Failed, NoSlot, ReadStatuses, Statuses
<1>2. SlotsOrdered
  BY DEF Init, SlotsOrdered, decode_record, NoRecord, Slots
<1>3. CurrentIsFresh /\ PendingHasNoResult /\ OkMeansDurable
  BY DEF Init, CurrentIsFresh, PendingHasNoResult, OkMeansDurable, Idle, NoResult
<1> QED
  BY <1>1, <1>2, <1>3 DEF IInv

(* One step: the invariant is preserved and no medium goes back.           *)
LEMMA StepIInv ==
    ASSUME IInv, Next
    PROVE  IInv' /\ \A m \in Modes : DurableVersion(m)' >= DurableVersion(m)
<1> USE DEF IInv
<1>t. /\ slot \in [Slots -> Record] /\ nv \in Nat \cup {Undefined}
      /\ Idle \in [pc : {"idle", "write", "verify"},
                   op : {"none", "advance", "initialize"},
                   mode : Modes, target : Nat, current : State]
      /\ NoResult \in [op : {"none", "read", "advance", "initialize"}, mode : Modes,
                       status : Statuses, version : Nat]
      /\ read_nvram(slot) \in State
  BY ReadNvramType, GenerationAssumption
  DEF TypeOK, Idle, NoResult, Modes, State, ReadStatuses, Statuses, Failed, NoSlot
<1>s. \A m \in Modes : UNCHANGED <<slot, nv>> => DurableVersion(m)' = DurableVersion(m)
  BY DEF DurableVersion
<1>n. \A m \in Modes : DurableVersion(m) \in Nat
  BY <1>t DEF DurableVersion, State, ReadStatuses, Statuses, Undefined
<1>1. ASSUME NEW mode \in Modes, Read(mode)
      PROVE  IInv' /\ \A m \in Modes : DurableVersion(m)' >= DurableVersion(m)
  <2>1. PICK a \in Answers(mode) : Returns("read", mode, a.status, a.version)
    BY <1>1 DEF Read
  <2>2. a \in State
    BY <2>1, <1>t, AnswersType
  <2>3. TypeOK'
    BY <1>1, <2>1, <2>2 DEF TypeOK, Read, Returns, State, ReadStatuses, Statuses
  <2>4. SlotsOrdered' /\ CurrentIsFresh' /\ PendingHasNoResult' /\ OkMeansDurable'
    BY <1>1, <2>1
    DEF SlotsOrdered, CurrentIsFresh, PendingHasNoResult, OkMeansDurable, Read, Returns
  <2> QED
    BY <1>1, <2>3, <2>4, <1>s, <1>n DEF Read
<1>2. ASSUME NEW mode \in Modes, NEW target \in Versions \cup {0},
             NEW auth \in Authorizations, Advance(mode, target, auth)
      PROVE  IInv' /\ \A m \in Modes : DurableVersion(m)' >= DurableVersion(m)
  <2>1. PICK cur \in Answers(mode) :
          IF Refusal(mode, target, auth, cur) = "OK"
          THEN /\ call' = [pc |-> "write", op |-> "advance", mode |-> mode,
                           target |-> target, current |-> cur]
               /\ result' = NoResult
          ELSE /\ Returns("advance", mode, Refusal(mode, target, auth, cur), target)
               /\ UNCHANGED call
    BY <1>2 DEF Advance
  <2>2. cur \in State /\ target \in Nat
    BY <2>1, <1>t, AnswersType, VersionsAssumption
  <2>3. UNCHANGED <<slot, nv>>
    BY <1>2 DEF Advance
  <2>4. CASE Refusal(mode, target, auth, cur) = "OK"
    <3>1. /\ target \in Versions /\ cur.status = "OK" /\ target > cur.version
          /\ mode = "S" => cur.generation # MaxGeneration
      BY <2>4, <2>2 DEF Refusal, State, ReadStatuses, Statuses, Modes
    <3>2. mode = "S" => cur = read_nvram(slot)
      BY <2>1, <3>1 DEF Answers, ReadFaults, Failed
    <3>3. CurrentIsFresh'
      BY <2>1, <2>4, <3>1, <3>2, <2>2, <2>3, GenerationAssumption
      DEF CurrentIsFresh, State, ReadStatuses, Statuses
    <3>4. TypeOK'
      BY <2>1, <2>2, <2>3, <2>4, <1>t DEF TypeOK
    <3>5. SlotsOrdered' /\ PendingHasNoResult' /\ OkMeansDurable'
      <4>1. result' = NoResult
        BY <2>1, <2>4
      <4>2. SlotsOrdered'
        BY <2>3 DEF SlotsOrdered
      <4> QED
        BY <4>1, <4>2 DEF PendingHasNoResult, OkMeansDurable, NoResult
    <3> QED
      BY <3>3, <3>4, <3>5, <2>3, <1>s, <1>n
  <2>5. CASE Refusal(mode, target, auth, cur) # "OK"
    <3>1. Refusal(mode, target, auth, cur) \in Statuses
      BY <2>2 DEF Refusal, State, ReadStatuses, Statuses
    <3>2. TypeOK'
      BY <2>1, <2>2, <2>3, <2>5, <3>1 DEF TypeOK, Returns
    <3>3. CurrentIsFresh'
      BY <2>1, <2>3, <2>5 DEF CurrentIsFresh
    <3>4. SlotsOrdered' /\ PendingHasNoResult' /\ OkMeansDurable'
      <4>1. call' = call /\ call.pc = "idle"
        BY <1>2, <2>1, <2>5 DEF Advance
      <4>2. result'.status # "OK"
        BY <2>1, <2>5 DEF Returns
      <4>3. SlotsOrdered'
        BY <2>3 DEF SlotsOrdered
      <4> QED
        BY <4>1, <4>2, <4>3 DEF PendingHasNoResult, OkMeansDurable
    <3> QED
      BY <3>2, <3>3, <3>4, <2>3, <1>s, <1>n
  <2> QED
    BY <2>4, <2>5
<1>3. ASSUME NEW auth \in Authorizations, Initialize(auth)
      PROVE  IInv' /\ \A m \in Modes : DurableVersion(m)' >= DurableVersion(m)
  <2>1. auth.target \in Versions /\ auth.target \in Nat
    BY VersionsAssumption DEF Authorizations
  <2>2. slot' = slot
    BY <1>3 DEF Initialize
  <2>3. CASE UNCHANGED <<nv, call>>
             /\ Returns("initialize", "T", "SECURITY_VIOLATION", auth.target)
    <3>1. TypeOK'
      BY <2>1, <2>2, <2>3 DEF TypeOK, Returns, Modes, Statuses
    <3>2. SlotsOrdered' /\ CurrentIsFresh' /\ PendingHasNoResult' /\ OkMeansDurable'
      BY <1>3, <2>2, <2>3
      DEF SlotsOrdered, CurrentIsFresh, PendingHasNoResult, OkMeansDurable, Returns, Initialize
    <3> QED
      BY <3>1, <3>2, <2>2, <2>3, <1>s, <1>n
  <2>4. CASE /\ nv \in {Undefined, Unwritten} /\ nv' = Unwritten
             /\ call' = [pc |-> "write", op |-> "initialize", mode |-> "T",
                         target |-> auth.target, current |-> Failed("OK")]
             /\ result' = NoResult
    <3>1. Failed("OK") \in State
      BY GenerationAssumption DEF Failed, State, ReadStatuses, Statuses, NoSlot
    <3>2. TypeOK'
      BY <2>1, <2>2, <2>4, <3>1, <1>t, SMTT(30) DEF TypeOK, Modes, Unwritten
    <3>3. SlotsOrdered' /\ CurrentIsFresh' /\ PendingHasNoResult' /\ OkMeansDurable'
      BY <2>1, <2>2, <2>4
      DEF SlotsOrdered, CurrentIsFresh, PendingHasNoResult, OkMeansDurable, NoResult
    <3>4. \A m \in Modes : DurableVersion(m)' >= DurableVersion(m)
      BY <2>2, <2>4, <1>n DEF DurableVersion, Undefined, Unwritten
    <3> QED
      BY <3>2, <3>3, <3>4
  <2> QED
    BY <1>3, <2>3, <2>4 DEF Initialize
<1>c. call.mode \in Modes /\ call.target \in Nat
  BY DEF TypeOK
<1>r. ASSUME NEW st \in Statuses, ReturnsFrom(st), st # "OK"
      PROVE  /\ result' \in [op : {"none", "read", "advance", "initialize"},
                              mode : Modes, status : Statuses, version : Nat]
             /\ result'.status # "OK"
  BY <1>r, <1>c DEF ReturnsFrom, Returns, TypeOK, Statuses
<1>4. ASSUME write_slot
      PROVE  IInv' /\ \A m \in Modes : DurableVersion(m)' >= DurableVersion(m)
  <2>1. /\ slot' \in [Slots -> Record]
        /\ read_nvram(slot').version \in {read_nvram(slot).version, call.target}
        /\ SlotsOrdered'
    BY <1>4, SlotWriteLemma DEF write_slot, SlotsOrdered
  <2>2. call.target > read_nvram(slot).version
    BY <1>4 DEF write_slot, CurrentIsFresh
  <2>3. \A m \in Modes : DurableVersion(m)' >= DurableVersion(m)
    BY <2>1, <2>2, <1>4, <1>n, <1>c DEF DurableVersion, write_slot
  <2>4. CASE call' = Verifying /\ UNCHANGED result
    <3>1. TypeOK'
      BY <2>1, <2>4, <1>4 DEF TypeOK, Verifying, write_slot
    <3>2. CurrentIsFresh'
      BY <1>4, <2>4 DEF CurrentIsFresh, Verifying, TypeOK, write_slot
    <3>3. PendingHasNoResult' /\ OkMeansDurable'
      BY <1>4, <2>4 DEF write_slot, PendingHasNoResult, OkMeansDurable, NoResult
    <3> QED
      BY <3>1, <3>2, <3>3, <2>1, <2>3
  <2>5. CASE call' = Idle /\ ReturnsFrom("IO")
    <3>1. TypeOK'
      BY <2>1, <2>5, <1>4, <1>t, <1>r DEF TypeOK, write_slot, Statuses, ReadStatuses
    <3>2. CurrentIsFresh' /\ PendingHasNoResult' /\ OkMeansDurable'
      BY <2>5, <1>r DEF CurrentIsFresh, PendingHasNoResult, OkMeansDurable, Idle, Statuses, ReadStatuses
    <3> QED
      BY <3>1, <3>2, <2>1, <2>3
  <2> QED
    BY <1>4, <2>4, <2>5 DEF write_slot
<1>5. ASSUME execute_policy
      PROVE  IInv' /\ \A m \in Modes : DurableVersion(m)' >= DurableVersion(m)
  <2>1. slot' = slot /\ call.pc = "write" /\ call.target \in Nat \ {0}
    BY <1>5, VersionsAssumption DEF execute_policy, CurrentIsFresh
  <2>2. nv' = nv \/ (nv < call.target /\ nv' = call.target)
    BY <1>5 DEF execute_policy, PolicyHolds
  <2>3. \A m \in Modes : DurableVersion(m)' >= DurableVersion(m)
    BY <2>1, <2>2, <1>n, <1>t DEF DurableVersion, Undefined
  <2>4. nv' \in Nat \cup {Undefined} /\ SlotsOrdered'
    BY <2>1, <2>2, <1>t DEF SlotsOrdered
  <2>5. CASE call' = Verifying /\ UNCHANGED result
    <3>1. TypeOK'
      BY <2>1, <2>4, <2>5 DEF TypeOK, Verifying
    <3>2. CurrentIsFresh' /\ PendingHasNoResult' /\ OkMeansDurable'
      BY <2>1, <2>5
      DEF CurrentIsFresh, Verifying, TypeOK, PendingHasNoResult, OkMeansDurable, NoResult
    <3> QED
      BY <3>1, <3>2, <2>3, <2>4
  <2>6. CASE call' = Idle /\ \E s \in {"BUSY", "CRYPTO", "STATE"} : ReturnsFrom(s)
    <3>1. TypeOK' /\ result'.status # "OK"
      BY <2>1, <2>4, <2>6, <1>t, <1>r, SMTT(30) DEF TypeOK, Statuses, ReadStatuses
    <3>2. CurrentIsFresh' /\ PendingHasNoResult' /\ OkMeansDurable'
      BY <2>6, <3>1 DEF CurrentIsFresh, PendingHasNoResult, OkMeansDurable, Idle
    <3> QED
      BY <3>1, <3>2, <2>3, <2>4
  <2> QED
    BY <1>5, <2>5, <2>6 DEF execute_policy
<1>6. ASSUME Verify
      PROVE  IInv' /\ \A m \in Modes : DurableVersion(m)' >= DurableVersion(m)
  <2>1. UNCHANGED <<slot, nv>> /\ call' = Idle /\ call.pc = "verify"
    BY <1>6 DEF Verify
  <2>2. PICK seen \in Answers(call.mode) : ReturnsFrom(VerifyStatus(seen))
    BY <1>6 DEF Verify
  <2>3. seen \in State
    BY <2>2, <1>t, <1>c, AnswersType
  <2>4. VerifyStatus(seen) \in Statuses
    BY <2>3 DEF VerifyStatus, State, ReadStatuses, Statuses
  <2>5. TypeOK'
    BY <2>1, <2>2, <2>4, <1>t, <1>c DEF TypeOK, ReturnsFrom, Returns, Statuses
  <2>6. OkMeansDurable'
    <3>1. SUFFICES ASSUME result'.status = "OK"
                   PROVE  DurableVersion(call.mode) = call.target
      BY <2>1, <2>2, <1>c DEF OkMeansDurable, ReturnsFrom, Returns, DurableVersion
    <3>2. VerifyStatus(seen) = "OK"
      BY <3>1, <2>2 DEF ReturnsFrom, Returns
    <3>3. seen.status = "OK" /\ seen.version = call.target
      BY <3>2, SMTT(30) DEF VerifyStatus
    <3>4. seen = IF call.mode = "T" THEN read_current(nv) ELSE read_nvram(slot)
      BY <3>3 DEF Answers, ReadFaults, Failed
    <3>5. CASE call.mode = "T"
      BY <3>3, <3>4, <3>5, <1>t DEF read_current, Failed, DurableVersion, Undefined, Unwritten
    <3>6. CASE call.mode = "S"
      BY <3>3, <3>4, <3>6, SMTT(30) DEF DurableVersion
    <3> QED
      BY <3>5, <3>6, <1>c DEF Modes
  <2>7. SlotsOrdered' /\ CurrentIsFresh' /\ PendingHasNoResult'
    BY <2>1 DEF SlotsOrdered, CurrentIsFresh, PendingHasNoResult, Idle
  <2> QED
    BY <2>1, <2>5, <2>6, <2>7, <1>s, <1>n
<1>7. ASSUME PowerLoss
      PROVE  IInv' /\ \A m \in Modes : DurableVersion(m)' >= DurableVersion(m)
  <2>1. call' = Idle /\ result' = NoResult
    BY <1>7, SMTT(30) DEF PowerLoss
  <2>2. CASE call.pc = "write" /\ call.mode = "S"
    <3>1. /\ slot' \in [Slots -> Record]
          /\ read_nvram(slot').version \in {read_nvram(slot).version, call.target}
          /\ SlotsOrdered' /\ nv' = nv
      BY <1>7, <2>2, SlotWriteLemma DEF PowerLoss, SlotsOrdered
    <3>2. call.target > read_nvram(slot).version
      BY <2>2 DEF CurrentIsFresh
    <3>3. \A m \in Modes : DurableVersion(m)' >= DurableVersion(m)
      BY <3>1, <3>2, <1>n, <1>c, SMTT(30) DEF DurableVersion
    <3> QED
      BY <3>1, <3>3, <2>1, <1>t, SMTT(30)
      DEF TypeOK, CurrentIsFresh, PendingHasNoResult, OkMeansDurable, Idle, NoResult
  <2>3. CASE ~(call.pc = "write" /\ call.mode = "S")
    <3>1. slot' = slot /\ (nv' = nv \/ (nv < call.target /\ nv' = call.target))
      BY <1>7, <2>3 DEF PowerLoss, PolicyHolds
    <3>2. nv' \in Nat \cup {Undefined} /\ SlotsOrdered'
      BY <3>1, <1>t, <1>c DEF SlotsOrdered
    <3>3. \A m \in Modes : DurableVersion(m)' >= DurableVersion(m)
      BY <3>1, <1>n, <1>t, <1>c DEF DurableVersion, Undefined
    <3> QED
      BY <3>1, <3>2, <3>3, <2>1, <1>t
      DEF TypeOK, CurrentIsFresh, PendingHasNoResult, OkMeansDurable, Idle, NoResult
  <2> QED
    BY <2>2, <2>3
<1> QED
  BY <1>1, <1>2, <1>3, <1>4, <1>5, <1>6, <1>7 DEF Next

LEMMA StutterIInv == IInv /\ UNCHANGED vars => IInv'
BY DEF IInv, TypeOK, SlotsOrdered, CurrentIsFresh, PendingHasNoResult,
       OkMeansDurable, DurableVersion, vars

(* The inductive invariant of the register.                                *)
THEOREM Invariance == Spec => []IInv
<1>1. IInv /\ [Next]_vars => IInv'
  BY StepIInv, StutterIInv
<1> QED
  BY InitIInv, <1>1, PTL DEF Spec

(* The variables never hold two records of one generation: the controller  *)
(* never answers PBNS_ERR_AMBIGUOUS.                                       *)
THEOREM NeverAmbiguousAlways == Spec => []NeverAmbiguous
<1>1. IInv => NeverAmbiguous
  BY DEF IInv, TypeOK, SlotsOrdered, NeverAmbiguous, read_nvram, Failed,
         decode_record, Record, Slots
<1> QED
  BY Invariance, <1>1, PTL

(* An advance that returned PBNS_OK is durable.                            *)
THEOREM OkMeansDurableAlways == Spec => []OkMeansDurable
<1>1. IInv => OkMeansDurable
  BY DEF IInv
<1> QED
  BY Invariance, <1>1, PTL

(* Neither medium ever goes back to a lower version.                       *)
THEOREM NoRollbackAlways == Spec => NoRollback
<1>1. IInv /\ [Next]_vars => [\A m \in Modes : DurableVersion(m)' >= DurableVersion(m)]_vars
  BY StepIInv
<1> QED
  BY Invariance, <1>1, PTL DEF Spec, NoRollback

-----------------------------------------------------------------------------
(* Every step of the controller is a step of the abstract register.        *)
LEMMA StepRegister ==
    ASSUME IInv, Next
    PROVE  Register!Next \/ UNCHANGED Register!vars
<1> DEFINE V == [m \in Modes |-> DurableVersion(m)]
<1> USE DEF IInv
<1>t. /\ slot \in [Slots -> Record] /\ nv \in Nat \cup {Undefined}
      /\ call.mode \in Modes /\ call.target \in Nat
  BY DEF TypeOK
<1>s. UNCHANGED <<slot, nv>> => V' = V
  BY DEF DurableVersion
<1>v. ASSUME slot' = slot, nv' = call.target, call.target \in Nat \ {0}, call.mode = "T"
      PROVE  V' = [V EXCEPT ![call.mode] = call.target]
  <2>1. DurableVersion("T")' = call.target /\ DurableVersion("S")' = DurableVersion("S")
    BY <1>v DEF DurableVersion
  <2>2. V' = [m \in Modes |-> IF m = "T" THEN call.target ELSE DurableVersion(m)]
    BY <2>1 DEF Modes
  <2> QED
    BY <2>2, <1>v DEF Modes
<1>p. UNCHANGED call => Pending' = Pending
  BY DEF Pending
<1>i. call.pc = "idle" => Pending = Register!Quiet
  BY DEF Pending, Register!Quiet
<1>j. call' = Idle => Pending' = Register!Quiet
  BY DEF Pending, Register!Quiet, Idle
<1>k. call.pc = "write" /\ call' = Verifying => Pending' = Pending
  BY DEF Pending, Verifying, TypeOK
<1>q. ASSUME call.pc # "idle" PROVE Pending[call.mode] = call.target
  BY <1>q, <1>t DEF Pending
<1>f. ASSUME NEW st \in Statuses, ReturnsFrom(st), st # "OK" PROVE Answered' = <<>>
  BY <1>f DEF Answered, ReturnsFrom, Returns
<1>1. ASSUME NEW mode \in Modes, Read(mode) PROVE Register!Forget
  BY <1>1, <1>s, <1>p DEF Read, Register!Forget, Answered, Returns
<1>2. ASSUME NEW mode \in Modes, NEW target \in Versions \cup {0},
             NEW auth \in Authorizations, Advance(mode, target, auth)
      PROVE  Register!Next
  <2>1. PICK cur \in Answers(mode) :
          IF Refusal(mode, target, auth, cur) = "OK"
          THEN /\ call' = [pc |-> "write", op |-> "advance", mode |-> mode,
                           target |-> target, current |-> cur]
               /\ result' = NoResult
          ELSE /\ Returns("advance", mode, Refusal(mode, target, auth, cur), target)
               /\ UNCHANGED call
    BY <1>2 DEF Advance
  <2>2. UNCHANGED <<slot, nv>> /\ call.pc = "idle"
    BY <1>2 DEF Advance
  <2>3. CASE Refusal(mode, target, auth, cur) # "OK"
    <3>1. Register!Forget
      <4>1. result'.status # "OK"
        BY <2>1, <2>3 DEF Returns
      <4>2. Answered' = <<>>
        BY <4>1 DEF Answered
      <4>3. UNCHANGED call
        BY <2>1, <2>3
      <4> QED
        BY <4>2, <4>3, <2>2, <1>s, <1>p DEF Register!Forget
    <3> QED
      BY <3>1 DEF Register!Next
  <2>4. CASE Refusal(mode, target, auth, cur) = "OK"
    <3>1. target \in Versions /\ cur.status = "OK" /\ target > cur.version
      <4>1. cur \in State /\ target \in Nat
        BY <2>1, <1>t, AnswersType, VersionsAssumption, SMTT(30)
      <4> QED
        BY <4>1, <2>4 DEF Refusal, State
    <3>2. cur = IF mode = "T" THEN read_current(nv) ELSE read_nvram(slot)
      <4>1. \A f \in ReadFaults(mode) : Failed(f).status # "OK"
        BY DEF ReadFaults, Failed
      <4> QED
        BY <4>1, <2>1, <3>1 DEF Answers
    <3>3. cur.version = DurableVersion(mode)
      <4>1. CASE mode = "T"
        BY <4>1, <3>1, <3>2, <1>t
        DEF read_current, Failed, DurableVersion, Undefined, Unwritten
      <4>2. CASE mode = "S"
        BY <4>2, <3>2 DEF DurableVersion
      <4> QED
        BY <4>1, <4>2 DEF Modes
    <3>4. Pending' = [Register!Quiet EXCEPT ![mode] = target]
      BY <2>1, <2>4 DEF Pending, Register!Quiet
    <3>5. Answered' = <<>>
      BY <2>1, <2>4 DEF Answered, NoResult
    <3>6. Register!Begin(mode, target)
      BY <3>1, <3>3, <3>4, <3>5, <2>2, <1>i, <1>s DEF Register!Begin
    <3> QED
      BY <3>1, <3>6 DEF Register!Next
  <2> QED
    BY <2>3, <2>4
<1>3. ASSUME NEW auth \in Authorizations, Initialize(auth)
      PROVE  Register!Next
  <2>1. auth.target \in Versions /\ auth.target \in Nat \ {0}
    BY VersionsAssumption DEF Authorizations
  <2>2. CASE UNCHANGED <<nv, call>>
             /\ Returns("initialize", "T", "SECURITY_VIOLATION", auth.target)
    <3>1. Register!Forget
      BY <1>3, <2>2, <1>s, <1>p DEF Initialize, Register!Forget, Answered, Returns
    <3> QED
      BY <3>1 DEF Register!Next
  <2>3. CASE /\ nv \in {Undefined, Unwritten} /\ nv' = Unwritten
             /\ call' = [pc |-> "write", op |-> "initialize", mode |-> "T",
                         target |-> auth.target, current |-> Failed("OK")]
             /\ result' = NoResult
    <3>1. V' = V /\ V["T"] = 0
      BY <1>3, <2>3 DEF Initialize, DurableVersion, Undefined, Unwritten, Modes
    <3>2. Pending' = [Register!Quiet EXCEPT !["T"] = auth.target]
      BY <2>3 DEF Pending, Register!Quiet
    <3>3. Answered' = <<>>
      BY <2>3 DEF Answered, NoResult
    <3>4. Register!Begin("T", auth.target)
      BY <1>3, <2>1, <3>1, <3>2, <3>3, <1>i DEF Register!Begin, Initialize
    <3> QED
      BY <3>4, <2>1 DEF Register!Next, Modes
  <2> QED
    BY <1>3, <2>2, <2>3 DEF Initialize
<1>4. ASSUME write_slot PROVE Register!Next
  <2>1. /\ read_nvram(slot').version \in {read_nvram(slot).version, call.target}
        /\ nv' = nv /\ call.mode = "S" /\ call.pc = "write"
    BY <1>4, SlotWriteLemma DEF write_slot
  <2>2. V' \in {V, [V EXCEPT ![call.mode] = call.target]}
    BY <2>1 DEF DurableVersion, Modes
  <2>3. call.target # 0
    BY <2>1, VersionsAssumption DEF CurrentIsFresh
  <2>4. Pending' \in {Pending, Register!Quiet} /\ Answered' = <<>>
    <3>1. CASE call' = Verifying /\ UNCHANGED result
      <4>1. result' = NoResult
        BY <3>1, <2>1 DEF PendingHasNoResult
      <4> QED
        BY <4>1, <3>1, <2>1, <1>k DEF NoResult, Answered
    <3>2. CASE call' = Idle /\ ReturnsFrom("IO")
      BY <3>2, <1>j, <1>f DEF Statuses, ReadStatuses
    <3> QED
      BY <1>4, <3>1, <3>2 DEF write_slot
  <2>5. Register!Progress(call.mode)
    BY <2>1, <2>2, <2>3, <2>4, <1>q DEF Register!Progress
  <2> QED
    BY <2>5, <1>t, SMTT(30) DEF Register!Next
<1>5. ASSUME execute_policy PROVE Register!Next
  <2>1. /\ slot' = slot /\ call.mode = "T" /\ call.pc = "write"
        /\ call.target \in Nat \ {0}
        /\ nv' \in {nv, call.target}
    BY <1>5, VersionsAssumption DEF execute_policy, CurrentIsFresh
  <2>2. V' \in {V, [V EXCEPT ![call.mode] = call.target]}
    <3>1. CASE nv' = nv
      BY <3>1, <2>1, <1>s
    <3>2. CASE nv' = call.target
      BY <3>2, <2>1, <1>v
    <3> QED
      BY <2>1, <3>1, <3>2
  <2>3. Pending' \in {Pending, Register!Quiet} /\ Answered' = <<>>
    <3>1. CASE call' = Verifying /\ UNCHANGED result
      <4>1. result' = NoResult
        BY <3>1, <2>1 DEF PendingHasNoResult
      <4> QED
        BY <4>1, <3>1, <2>1, <1>k DEF NoResult, Answered
    <3>2. CASE call' = Idle /\ \E s \in {"BUSY", "CRYPTO", "STATE"} : ReturnsFrom(s)
      BY <3>2, <1>j, <1>f DEF Statuses, ReadStatuses
    <3> QED
      BY <1>5, <3>1, <3>2 DEF execute_policy
  <2>4. Register!Progress(call.mode)
    BY <2>1, <2>2, <2>3, <1>q DEF Register!Progress
  <2> QED
    BY <2>4, <1>t DEF Register!Next
<1>6. ASSUME Verify PROVE Register!Next
  <2>1. UNCHANGED <<slot, nv>> /\ call' = Idle /\ call.pc = "verify"
    BY <1>6 DEF Verify
  <2>2. call.target # 0
    BY <2>1, VersionsAssumption DEF CurrentIsFresh
  <2>3. /\ result'.mode = call.mode /\ result'.version = call.target
        /\ Answered' \in {<<>>, <<call.mode, call.target>>}
    BY <1>6 DEF Verify, ReturnsFrom, Returns, Answered
  <2>4. Answered' = <<>> \/ (V[call.mode] = call.target /\ Answered' = <<call.mode, call.target>>)
    <3>1. OkMeansDurable'
      BY StepIInv
    <3>2. result'.status = "OK" /\ result'.op \in {"advance", "initialize"}
          => V[call.mode] = call.target
      BY <3>1, <2>1, <2>3, <1>t DEF OkMeansDurable, DurableVersion
    <3> QED
      BY <3>2, <2>3 DEF Answered
  <2>5. Register!Progress(call.mode)
    BY <2>1, <2>2, <2>4, <1>q, <1>s, <1>j DEF Register!Progress
  <2> QED
    BY <2>5, <1>t DEF Register!Next
<1>7. ASSUME PowerLoss PROVE Register!Next
  <2>1. call' = Idle /\ result' = NoResult /\ call.pc # "idle" /\ call.target \in Nat \ {0}
    BY <1>7, VersionsAssumption DEF PowerLoss, CurrentIsFresh
  <2>2. V' \in {V, [V EXCEPT ![call.mode] = call.target]}
    <3>1. CASE call.pc = "write" /\ call.mode = "S"
      <4>1. /\ read_nvram(slot').version \in {read_nvram(slot).version, call.target}
            /\ nv' = nv
        BY <1>7, <3>1, SlotWriteLemma DEF PowerLoss
      <4> QED
        BY <4>1, <3>1 DEF DurableVersion, Modes
    <3>2. CASE call.pc = "write" /\ call.mode = "T"
      <4>1. slot' = slot /\ nv' \in {nv, call.target}
        BY <1>7, <3>2 DEF PowerLoss
      <4>2. CASE nv' = nv
        BY <4>1, <4>2, <1>s
      <4>3. CASE nv' = call.target
        BY <4>1, <4>3, <3>2, <2>1, <1>v
      <4> QED
        BY <4>1, <4>2, <4>3
    <3>3. CASE call.pc # "write"
      BY <1>7, <3>3, <1>s DEF PowerLoss
    <3> QED
      BY <3>1, <3>2, <3>3, <1>t DEF Modes
  <2>3. Answered' = <<>>
    BY <2>1 DEF Answered, NoResult
  <2>4. Register!Progress(call.mode)
    BY <2>1, <2>2, <2>3, <1>q, <1>j DEF Register!Progress
  <2> QED
    BY <2>4, <1>t DEF Register!Next
<1>8. Register!Forget => Register!Next
  BY DEF Register!Next
<1> QED
  BY <1>1, <1>2, <1>3, <1>4, <1>5, <1>6, <1>7, <1>8 DEF Next

(* The controller implements the abstract register: advances are atomic.   *)
THEOREM Implementation == Spec => ImplementsRegister
<1>1. Init => Register!Init
  <2> SUFFICES ASSUME Init PROVE Register!Init
    OBVIOUS
  <2>1. ~decode_record(slot[0]) /\ ~decode_record(slot[1])
    BY DEF Init, NoRecord, decode_record, Slots
  <2>2. \A m \in Modes : DurableVersion(m) = 0
    BY <2>1, ReadNone DEF Init, DurableVersion, Undefined
  <2>3. Pending = Register!Quiet
    BY DEF Init, Idle, Pending, Register!Quiet
  <2>4. Answered = <<>>
    BY DEF Init, NoResult, Answered
  <2> QED
    BY <2>2, <2>3, <2>4 DEF Register!Init, Register!Quiet
<1>2. IInv /\ [Next]_vars => [Register!Next]_(Register!vars)
  <2>1. UNCHANGED vars => UNCHANGED Register!vars
    BY DEF vars, Register!vars, Pending, Answered, DurableVersion
  <2> QED
    BY <2>1, StepRegister
<1> QED
  BY Invariance, <1>1, <1>2, PTL DEF Spec, ImplementsRegister, Register!Spec

-----------------------------------------------------------------------------
(***************************************************************************)
(* An image is started only when its version is durable and above every    *)
(* version started before, for every set of versions, artifacts and        *)
(* digests, and over any number of boots.  The register is used through    *)
(* its own invariant: every step of the client is a step of the register   *)
(* or leaves it alone, so that the register's theorems hold here too.      *)
(***************************************************************************)

Manifest == [ready : BOOLEAN, version : Nat, digest : Digests \cup {"none"}]
RunStages == {"OFF", "CONFIRM", "TIME", "MANIFEST", "ALLOCATE", "STREAM", "DIGEST",
              "LOAD_VERIFY", "ADVANCE_VERSION", "ADVANCING", "START", "BOOTED", "FAILED"}
Runs == [stage : RunStages, mode : Modes, service : BOOLEAN, manifest : Manifest,
         plan : Manifest, auth : [kind : {"NONE", "UPDATE"}, target : Nat],
         pages : Digests \cup {"blank", "none"}, handle : BOOLEAN,
         current : Nat, retained_valid : BOOLEAN, retained : Nat]

ClientTypeInv == /\ run \in Runs
                 /\ active \in Artifacts
                 /\ started \in [Modes -> SUBSET Versions]

WithPlan == {"ALLOCATE", "STREAM", "DIGEST", "LOAD_VERIFY", "ADVANCE_VERSION", "ADVANCING", "START"}
WithImage == {"LOAD_VERIFY", "ADVANCE_VERSION", "ADVANCING", "START"}
WithHandle == {"ADVANCE_VERSION", "ADVANCING", "START"}
WithTarget == {"ADVANCING", "START"}

(* What the run has established at each of its stages.                     *)
StageInv ==
    /\ run.stage \in WithPlan => /\ run.plan.version \in Versions
                                 /\ run.auth = PolicyOf(run.plan)
    /\ run.stage \in WithImage => run.pages = run.plan.digest
    /\ run.stage \in WithHandle => run.handle
    /\ run.stage \in WithTarget => \A v \in started[run.mode] : v < run.plan.version
    /\ run.stage = "START" => DurableVersion(run.mode) = run.plan.version

(* A version that was started has been durable ever since.                 *)
StartedInv == \A m \in Modes : \A v \in started[m] : v <= DurableVersion(m)

ClientInv == ClientTypeInv /\ StageInv /\ StartedInv

(* What an answer of the register with status OK says.                     *)
LEMMA OkAnswer ==
    ASSUME IInv, NEW m \in Modes, NEW a \in Answers(m), a.status = "OK"
    PROVE  a.version = DurableVersion(m)
<1>1. CASE m = "S"
  BY <1>1 DEF Answers, DurableVersion, ReadFaults, Failed, Modes
<1>2. CASE m = "T"
  <2>1. a = read_current(nv)
    BY <1>2 DEF Answers, ReadFaults, Failed
  <2>2. nv \in Nat /\ nv > 0 /\ a.version = nv
    BY <2>1 DEF IInv, TypeOK, read_current, Failed, Undefined, Unwritten
  <2> QED
    BY <1>2, <2>2 DEF DurableVersion
<1> QED
  BY <1>1, <1>2 DEF Modes

LEMMA DurableType == IInv => \A m \in Modes : DurableVersion(m) \in Nat
<1> SUFFICES ASSUME IInv, NEW m \in Modes PROVE DurableVersion(m) \in Nat
  OBVIOUS
<1>1. read_nvram(slot) \in State
  BY ReadNvramType, SMTT(30) DEF IInv, TypeOK
<1> QED
  BY <1>1 DEF DurableVersion, State, IInv, TypeOK

(* Every step of the client is a step of the register or leaves it alone.  *)
LEMMA RegisterSeesSteps ==
    ASSUME ClientInv, ClientNext
    PROVE  Next \/ UNCHANGED vars
<1>1. CASE AdvanceVersion
  <2>1. At("ADVANCE_VERSION")
    BY <1>1 DEF AdvanceVersion
  <2>2. run.plan.version \in Versions /\ run.mode \in Modes /\ run.auth = PolicyOf(run.plan)
    BY <2>1 DEF At, ClientInv, ClientTypeInv, Runs, StageInv, WithPlan
  <2>3. Authorization \in Authorizations
    BY <2>2 DEF Authorization, Authorizations, PolicyOf
  <2> QED
    BY <1>1, <2>2, <2>3 DEF AdvanceVersion, Next
<1>2. CASE RegisterStep
  BY <1>2 DEF RegisterStep, Next
<1>3. CASE Reset
  BY <1>3 DEF Reset, Next
<1>4. CASE Provision
  BY <1>4 DEF Provision, Next
<1> QED
  BY <1>1, <1>2, <1>3, <1>4
  DEF ClientNext, ClientStep, UefiMain, Confirm, TrustedTime, CreateFails, TimeFails,
      VerifiedManifest, ManifestFails, AllocatePages, StreamImage, StreamFails,
      VerifyDigest, LoadImage, AdvanceReturned, StartImage, Leave, Publish

-----------------------------------------------------------------------------
LEMMA SameDurable ==
    ASSUME UNCHANGED vars
    PROVE  \A m \in Modes : DurableVersion(m)' = DurableVersion(m)
BY DEF vars, DurableVersion

(* The register's own invariant and its monotonicity, seen from here.      *)
LEMMA RegisterKeeps ==
    ASSUME IInv, Next \/ UNCHANGED vars
    PROVE  /\ IInv'
           /\ \A m \in Modes : /\ DurableVersion(m) \in Nat /\ DurableVersion(m)' \in Nat
                               /\ DurableVersion(m)' >= DurableVersion(m)
<1>1. IInv'
  BY StepIInv, StutterIInv
<1>2. \A m \in Modes : DurableVersion(m) \in Nat
  BY DurableType
<1>3. \A m \in Modes : DurableVersion(m)' \in Nat
  <2>1. read_nvram(slot') \in State
    BY <1>1, ReadNvramType DEF IInv, TypeOK
  <2> QED
    BY <1>1, <2>1 DEF DurableVersion, State, IInv, TypeOK
<1>4. CASE Next
  BY <1>1, <1>2, <1>3, <1>4, StepIInv
<1>5. CASE UNCHANGED vars
  BY <1>1, <1>2, <1>3, <1>5, SameDurable
<1> QED
  BY <1>4, <1>5

LEMMA InitClient == ClientInit => IInv /\ ClientInv
<1> SUFFICES ASSUME ClientInit PROVE IInv /\ ClientInv
  OBVIOUS
<1>1. IInv
  BY InitIInv, SMTT(30) DEF ClientInit
<1>2. ClientTypeInv
  BY SMTT(30) DEF ClientInit, ClientTypeInv, Off, Runs, RunStages, Manifest, NoManifest, NoAuth, Modes
<1>3. StageInv
  BY DEF ClientInit, StageInv, Off, WithPlan, WithImage, WithHandle, WithTarget
<1>4. StartedInv
  BY DEF ClientInit, StartedInv
<1> QED
  BY <1>1, <1>2, <1>3, <1>4 DEF ClientInv

(* A run that fails or is off has nothing left to establish.               *)
LEMMA NothingDue ==
    ASSUME run'.stage \in {"OFF", "CONFIRM", "TIME", "MANIFEST", "BOOTED", "FAILED"}
    PROVE  StageInv'
BY DEF StageInv, WithPlan, WithImage, WithHandle, WithTarget

LEMMA FailRun ==
    ASSUME NEW r \in Runs, fail_run(r)
    PROVE  run' \in Runs /\ run'.stage = "FAILED"
BY DEF fail_run, Runs, RunStages

(* The stages up to the verified image: none of them touches the register. *)
LEMMA UpToTheImage ==
    ASSUME IInv, ClientInv,
           \/ UefiMain \/ Confirm \/ TrustedTime \/ CreateFails \/ TimeFails
           \/ VerifiedManifest \/ ManifestFails \/ AllocatePages \/ StreamImage \/ StreamFails
    PROVE  run' \in Runs /\ StageInv'
<1> USE DEF At, HostOnly, ClientInv, ClientTypeInv
<1>m. NoManifest \in Manifest
  BY DEF NoManifest, Manifest
<1>1. CASE UefiMain
  BY <1>1, NothingDue DEF UefiMain, Goto, Runs, RunStages
<1>2. CASE Confirm
  <2>1. CASE fail_run(run)
    BY <2>1, FailRun, NothingDue
  <2>2. CASE \E m \in Modes : run' = [run EXCEPT !.mode = m, !.stage = "TIME"]
    BY <2>2, NothingDue DEF Runs, RunStages
  <2> QED
    BY <1>2, <2>1, <2>2 DEF Confirm
<1>3. CASE TrustedTime
  BY <1>3, <1>m, NothingDue DEF TrustedTime, Runs, RunStages
<1>4. CASE CreateFails
  <2>1. [run EXCEPT !.manifest = NoManifest] \in Runs
    BY <1>m DEF Runs
  <2> QED
    BY <1>4, <2>1, FailRun, NothingDue DEF CreateFails
<1>5. CASE TimeFails
  <2>1. [run EXCEPT !.service = TRUE, !.manifest = NoManifest] \in Runs
    BY <1>m DEF Runs
  <2> QED
    BY <1>5, <2>1, FailRun, NothingDue DEF TimeFails
<1>6. CASE VerifiedManifest
  <2>1. active.version \in Versions /\ active.digest \in Digests
    BY ArtifactsAssumption
  <2>2. Offered \in Manifest /\ Offered.version \in Versions
    BY <2>1, VersionsAssumption DEF Offered, Manifest
  <2>3. PolicyOf(Offered) \in [kind : {"NONE", "UPDATE"}, target : Nat]
    BY <2>2, VersionsAssumption DEF PolicyOf
  <2>4. run' = [run EXCEPT !.manifest = Offered, !.plan = Offered, !.auth = PolicyOf(Offered),
                           !.stage = "ALLOCATE"]
    BY <1>6 DEF VerifiedManifest
  <2>5. run' \in Runs
    BY <2>2, <2>3, <2>4 DEF Runs, RunStages
  <2>6. run'.stage = "ALLOCATE" /\ run'.plan = Offered /\ run'.auth = PolicyOf(Offered)
    BY <2>4 DEF Runs
  <2> QED
    BY <2>2, <2>5, <2>6 DEF StageInv, PolicyOf, WithPlan, WithImage, WithHandle, WithTarget
<1>7. CASE ManifestFails
  <2>1. [run EXCEPT !.manifest = NoManifest] \in Runs
    BY <1>m DEF Runs
  <2> QED
    BY <1>7, <2>1, FailRun, NothingDue DEF ManifestFails
<1>8. CASE AllocatePages
  <2>1. CASE fail_run(run)
    BY <2>1, FailRun, NothingDue
  <2>2. CASE run' = [run EXCEPT !.pages = "blank", !.stage = "STREAM"]
    <3>1. run' \in Runs
      BY <2>2 DEF Runs, RunStages
    <3>2. run'.stage = "STREAM" /\ run'.plan = run.plan /\ run'.auth = run.auth
      BY <2>2 DEF Runs
    <3> QED
      BY <1>8, <3>1, <3>2
      DEF AllocatePages, StageInv, PolicyOf, WithPlan, WithImage, WithHandle, WithTarget
  <2> QED
    BY <1>8, <2>1, <2>2 DEF AllocatePages
<1>9. CASE StreamImage
  <2> DEFINE r == [run EXCEPT !.pages = run.manifest.digest]
  <2>1. r \in Runs
    BY DEF Runs, Manifest
  <2>2. CASE fail_run(r)
    BY <2>1, <2>2, FailRun, NothingDue
  <2>3. CASE run' = [r EXCEPT !.stage = "DIGEST"]
    <3>1. run' \in Runs
      BY <2>1, <2>3 DEF Runs, RunStages
    <3>2. run'.stage = "DIGEST" /\ run'.plan = run.plan /\ run'.auth = run.auth
      BY <2>3 DEF Runs
    <3> QED
      BY <1>9, <3>1, <3>2
      DEF StreamImage, StageInv, PolicyOf, WithPlan, WithImage, WithHandle, WithTarget
  <2> QED
    BY <1>9, <2>2, <2>3 DEF StreamImage
<1>10. CASE StreamFails
  <2>1. [run EXCEPT !.manifest = NoManifest] \in Runs
    BY <1>m DEF Runs
  <2> QED
    BY <1>10, <2>1, FailRun, NothingDue DEF StreamFails
<1> QED
  BY <1>1, <1>2, <1>3, <1>4, <1>5, <1>6, <1>7, <1>8, <1>9, <1>10

(* A stage that keeps the plan, the image and the mode keeps what was      *)
(* established before it.                                                  *)
LEMMA Carried ==
    ASSUME IInv, ClientInv, run.stage \in WithImage, run'.stage \in WithHandle,
           run'.plan = run.plan, run'.auth = run.auth, run'.pages = run.pages,
           run'.handle, run'.mode = run.mode, started' = started,
           run'.stage \in WithTarget => \A v \in started[run.mode] : v < run.plan.version,
           run'.stage = "START" => DurableVersion(run.mode)' = run.plan.version
    PROVE  StageInv'
BY DEF ClientInv, StageInv, PolicyOf, WithPlan, WithImage, WithHandle, WithTarget, DurableVersion

(* The digest is checked and the register is read.                         *)
LEMMA DigestStep ==
    ASSUME IInv, ClientInv, VerifyDigest
    PROVE  run' \in Runs /\ StageInv'
<1> USE DEF At, HostOnly, ClientInv, ClientTypeInv
<1>1. CASE fail_run(run)
  BY <1>1, FailRun, NothingDue
<1>2. ASSUME run.pages = run.plan.digest, NEW a \in RollbackAnswers,
             IF VersionAccepted(a) THEN run' = [Retained(a) EXCEPT !.stage = "LOAD_VERIFY"]
             ELSE fail_run(Retained(a))
      PROVE  run' \in Runs /\ StageInv'
  <2>1. run.mode \in Modes /\ slot \in [Slots -> Record] /\ nv \in Nat \cup {Undefined}
    BY DEF Runs, IInv, TypeOK
  <2>2. a \in State
    BY <2>1, AnswersType DEF RollbackAnswers
  <2>3. a.version \in Nat
    BY <2>2 DEF State
  <2>4. Retained(a) \in Runs
    BY <2>3 DEF Retained, Runs
  <2>5. CASE fail_run(Retained(a))
    BY <2>4, <2>5, FailRun, NothingDue
  <2>6. CASE run' = [Retained(a) EXCEPT !.stage = "LOAD_VERIFY"]
    <3>1. run' \in Runs
      BY <2>4, <2>6 DEF Runs, RunStages
    <3>2. /\ run'.stage = "LOAD_VERIFY" /\ run'.plan = run.plan /\ run'.auth = run.auth
          /\ run'.pages = run.pages
      BY <2>6 DEF Runs, Retained
    <3>3. run.stage = "DIGEST"
      BY DEF VerifyDigest
    <3> QED
      BY <1>2, <3>1, <3>2, <3>3
      DEF StageInv, PolicyOf, WithPlan, WithImage, WithHandle, WithTarget
  <2> QED
    BY <1>2, <2>5, <2>6
<1> QED
  BY <1>1, <1>2 DEF VerifyDigest

LEMMA LoadStep ==
    ASSUME IInv, ClientInv, LoadImage
    PROVE  run' \in Runs /\ StageInv'
<1> USE DEF At, HostOnly, ClientInv, ClientTypeInv
<1>1. CASE fail_run(run)
  BY <1>1, FailRun, NothingDue
<1>2. CASE run' = [run EXCEPT !.handle = TRUE, !.stage = "ADVANCE_VERSION"]
  <2>1. run' \in Runs
    BY <1>2 DEF Runs, RunStages
  <2>2. /\ run'.stage = "ADVANCE_VERSION" /\ run'.plan = run.plan /\ run'.auth = run.auth
        /\ run'.pages = run.pages /\ run'.handle /\ run'.mode = run.mode
    BY <1>2 DEF Runs
  <2>3. run.stage = "LOAD_VERIFY" /\ started' = started
    BY DEF LoadImage
  <2> QED
    BY <2>1, <2>2, <2>3, Carried DEF WithImage, WithHandle, WithTarget
<1> QED
  BY <1>1, <1>2 DEF LoadImage

(* The register is read again before the advance: its version is the one   *)
(* the plan exceeds, so that the plan exceeds all that was started.        *)
LEMMA AdvanceStep ==
    ASSUME IInv, ClientInv, AdvanceVersion
    PROVE  run' \in Runs /\ StageInv'
<1> USE DEF At, HostOnly, ClientInv, ClientTypeInv
<1>1. CASE fail_run(run)
  BY <1>1, FailRun, NothingDue
<1>2. ASSUME RetainedHolds, NEW reread \in RollbackAnswers,
             reread.status = "OK", reread.version = run.current, Goto("ADVANCING")
      PROVE  run' \in Runs /\ StageInv'
  <2>1. run' \in Runs
    BY <1>2 DEF Goto, Runs, RunStages
  <2>2. /\ run'.stage = "ADVANCING" /\ run'.plan = run.plan /\ run'.auth = run.auth
        /\ run'.pages = run.pages /\ run'.handle = run.handle /\ run'.mode = run.mode
    BY <1>2 DEF Goto, Runs
  <2>3. run.stage = "ADVANCE_VERSION" /\ started' = started
    BY DEF AdvanceVersion
  <2>4. run.mode \in Modes /\ run.plan.version \in Nat
    BY DEF Runs, Manifest
  <2>5. run.current = DurableVersion(run.mode)
    BY <1>2, <2>4, OkAnswer DEF RollbackAnswers
  <2>6. DurableVersion(run.mode) \in Nat /\ started[run.mode] \subseteq Nat
    BY <2>4, DurableType, VersionsAssumption
  <2>7. \A v \in started[run.mode] : v < run.plan.version
    BY <1>2, <2>4, <2>5, <2>6 DEF RetainedHolds, StartedInv
  <2>8. run.handle
    BY <2>3 DEF StageInv, WithHandle
  <2> QED
    BY <2>1, <2>2, <2>3, <2>7, <2>8, Carried DEF WithImage, WithHandle, WithTarget
<1>3. CASE fail_run([run EXCEPT !.retained_valid = FALSE])
  <2>1. [run EXCEPT !.retained_valid = FALSE] \in Runs
    BY DEF Runs
  <2> QED
    BY <1>3, <2>1, FailRun, NothingDue
<1> QED
  BY <1>1, <1>2, <1>3 DEF AdvanceVersion

(* The last reading of the register makes the plan's version the durable   *)
(* one.                                                                    *)
LEMMA ReturnedStep ==
    ASSUME IInv, ClientInv, AdvanceReturned
    PROVE  run' \in Runs /\ StageInv'
<1> USE DEF At, HostOnly, ClientInv, ClientTypeInv
<1> PICK a \in RollbackAnswers :
        IF Confirmed(a) THEN run' = [run EXCEPT !.retained = a.version, !.stage = "START"]
        ELSE fail_run([run EXCEPT !.retained_valid = FALSE])
  BY DEF AdvanceReturned
<1>1. CASE ~Confirmed(a)
  <2>1. [run EXCEPT !.retained_valid = FALSE] \in Runs
    BY DEF Runs
  <2> QED
    BY <1>1, <2>1, FailRun, NothingDue
<1>2. CASE Confirmed(a)
  <2>1. run.stage = "ADVANCING" /\ started' = started /\ UNCHANGED vars
    BY DEF AdvanceReturned
  <2>2. run.mode \in Modes /\ run.plan.version \in Nat
    BY DEF Runs, Manifest
  <2>3. a.version = run.plan.version /\ a.version = DurableVersion(run.mode)
    BY <1>2, <2>2, OkAnswer DEF Confirmed, RollbackAnswers
  <2>4. run' = [run EXCEPT !.retained = a.version, !.stage = "START"]
    BY <1>2
  <2>5. run' \in Runs
    BY <2>2, <2>3, <2>4 DEF Runs, RunStages
  <2>6. /\ run'.stage = "START" /\ run'.plan = run.plan /\ run'.auth = run.auth
        /\ run'.pages = run.pages /\ run'.handle = run.handle /\ run'.mode = run.mode
    BY <2>4 DEF Runs
  <2>7. DurableVersion(run.mode)' = run.plan.version
    BY <2>1, <2>3, <2>6 DEF DurableVersion, vars
  <2>8. run.handle /\ \A v \in started[run.mode] : v < run.plan.version
    BY <2>1 DEF StageInv, WithHandle, WithTarget
  <2> QED
    BY <2>1, <2>5, <2>6, <2>7, <2>8, Carried DEF WithImage, WithHandle, WithTarget
<1> QED
  BY <1>1, <1>2

(* While the advance runs the client waits.                                *)
LEMMA WaitStep ==
    ASSUME IInv, ClientInv, run.stage # "START", UNCHANGED <<run, started>>
    PROVE  StageInv'
BY DEF ClientInv, StageInv

LEMMA StepClient ==
    ASSUME IInv, ClientInv, ClientNext
    PROVE  IInv' /\ ClientInv'
<1> USE DEF At, HostOnly, ClientInv, ClientTypeInv
<1>1. Next \/ UNCHANGED vars
  BY RegisterSeesSteps
<1>2. /\ IInv'
      /\ \A m \in Modes : /\ DurableVersion(m) \in Nat /\ DurableVersion(m)' \in Nat
                          /\ DurableVersion(m)' >= DurableVersion(m)
  BY <1>1, RegisterKeeps
<1>v. Versions \subseteq Nat
  BY VersionsAssumption
<1>3. ASSUME UNCHANGED started PROVE started' \in [Modes -> SUBSET Versions] /\ StartedInv'
  <2>1. SUFFICES ASSUME NEW m \in Modes, NEW v \in started[m] PROVE v <= DurableVersion(m)'
    BY <1>3 DEF StartedInv, DurableVersion
  <2>2. v \in Nat /\ v <= DurableVersion(m)
    BY <1>v, SMTT(30) DEF StartedInv
  <2> QED
    BY <1>2, <2>2
<1>4. CASE Publish
  BY <1>2, <1>3, <1>4, SameDurable DEF Publish, StageInv, DurableVersion, vars
<1>5. CASE StartImage
  <2>1. run.stage = "START" /\ run.mode \in Modes /\ UNCHANGED vars /\ UNCHANGED active
    BY <1>5 DEF StartImage, Runs
  <2>2. run.plan.version = DurableVersion(run.mode) /\ run.plan.version \in Versions
    BY <2>1 DEF StageInv, WithPlan
  <2>3. started' = [started EXCEPT ![run.mode] = @ \cup {run.plan.version}]
    BY <1>5 DEF StartImage
  <2>4. started' \in [Modes -> SUBSET Versions]
    BY <2>1, <2>2, <2>3
  <2>5. StartedInv'
    <3>1. SUFFICES ASSUME NEW m \in Modes, NEW v \in started'[m] PROVE v <= DurableVersion(m)'
      BY DEF StartedInv, DurableVersion
    <3>2. v \in started[m] \/ (m = run.mode /\ v = run.plan.version)
      BY <2>1, <2>3
    <3>3. v <= DurableVersion(m) /\ v \in Nat
      <4>1. CASE v \in started[m]
        BY <1>v, <4>1 DEF StartedInv
      <4>2. CASE m = run.mode /\ v = run.plan.version
        <5>1. v = DurableVersion(m) /\ DurableVersion(m) \in Nat
          BY <1>2, <2>2, <4>2
        <5> QED
          BY <5>1
      <4> QED
        BY <3>2, <4>1, <4>2
    <3> QED
      BY <1>2, <3>3
  <2>6. run' \in Runs /\ StageInv'
    <3>1. CASE Goto("BOOTED")
      BY <3>1, NothingDue DEF Goto, Runs, RunStages
    <3>2. CASE fail_run(run)
      BY <3>2, FailRun, NothingDue
    <3> QED
      BY <1>5, <3>1, <3>2 DEF StartImage
  <2> QED
    BY <1>2, <2>1, <2>4, <2>5, <2>6
<1>6. CASE Leave \/ Reset
  <2>1. run' = Off /\ UNCHANGED <<active, started>>
    BY <1>6, SMTT(30) DEF Leave, Reset
  <2>2. Off \in Runs /\ Off.stage = "OFF"
    BY DEF Off, Runs, RunStages, Manifest, NoManifest, NoAuth, Modes
  <2> QED
    BY <1>2, <1>3, <2>1, <2>2, NothingDue
<1>7. CASE RegisterStep \/ Provision
  <2>1. UNCHANGED clientVars /\ run.stage # "START"
    BY <1>7 DEF RegisterStep, Provision
  <2> QED
    BY <1>2, <1>3, <2>1, WaitStep DEF clientVars
<1>8. ASSUME \/ UefiMain \/ Confirm \/ TrustedTime \/ CreateFails \/ TimeFails
             \/ VerifiedManifest \/ ManifestFails \/ AllocatePages \/ StreamImage \/ StreamFails
             \/ VerifyDigest \/ LoadImage \/ AdvanceVersion \/ AdvanceReturned
      PROVE  IInv' /\ ClientInv'
  <2>1. run' \in Runs /\ StageInv'
    BY <1>8, UpToTheImage, DigestStep, LoadStep, AdvanceStep, ReturnedStep, SMTT(30)
  <2>2. UNCHANGED <<active, started>>
    BY <1>8
    DEF UefiMain, Confirm, TrustedTime, CreateFails, TimeFails, VerifiedManifest,
        ManifestFails, AllocatePages, StreamImage, StreamFails, VerifyDigest, LoadImage,
        AdvanceVersion, AdvanceReturned
  <2> QED
    BY <1>2, <1>3, <2>1, <2>2
<1> QED
  BY <1>4, <1>5, <1>6, <1>7, <1>8 DEF ClientNext, ClientStep

-----------------------------------------------------------------------------
(* The part of ClientSpec that its invariants need: no fairness.           *)
ClientSafety == ClientInit /\ [][ClientNext]_allVars

LEMMA StutterClient == IInv /\ ClientInv /\ UNCHANGED allVars => IInv' /\ ClientInv'
BY StutterIInv
DEF allVars, clientVars, vars, ClientInv, ClientTypeInv, StageInv, StartedInv, DurableVersion

(* The inductive invariant of the recovery runs over the register.         *)
THEOREM ClientInvariance == ClientSafety => [](IInv /\ ClientInv)
<1>1. IInv /\ ClientInv /\ [ClientNext]_allVars => IInv' /\ ClientInv'
  BY StepClient, StutterClient
<1> QED
  BY InitClient, <1>1, PTL DEF ClientSafety

LEMMA InvStarted == ClientInv => StartedIsDurable
BY DEF ClientInv, StageInv, StartedIsDurable, At, WithImage, WithHandle, WithTarget

(* An image is started with its bytes verified, its version durable and    *)
(* above every version started before under the same assurance mode.       *)
THEOREM StartedIsDurableAlways == ClientSpec => []StartedIsDurable
<1>1. ClientSpec => ClientSafety
  BY PTL DEF ClientSpec, ClientSafety
<1> QED
  BY <1>1, ClientInvariance, InvStarted, PTL

(* The recovery runs use the register as its own specification allows, so  *)
(* that everything proved of the register holds of it here.                *)
THEOREM ClientUsesRegister == ClientSafety => Spec
<1>1. ClientInit => Init
  BY DEF ClientInit
<1>2. ClientInv /\ [ClientNext]_allVars => [Next]_vars
  BY RegisterSeesSteps DEF allVars
<1> QED
  BY <1>1, <1>2, ClientInvariance, PTL DEF ClientSafety, Spec

-----------------------------------------------------------------------------

ChainSafety == ChainInit /\ [][ChainNext]_bootVars

(* Every step of the chain is a step of the recovery runs or leaves them   *)
(* alone.                                                                  *)
LEMMA ClientSeesSteps == [ChainNext]_bootVars => [ClientNext]_allVars
<1>1. CASE UNCHANGED bootVars
  BY <1>1 DEF bootVars
<1>2. ASSUME ChainNext PROVE ClientNext \/ UNCHANGED allVars
  <2>1. CASE StartRecovery \/ MenuRecovery
    BY <2>1 DEF StartRecovery, MenuRecovery, ClientNext
  <2>2. CASE Recovery
    BY <2>2 DEF Recovery, ClientNext
  <2>3. CASE PowerCycle
    BY <2>3 DEF PowerCycle, ClientNext
  <2>4. CASE Elsewhere
    BY <2>4 DEF Elsewhere, ClientNext
  <2>5. CASE AddRecoveryOption \/ PbnsBootConfigWrite
    BY <2>5 DEF AddRecoveryOption, PbnsBootConfigWrite
  <2>6. CASE \/ BootLauncher \/ ReadConfig \/ LoadNormal \/ StartNormal \/ RecordFailure
             \/ LoadRecovery \/ RecoveryReturned
    BY <2>6 DEF BootLauncher, ReadConfig, LoadNormal, StartNormal, RecordFailure,
                LoadRecovery, RecoveryReturned, OnlyLauncher
  <2> QED
    BY <1>2, <2>1, <2>2, <2>3, <2>4, <2>5, <2>6 DEF ChainNext, LauncherStep
<1> QED
  BY <1>1, <1>2

LEMMA ChainRunsClient == ChainSpec => ChainSafety /\ ClientSafety
<1>1. ChainInit => ClientInit
  BY DEF ChainInit
<1> QED
  BY <1>1, ClientSeesSteps, PTL DEF ChainSpec, ChainSafety, ClientSafety

(* However recovery is entered, an image is started only as the recovery   *)
(* runs allow: verified, durable and newer than all before.                *)
THEOREM ChainStartedIsDurable == ChainSpec => []StartedIsDurable
BY ChainRunsClient, ClientInvariance, InvStarted, PTL

(* No boot, power cycle or failure of the chain takes a version back.      *)
THEOREM ChainNoRollback == ChainSpec => NoRollback
BY ChainRunsClient, ClientUsesRegister, NoRollbackAlways, PTL

(* Under the whole chain the controller still implements the register.     *)
THEOREM ChainImplementsRegister == ChainSpec => ImplementsRegister
BY ChainRunsClient, ClientUsesRegister, Implementation, PTL

-----------------------------------------------------------------------------
(* While the setup has still to write, the entry it added comes on top of  *)
(* the one that a stored configuration already relies on.                  *)
SetupInv == /\ entries \in Nat
            /\ config # 0 => entries >= 1
            /\ setup # 0 => entries >= (IF config # 0 THEN 2 ELSE 1)

(* The failure variable is of this power cycle, and a launcher that has    *)
(* recorded a failure finds it there when it starts recovery.              *)
Failures == {"none", "LOAD_NORMAL", "START_NORMAL"}
LauncherStages == {"OFF", "READ_CONFIG", "LOAD_NORMAL", "START_NORMAL", "TRANSFERRED",
                   "RECORD", "LOAD_RECOVERY", "START_RECOVERY", "IN_RECOVERY"}
Launchers == [stage : LauncherStages, current : BootNumbers \cup {0},
              image : {"none", "normal", "recovery"}, original : Failures,
              recorded : BOOLEAN]

FailureInv ==
    /\ failure \in [stage : Failures, old : {FALSE}]
    /\ launcher \in Launchers
    /\ launcher.recorded => /\ launcher.stage \in {"LOAD_RECOVERY", "START_RECOVERY"}
                            /\ failure.stage = launcher.original
    /\ FallbackIsTrue

ChainInv == SetupInv /\ FailureInv

LEMMA InitChain == ChainInit => ChainInv
<1> SUFFICES ASSUME ChainInit PROVE ChainInv
  OBVIOUS
<1>1. SetupInv
  BY DEF ChainInit, SetupInv
<1>2. failure \in [stage : Failures, old : {FALSE}] /\ launcher \in Launchers /\ ~ launcher.recorded
  BY DEF ChainInit, NoFailure, LauncherOff, Launchers, LauncherStages, Failures
<1>3. FallbackIsTrue
  BY DEF ChainInit, ClientInit, Off, FallbackIsTrue, At, LauncherOff
<1> QED
  BY <1>1, <1>2, <1>3 DEF ChainInv, FailureInv

LEMMA StepSetup ==
    ASSUME SetupInv, ChainNext
    PROVE  SetupInv'
<1>1. CASE AddRecoveryOption
  BY <1>1 DEF AddRecoveryOption, AtMenu, SetupInv
<1>2. CASE PbnsBootConfigWrite
  BY <1>2 DEF PbnsBootConfigWrite, SetupInv
<1>3. CASE PowerCycle
  BY <1>3 DEF PowerCycle, SetupInv
<1>4. ASSUME UNCHANGED <<config, setup, entries>> PROVE SetupInv'
  BY <1>4 DEF SetupInv
<1> QED
  BY <1>1, <1>2, <1>3, <1>4
  DEF ChainNext, LauncherStep, BootLauncher, ReadConfig, LoadNormal, StartNormal,
      RecordFailure, LoadRecovery, StartRecovery, RecoveryReturned, MenuRecovery,
      Recovery, OnlyLauncher, chainVars

(* A step of the launcher alone: recovery's screen is not concerned.       *)
LEMMA Unconcerned ==
    ASSUME FailureInv, UNCHANGED <<run, shown>>
    PROVE  FallbackIsTrue'
BY DEF FailureInv, FallbackIsTrue, At

(* Recovery is entered and shows what the variable says.                   *)
LEMMA Entered ==
    ASSUME FailureInv, failure' \in {failure, NoFailure},
           shown' = [stage |-> failure.stage, old |-> failure.old, due |-> failure.stage]
    PROVE  FallbackIsTrue' /\ failure' \in [stage : Failures, old : {FALSE}]
<1>1. failure.old = FALSE /\ failure \in [stage : Failures, old : {FALSE}]
  BY DEF FailureInv
<1>2. NoFailure \in [stage : Failures, old : {FALSE}]
  BY DEF NoFailure, Failures
<1>3. ~shown'.old /\ shown'.stage = shown'.due
  BY <1>1
<1> QED
  BY <1>1, <1>2, <1>3 DEF FallbackIsTrue

LEMMA StepFailure ==
    ASSUME FailureInv, ChainNext
    PROVE  FailureInv'
<1>0. /\ LauncherOff \in Launchers /\ ~LauncherOff.recorded
      /\ NoFailure \in [stage : Failures, old : {FALSE}]
  BY DEF LauncherOff, NoFailure, Launchers, LauncherStages, Failures
<1>1. CASE AddRecoveryOption \/ PbnsBootConfigWrite
  BY <1>1, Unconcerned DEF AddRecoveryOption, PbnsBootConfigWrite, FailureInv, allVars, clientVars
<1>2. CASE BootLauncher \/ ReadConfig \/ LoadNormal \/ StartNormal \/ LoadRecovery \/ RecoveryReturned
  <2>1. FallbackIsTrue' /\ UNCHANGED failure
    BY <1>2, Unconcerned DEF BootLauncher, ReadConfig, LoadNormal, StartNormal, LoadRecovery,
            RecoveryReturned, OnlyLauncher, allVars, clientVars
  <2>2. /\ launcher' \in Launchers
        /\ launcher'.recorded => /\ launcher.recorded /\ launcher'.original = launcher.original
                                 /\ launcher'.stage \in {"LOAD_RECOVERY", "START_RECOVERY"}
    <3>1. CASE BootLauncher
      BY <1>0, <3>1 DEF BootLauncher, LauncherOff, Launchers, LauncherStages
    <3>2. CASE ReadConfig
      BY <1>0, <3>2 DEF ReadConfig, L, FailureInv, Launchers, LauncherStages
    <3>3. CASE LoadNormal
      BY <3>3, ZenonT(60) DEF LoadNormal, L, FailureInv, NormalFailed, Unloaded, Launchers, LauncherStages, Failures
    <3>4. CASE StartNormal
      BY <3>4, ZenonT(60) DEF StartNormal, L, FailureInv, NormalFailed, Unloaded, Launchers, LauncherStages, Failures
    <3>5. CASE LoadRecovery
      BY <1>0, <3>5, ZenonT(60) DEF LoadRecovery, L, FailureInv, Launchers, LauncherStages
    <3>6. CASE RecoveryReturned
      BY <1>0, <3>6 DEF RecoveryReturned
    <3> QED
      BY <1>2, <3>1, <3>2, <3>3, <3>4, <3>5, <3>6
  <2> QED
    BY <2>1, <2>2 DEF FailureInv
<1>3. CASE RecordFailure
  <2>1. FallbackIsTrue'
    BY <1>3, Unconcerned DEF RecordFailure, OnlyLauncher, allVars, clientVars
  <2> PICK ok \in BOOLEAN :
           /\ Recorded(ok)
           /\ launcher' = [launcher EXCEPT !.stage = "LOAD_RECOVERY", !.recorded = ok]
    BY <1>3 DEF RecordFailure
  <2>2. /\ launcher' \in Launchers /\ launcher'.stage = "LOAD_RECOVERY"
        /\ launcher'.recorded = ok /\ launcher'.original = launcher.original
        /\ launcher.original \in Failures
    BY DEF FailureInv, Launchers, LauncherStages
  <2>3. /\ failure' \in [stage : Failures, old : {FALSE}]
        /\ ok => failure'.stage = launcher.original
    <3>1. CASE ok
      <4>1. failure' = [stage |-> launcher.original, old |-> FALSE]
        BY <3>1 DEF Recorded
      <4> QED
        BY <2>2, <4>1
    <3>2. CASE ~ok
      BY <3>2 DEF Recorded, FailureInv
    <3> QED
      BY <3>1, <3>2
  <2> QED
    BY <2>1, <2>2, <2>3 DEF FailureInv
<1>4. CASE StartRecovery
  <2>1. /\ launcher.recorded => failure.stage = launcher.original
        /\ launcher.recorded \in BOOLEAN
    BY DEF FailureInv, Launchers
  <2>2. FallbackIsTrue' /\ failure' \in [stage : Failures, old : {FALSE}]
    <3>1. DisplayLauncherFailure(launcher.recorded, launcher.original)
      BY <1>4 DEF StartRecovery
    <3>2. CASE launcher.recorded
      BY <2>1, <3>1, <3>2, Entered DEF DisplayLauncherFailure
    <3>3. CASE ~launcher.recorded
      BY <3>1, <3>3, Entered DEF DisplayLauncherFailure
    <3> QED
      BY <3>2, <3>3
  <2>3. launcher' \in Launchers /\ ~launcher'.recorded
    BY <1>4 DEF StartRecovery, LauncherOff, Launchers, LauncherStages, Failures
  <2> QED
    BY <2>2, <2>3 DEF FailureInv
<1>5. CASE MenuRecovery
  <2>1. FallbackIsTrue' /\ failure' \in [stage : Failures, old : {FALSE}]
    BY <1>5, Entered DEF MenuRecovery, DisplayLauncherFailure
  <2>2. launcher' = launcher /\ launcher.stage = "OFF"
    BY <1>5 DEF MenuRecovery, AtMenu, L
  <2> QED
    BY <2>1, <2>2 DEF FailureInv
<1>6. CASE Recovery
  BY <1>6 DEF Recovery, FailureInv, FallbackIsTrue, NotShown
<1>7. CASE PowerCycle
  BY <1>0, <1>7 DEF PowerCycle, Volatile, FailureInv, FallbackIsTrue, NotShown
<1>8. CASE Elsewhere /\ UNCHANGED chainVars
  <2>1. UNCHANGED <<run, shown, failure, launcher>>
    BY <1>8 DEF Elsewhere, Provision, Publish, chainVars, clientVars
  <2> QED
    BY <2>1, Unconcerned DEF FailureInv
<1> QED
  BY <1>1, <1>2, <1>3, <1>4, <1>5, <1>6, <1>7, <1>8, SMTT(30) DEF ChainNext, LauncherStep

(* The inductive invariant of the setup and the launcher.                  *)
THEOREM ChainInvariance == ChainSpec => []ChainInv
<1>1. ChainInv /\ [ChainNext]_bootVars => ChainInv'
  <2>1. ChainInv /\ UNCHANGED bootVars => ChainInv'
    BY DEF ChainInv, SetupInv, FailureInv, FallbackIsTrue, At, bootVars, allVars, clientVars, chainVars
  <2> QED
    BY <2>1, StepSetup, StepFailure DEF ChainInv
<1> QED
  BY InitChain, <1>1, PTL DEF ChainSpec

(* A stored configuration has a recovery entry in the boot menu, wherever  *)
(* a setup was cut or failed.                                              *)
THEOREM ConfiguredIsReachableAlways == ChainSpec => []ConfiguredIsReachable
<1>1. ChainInv => ConfiguredIsReachable
  BY DEF ChainInv, SetupInv, ConfiguredIsReachable
<1> QED
  BY <1>1, ChainInvariance, PTL

(* Recovery announces the failure that called it, of this power cycle.     *)
THEOREM FallbackIsTrueAlways == ChainSpec => []FallbackIsTrue
<1>1. ChainInv => FallbackIsTrue
  BY DEF ChainInv, FailureInv
<1> QED
  BY <1>1, ChainInvariance, PTL
===============================================================================
