------------------------- MODULE RecoveryRepository -------------------------
(***************************************************************************)
(* The gateway's repository of recovery artifacts                          *)
(* (src/gateway/internal/recovery/repository.go): two directories with a   *)
(* file per digest, artifacts/<digest> and metadata/<digest>.json.  Any    *)
(* number of pbnsctl processes publish into it without a lock, each file   *)
(* staged under a private name, linked to its final one and then           *)
(* protected.  A process may be killed at any step, and the machine may    *)
(* lose power: an entry of a directory that was not synchronized may be    *)
(* lost, bytes that were not may be torn, and a mode that no later         *)
(* synchronization of the file covers may be the one it was created with.  *)
(***************************************************************************)
CONSTANTS Digests,      \* the contents of artifacts, named by their SHA-256
          Publishers    \* pbnsctl processes

VARIABLES artifacts,    \* digest -> the file linked in artifacts/
          metadata,     \* digest -> the file linked in metadata/
          publisher,    \* process -> its Publish
          published,    \* digests for which a Publish returned an artifact
          steady        \* those for which it did since the last power cut

repositoryVars == <<artifacts, metadata, publisher, published, steady>>

(* `whole`: the bytes are those of the digest (hash, size and canonical     *)
(* form agree).  `synced`, `entry` and `kept` are what is on the disk: the *)
(* bytes, the directory entry, the protected mode.                         *)
NoFile == [there |-> FALSE, whole |-> FALSE, synced |-> FALSE, entry |-> FALSE,
           protected |-> FALSE, kept |-> FALSE]
File == [there : BOOLEAN, whole : BOOLEAN, synced : BOOLEAN, entry : BOOLEAN,
         protected : BOOLEAN, kept : BOOLEAN]

(* os.Link of a staged file, whose bytes were written and synchronized;    *)
(* os.ErrExist is no failure and leaves the file that is there.            *)
staged_unsynced == [NoFile EXCEPT !.there = TRUE, !.whole = TRUE]
staged == [NoFile EXCEPT !.there = TRUE, !.whole = TRUE, !.synced = TRUE]
Link(f) == IF f.there THEN f ELSE staged
Chmod(f) == [f EXCEPT !.protected = TRUE]
Synchronized(f) == [f EXCEPT !.entry = f.there]

(* What a power cut can make of a file.                                    *)
OnDisk(whole, mode) == [there |-> TRUE, whole |-> whole, synced |-> TRUE, entry |-> TRUE,
                        protected |-> mode, kept |-> mode]
Survivors(f) ==
    (IF f.entry THEN {} ELSE {NoFile}) \cup
    (IF f.there THEN {OnDisk(w, m) : w \in {f.whole, f.whole /\ f.synced},
                                     m \in {f.protected, f.kept}}
                ELSE {})

RepositoryInit ==
    /\ artifacts = [d \in Digests |-> NoFile]
    /\ metadata = [d \in Digests |-> NoFile]
    /\ publisher \in [Publishers -> [pc : {"idle"}, digest : Digests, changed : {FALSE}]]
    /\ published = {} /\ steady = {}

-----------------------------------------------------------------------------
(* Reading                                                                 *)

(* readMetadata, and verifyArtifactFile, the mode aside.                   *)
readMetadata(d) == IF ~metadata[d].there THEN "UNREGISTERED"
                   ELSE IF metadata[d].protected /\ metadata[d].whole THEN "OK"
                   ELSE "CHANGED"
openFile(d) == IF artifacts[d].there /\ artifacts[d].protected /\ artifacts[d].whole
               THEN "OK" ELSE "CHANGED"
OpenArtifact(d) == IF readMetadata(d) # "OK" THEN readMetadata(d) ELSE openFile(d)

-----------------------------------------------------------------------------
(* Publishing                                                              *)

At(p, pc) == publisher[p].pc = pc
Digest(p) == publisher[p].digest
Proceed(p, pc) == publisher' = [publisher EXCEPT ![p].pc = pc]
Leave(p, changed) == publisher' = [publisher EXCEPT ![p].pc = "idle", ![p].changed = changed]

(* Every system call may fail; what was linked stays, what was staged is   *)
(* removed.                                                                *)
Fails(p) ==
    /\ ~At(p, "idle")
    /\ Leave(p, FALSE)
    /\ UNCHANGED <<artifacts, metadata, published, steady>>

(* The source is copied to a private file, hashed on the way and           *)
(* synchronized: the digest is that of the bytes that were copied.  A      *)
(* source that is no regular file of a valid size, or changes in size on   *)
(* the way, is refused before anything is linked, which changes nothing.   *)
Stage(p) ==
    /\ At(p, "idle")
    /\ \E d \in Digests : publisher' = [publisher EXCEPT ![p] =
                             [pc |-> "link", digest |-> d, changed |-> FALSE]]
    /\ UNCHANGED <<artifacts, metadata, published, steady>>

LinkArtifact(p) ==
    /\ At(p, "link")
    /\ artifacts' = [artifacts EXCEPT ![Digest(p)] = Link(@)]
    /\ Proceed(p, "protect")
    /\ UNCHANGED <<metadata, published, steady>>

ProtectArtifact(p) ==
    /\ At(p, "protect")
    /\ artifacts' = [artifacts EXCEPT ![Digest(p)] = Chmod(@)]
    /\ Proceed(p, "verify")
    /\ UNCHANGED <<metadata, published, steady>>

(* The file that is there, its own or an earlier one, must be the artifact. *)
VerifyArtifact(p) ==
    /\ At(p, "verify")
    /\ IF artifacts[Digest(p)].whole THEN Proceed(p, "sync") ELSE Leave(p, TRUE)
    /\ UNCHANGED <<artifacts, metadata, published, steady>>

directory_not_synced(p) ==
    /\ At(p, "sync")
    /\ Proceed(p, "register")
    /\ UNCHANGED <<artifacts, metadata, published, steady>>

SyncArtifacts(p) ==
    /\ At(p, "sync")
    /\ artifacts' = [d \in Digests |-> Synchronized(artifacts[d])]
    /\ Proceed(p, "register")
    /\ UNCHANGED <<metadata, published, steady>>

(* installMetadata, with its staged file; one that exists must be equal.   *)
LinkMetadata(p) ==
    /\ At(p, "register")
    /\ IF metadata[Digest(p)].there /\ ~metadata[Digest(p)].whole
       THEN Leave(p, TRUE) /\ UNCHANGED metadata
       ELSE /\ metadata' = [metadata EXCEPT ![Digest(p)] = Link(@)]
            /\ Proceed(p, "announce")
    /\ UNCHANGED <<artifacts, published, steady>>

ProtectMetadata(p) ==
    /\ At(p, "announce")
    /\ metadata' = [metadata EXCEPT ![Digest(p)] = Chmod(@)]
    /\ Proceed(p, "finish")
    /\ UNCHANGED <<artifacts, published, steady>>

SyncMetadata(p) ==
    /\ At(p, "finish")
    /\ metadata' = [d \in Digests |-> Synchronized(metadata[d])]
    /\ Leave(p, FALSE)
    /\ published' = published \cup {Digest(p)}
    /\ steady' = steady \cup {Digest(p)}
    /\ UNCHANGED artifacts

Publish(p) == \/ Stage(p) \/ LinkArtifact(p) \/ ProtectArtifact(p)
              \/ VerifyArtifact(p) \/ SyncArtifacts(p) \/ LinkMetadata(p)
              \/ ProtectMetadata(p) \/ SyncMetadata(p) \/ Fails(p)

PowerCut ==
    /\ artifacts' \in [Digests -> UNION {Survivors(artifacts[d]) : d \in Digests}]
    /\ metadata' \in [Digests -> UNION {Survivors(metadata[d]) : d \in Digests}]
    /\ \A d \in Digests : artifacts'[d] \in Survivors(artifacts[d])
    /\ \A d \in Digests : metadata'[d] \in Survivors(metadata[d])
    /\ publisher' = [p \in Publishers |-> [publisher[p] EXCEPT !.pc = "idle", !.changed = FALSE]]
    /\ steady' = {}
    /\ UNCHANGED published

RepositoryNext == (\E p \in Publishers : Publish(p)) \/ PowerCut
RepositorySpec == RepositoryInit /\ [][RepositoryNext]_repositoryVars

-----------------------------------------------------------------------------
(* No publication is refused because of what an earlier one left behind:   *)
(* whichever step it was killed at, failed at or lost power at, Publish    *)
(* can be repeated and never finds a file that is not the artifact's own   *)
(* (ErrArtifactChanged of verifyArtifactFile and of installMetadata, which *)
(* no repetition would cure).                                              *)
NeverWedged == \A p \in Publishers : ~publisher[p].changed

(* An artifact whose Publish returned has its bytes and its registration   *)
(* on the disk, over any number of power cuts; and until the next one      *)
(* OpenArtifact finds it, whatever other publications of it are doing.     *)
PublishedStaysOpen ==
    /\ \A d \in published : artifacts[d].whole /\ artifacts[d].entry
                            /\ metadata[d].whole /\ metadata[d].entry
    /\ \A d \in steady : OpenArtifact(d) = "OK"
=============================================================================
