----------------------------- MODULE PeersFile ------------------------------
(***************************************************************************)
(* peers.dat over dumps, failures and crashes (CAddrDB, DumpAddresses,     *)
(* StartNode and StopNode in net.cpp).                                     *)
(*                                                                         *)
(* A file is the sequence of the parts written to it: the magic number,    *)
(* the two halves of the addresses of a snapshot, and the checksum over    *)
(* them.  What was written but not committed may be missing or zero after  *)
(* a crash, and a name that was replaced may be the old file's again.      *)
(* FileCommit and CAutoFile are not in the repository: FileCommit flushes  *)
(* and syncs, and reports no failure to its caller.                        *)
(***************************************************************************)
EXTENDS Integers, Sequences, FiniteSets, Functions

CONSTANTS
    Magic, OtherMagic,     \* of our network, and of another
    TmpNames,              \* peers.dat.XXXX
    MaxVersion             \* a bound of the model: the snapshots

PeersDat == "peers.dat"
Files == TmpNames \cup {PeersDat}
NoFile == << >>
Nothing == << >>

VARIABLES
    addrman,       \* the snapshot in memory, 0 for none
    disk,          \* each file as the processes see it
    durable,       \*   and how many parts of it outlive a crash
    before,        \* the peers.dat that the last rename replaced
    writer,        \* CAddrDB::Write: where it is, its file and its image
    state,         \* of the program
    loaded,        \* ghost: what the last start read, and
    torn           \*   the files whose flush failed

vars == <<addrman, disk, durable, before, writer, state, loaded, torn>>

\* ssPeers
Data(magic, v) == << <<"magic", magic>>, <<"addr", v>>, <<"addr", v>> >>
Image(magic, v) == Append(Data(magic, v), <<"csum", Data(magic, v)>>)
Parts == 4
Zero == <<"zero", 0>>

\* The first n parts of f, with zeros after them up to part m.
Cut(f, n, m) == [i \in 1..m |-> IF i <= n THEN f[i] ELSE Zero]

Init ==
    /\ addrman = 0
    /\ \E first \in {NoFile, Image(Magic, 1), Image(OtherMagic, 1)} :
         /\ disk = [f \in Files |-> IF f = PeersDat THEN first ELSE NoFile]
         /\ before = first
    /\ durable = [f \in Files |-> Len(disk[f])]
    /\ writer = [at |-> "idle"]
    /\ state = "down" /\ loaded = Nothing /\ torn = {}

-----------------------------------------------------------------------------
\* Mutant of Read: the checksum is not compared.
ReadUnchecked(f) ==
    IF Len(f) = Parts /\ f[1] = <<"magic", Magic>> THEN <<f[2][2], f[3][2]>> ELSE Nothing

\* CAddrDB::Read: Nothing from a file that is missing, too short, damaged, or of
\* another network.
Read(f) ==
    IF /\ Len(f) = Parts
       /\ f[4] = <<"csum", SubSeq(f, 1, 3)>>
       /\ f[1] = <<"magic", Magic>>
    THEN <<f[2][2], f[3][2]>> ELSE Nothing

\* StartNode; an invalid file is recreated later.
StartNode ==
    /\ state = "down"
    /\ loaded' = Read(disk[PeersDat])
    /\ addrman' = IF loaded' = Nothing THEN 0 ELSE loaded'[1]
    /\ state' = "running"
    /\ UNCHANGED <<disk, durable, before, writer, torn>>

\* The addresses change.
Learn ==
    /\ state = "running" /\ addrman < MaxVersion
    /\ addrman' = addrman + 1
    /\ UNCHANGED <<disk, durable, before, writer, state, loaded, torn>>

\* DumpAddresses, every quarter of an hour or from StopNode: the snapshot is
\* serialized, and the temporary file opened; a name left by a crash is reused.
Dump ==
    /\ state \in {"running", "stopping"} /\ writer.at = "idle"
    /\ \E tmp \in TmpNames :
         /\ writer' = [at |-> "write", tmp |-> tmp, image |-> Image(Magic, addrman)]
         /\ disk' = [disk EXCEPT ![tmp] = NoFile]
         /\ durable' = [durable EXCEPT ![tmp] = 0]
         /\ torn' = torn \ {tmp}
    /\ UNCHANGED <<addrman, before, state, loaded>>

\* The end of Write; StopNode's is the end of the program.
Finish == /\ writer' = [at |-> "idle"]
          /\ state' = IF state = "stopping" THEN "down" ELSE state

\* The temporary file cannot be opened.
OpenFails ==
    /\ state \in {"running", "stopping"} /\ writer.at = "idle"
    /\ Finish
    /\ UNCHANGED <<addrman, disk, durable, before, loaded, torn>>

\* fileout << ssPeers, in parts, and its failure.
WritePart ==
    /\ writer.at = "write"
    /\ LET n == Len(disk[writer.tmp]) IN
         /\ disk' = [disk EXCEPT ![writer.tmp] = Append(@, writer.image[n + 1])]
         /\ writer' = [writer EXCEPT !.at = IF n + 1 = Parts THEN "commit" ELSE "write"]
    /\ UNCHANGED <<addrman, durable, before, state, loaded, torn>>
WriteFails ==
    /\ writer.at = "write"
    /\ Finish
    /\ UNCHANGED <<addrman, disk, durable, before, loaded, torn>>

\* Mutant of Committed: the file is closed without a sync.
CommittedNot(tmp) == durable[tmp]

\* The parts of the file that are on disk after a commit.
Committed(tmp) == Len(disk[tmp])

\* FileCommit; when the flush or the sync fails, the parts it had left are missing
\* or zero.
Commit ==
    /\ writer.at = "commit"
    /\ \/ /\ durable' = [durable EXCEPT ![writer.tmp] = Committed(writer.tmp)]
          /\ UNCHANGED <<disk, torn>>
       \/ \E n \in 0..(Parts - 1), zeros \in BOOLEAN :
            /\ disk' = [disk EXCEPT ![writer.tmp] = Cut(@, n, IF zeros THEN Parts ELSE n)]
            /\ durable' = [durable EXCEPT ![writer.tmp] = IF zeros THEN Parts ELSE n]
            /\ torn' = torn \cup {writer.tmp}
    /\ writer' = [writer EXCEPT !.at = "rename"]
    /\ UNCHANGED <<addrman, before, state, loaded>>

\* RenameOver, and its failure.
Rename ==
    /\ writer.at = "rename"
    /\ before' = IF PeersDat \in torn THEN before ELSE disk[PeersDat]
    /\ disk' = [disk EXCEPT ![PeersDat] = disk[writer.tmp], ![writer.tmp] = NoFile]
    /\ durable' = [durable EXCEPT ![PeersDat] = durable[writer.tmp], ![writer.tmp] = 0]
    /\ torn' = (torn \ {writer.tmp, PeersDat}) \cup
                 (IF writer.tmp \in torn THEN {PeersDat} ELSE {})
    /\ Finish
    /\ UNCHANGED <<addrman, loaded>>
RenameFails ==
    /\ writer.at = "rename"
    /\ Finish
    /\ UNCHANGED <<addrman, disk, durable, before, loaded, torn>>

StopNode ==
    /\ state = "running" /\ writer.at = "idle"
    /\ state' = "stopping"
    /\ UNCHANGED <<addrman, disk, durable, before, writer, loaded, torn>>

\* The machine stops: of each file the durable parts are left, and perhaps more of
\* them, or zeros in their place.
Crash ==
    /\ state # "down"
    /\ \E more \in [Files -> 0..Parts], zeros \in BOOLEAN :
         /\ \A f \in Files : durable[f] + more[f] <= Len(disk[f])
         /\ disk' = [f \in Files |-> LET n == durable[f] + more[f] IN
                                    Cut(disk[f], IF zeros THEN durable[f] ELSE n, n)]
         /\ durable' = [f \in Files |-> durable[f] + more[f]]
    /\ addrman' = 0
    /\ writer' = [at |-> "idle"] /\ state' = "down"
    /\ UNCHANGED <<before, loaded, torn>>

\* The same, and the last rename is undone.
CrashUndone ==
    /\ state # "down"
    /\ disk' = [disk EXCEPT ![PeersDat] = before]
    /\ durable' = [f \in Files |-> Len(disk'[f])]
    /\ torn' = torn \ {PeersDat}
    /\ addrman' = 0
    /\ writer' = [at |-> "idle"] /\ state' = "down"
    /\ UNCHANGED <<before, loaded>>

Next == \/ StartNode \/ Learn \/ Dump \/ OpenFails \/ WritePart \/ WriteFails \/ Commit
        \/ Rename \/ RenameFails \/ StopNode \/ Crash \/ CrashUndone

Spec == Init /\ [][Next]_vars

-----------------------------------------------------------------------------
(* Properties *)

\* CAddrDB::Write, "replace existing peers.dat, if any, with new": wherever the
\* program stops, peers.dat is a whole snapshot or not there, unless a flush failed.
PeersDatWhole ==
    \/ PeersDat \in torn
    \/ disk[PeersDat] = NoFile
    \/ \E m \in {Magic, OtherMagic}, v \in 0..MaxVersion : disk[PeersDat] = Image(m, v)

\* CAddrDB::Read, "verify stored checksum matches input data": what a start loads
\* was dumped as one snapshot, even when a flush failed.
LoadedWhole == loaded # Nothing => loaded[1] = loaded[2]
=============================================================================
