------------------------------- MODULE Inode --------------------------------
(***************************************************************************)
(* The node ids of a mount: a snapshot id in the high bits of a u64, an    *)
(* index below IndexSpan (2^48) in the low ones.                           *)
(***************************************************************************)
EXTENDS Integers

CONSTANTS MaxSnapshot, \* SnapshotId::MAX (2^16 - 1)
          IndexSpan    \* INDEX_MASK + 1

ASSUME InodeAssumption == MaxSnapshot \in Nat \ {0} /\ IndexSpan \in Nat \ {0, 1}

SYNTHETIC == 0
ROOT == 1

pack(snapshot, index) == snapshot * IndexSpan + index

SnapshotOf(ino) == (ino \div IndexSpan) % (MaxSnapshot + 1)
IndexIn(ino) == ino % IndexSpan
=============================================================================
