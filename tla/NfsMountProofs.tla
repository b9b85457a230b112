--------------------------- MODULE NfsMountProofs ---------------------------
(***************************************************************************)
(* NfsMount for any number of mounts that earlier processes left behind    *)
(* and any number of faults: what may be left at the mountpoint that       *)
(* nobody serves, and that a start keeps off it.                           *)
(***************************************************************************)
EXTENDS NfsMount, SequenceTheorems, TLAPS

\* What removing one mount leaves.
LEMMA Removed ==
    ASSUME NEW S, NEW s \in Seq(S), NEW i \in 1..Len(s)
    PROVE  LET r == RemoveAt(s, i)
           IN  /\ r \in Seq(S) /\ Len(r) = Len(s) - 1
               /\ \A j \in 1..Len(r) : \E k \in 1..Len(s) : r[j] = s[k]
<1> DEFINE a == SubSeq(s, 1, i - 1)
           b == SubSeq(s, i + 1, Len(s))
           r == RemoveAt(s, i)
<1>0. Len(s) \in Nat /\ \A k \in 1..Len(s) : s[k] \in S
  OBVIOUS
<1>1. /\ a \in Seq(S) /\ Len(a) = i - 1
      /\ \A j \in 1..(i - 1) : a[j] = s[j]
  BY <1>0, SubSeqProperties
<1>2. /\ b \in Seq(S) /\ Len(b) = Len(s) - i
      /\ \A j \in 1..(Len(s) - i) : b[j] = s[i + j]
  BY <1>0, SubSeqProperties
<1>3. r = a \o b
  BY DEF RemoveAt
<1> HIDE DEF a, b, r
<1>4. /\ r \in Seq(S) /\ Len(r) = Len(s) - 1
      /\ \A j \in 1..Len(r) : r[j] = IF j <= i - 1 THEN a[j] ELSE b[j - (i - 1)]
  BY <1>0, <1>1, <1>2, <1>3, ConcatProperties
<1>5. ASSUME NEW j \in 1..Len(r) PROVE \E k \in 1..Len(s) : r[j] = s[k]
  <2>1. CASE j <= i - 1
    <3>1. j \in 1..(i - 1) /\ j \in 1..Len(s)
      BY <1>0, <1>4, <2>1
    <3>2. r[j] = s[j]
      BY <1>1, <1>4, <2>1, <3>1
    <3> QED
      BY <3>1, <3>2
  <2>2. CASE j > i - 1
    <3>1. j - (i - 1) \in 1..(Len(s) - i) /\ j + 1 \in 1..Len(s)
      BY <1>0, <1>4, <2>2
    <3>2. r[j] = s[i + (j - (i - 1))]
      BY <1>0, <1>2, <1>4, <2>2, <3>1
    <3> QED
      BY <1>0, <3>1, <3>2
  <2> QED
    BY <1>0, <1>4, <2>1, <2>2
<1> QED
  BY <1>4, <1>5 DEF r

LEMMA WithoutTop ==
    ASSUME NEW S, NEW s \in Seq(S), s # << >>
    PROVE  /\ Front(s) \in Seq(S) /\ Len(Front(s)) = Len(s) - 1
           /\ \A j \in 1..Len(Front(s)) : Front(s)[j] = s[j]
<1>1. Len(s) \in Nat \ {0} /\ \A k \in 1..Len(s) : s[k] \in S
  BY EmptySeq
<1>2. 1 + Len(s) - 1 = Len(s) /\ \A k \in 1..(Len(s) - 1) : k \in 1..Len(s) /\ 1 + k - 1 = k
  BY <1>1
<1>3. /\ SubSeq(s, 1, Len(s) - 1) \in Seq(S) /\ Len(SubSeq(s, 1, Len(s) - 1)) = Len(s) - 1
      /\ \A j \in 1..(Len(s) - 1) : SubSeq(s, 1, Len(s) - 1)[j] = s[j]
  BY <1>1, <1>2, SubSeqProperties
<1> QED
  BY <1>1, <1>3 DEF Front

-----------------------------------------------------------------------------

\* A start mounts on a mountpoint that is free; then there is its own mount at
\* most, and only the process that mounted it serves it.
TableInv ==
    /\ pc \in {"mkdir", "mount"} => table = << >>
    /\ pc \in {"up", "unmounting", "dropping"} => Len(table) <= 1
    /\ \A i \in 1..Len(table) : table[i].served => serving /\ pc \in {"up", "unmounting"}

\* A mount in the table that is there for a reason.
Excused(m) == m.served \/ m.leaving \/ m.lost # "no"

MountInv == TypeOK /\ TableInv /\ OrphansAreExcused

\* What becomes of the table when this process stops serving, when mounts are
\* given up, and when the top one is forced out or removed: every mount was there.
LEMMA Tables ==
    ASSUME table \in Seq(Mount)
    PROVE  /\ \A why \in {"no", "stopped"} :
                 /\ Unserved(why) \in Seq(Mount) /\ Len(Unserved(why)) = Len(table)
                 /\ \A i \in 1..Len(table) :
                       /\ ~ Unserved(why)[i].served
                       /\ Excused(table[i]) => Excused(Unserved(why)[i]) \/ why = "no"
           /\ GivenUp \in Seq(Mount) /\ Len(GivenUp) = Len(table)
           /\ \A i \in 1..Len(table) :
                 Excused(GivenUp[i]) /\ GivenUp[i].served = table[i].served
           /\ IsMounted =>
                 /\ Forced \in Seq(Mount) /\ Len(Forced) = Len(table)
                 /\ \A i \in 1..Len(table) :
                       /\ Forced[i].served = table[i].served
                       /\ i = Len(table) \/ Excused(table[i]) => Excused(Forced[i])
<1>1. Len(table) \in Nat /\ DOMAIN table = 1..Len(table) /\ \A i \in 1..Len(table) : table[i] \in Mount
  OBVIOUS
<1>2. ASSUME NEW why \in {"no", "stopped"}
      PROVE  /\ Unserved(why) \in Seq(Mount) /\ Len(Unserved(why)) = Len(table)
             /\ \A i \in 1..Len(table) :
                   /\ ~ Unserved(why)[i].served
                   /\ Excused(table[i]) => Excused(Unserved(why)[i]) \/ why = "no"
  <2> DEFINE f(m) == IF m.served THEN [m EXCEPT !.served = FALSE, !.lost = why] ELSE m
  <2>1. \A m \in Mount : f(m) \in Mount /\ ~ f(m).served
                         /\ (Excused(m) => Excused(f(m)) \/ why = "no")
    BY DEF Mount, Excused
  <2>2. Unserved(why) = [i \in 1..Len(table) |-> f(table[i])]
    BY <1>1 DEF Unserved
  <2> HIDE DEF f
  <2>3. [i \in 1..Len(table) |-> f(table[i])] \in [1..Len(table) -> Mount]
    BY <1>1, <2>1
  <2> QED
    BY <1>1, <2>1, <2>2, <2>3, IsASeq, LenProperties
<1>3. /\ GivenUp \in Seq(Mount) /\ Len(GivenUp) = Len(table)
      /\ \A i \in 1..Len(table) : Excused(GivenUp[i]) /\ GivenUp[i].served = table[i].served
  <2> DEFINE f(m) == IF m.served \/ m.leaving \/ m.lost # "no" THEN m ELSE [m EXCEPT !.lost = "refused"]
  <2>1. \A m \in Mount : f(m) \in Mount /\ Excused(f(m)) /\ f(m).served = m.served
    BY DEF Mount, Excused
  <2>2. GivenUp = [i \in 1..Len(table) |-> f(table[i])]
    BY <1>1 DEF GivenUp
  <2> HIDE DEF f
  <2>3. [i \in 1..Len(table) |-> f(table[i])] \in [1..Len(table) -> Mount]
    BY <1>1, <2>1
  <2> QED
    BY <1>1, <2>1, <2>2, <2>3, IsASeq, LenProperties
<1>4. ASSUME IsMounted
      PROVE  /\ Forced \in Seq(Mount) /\ Len(Forced) = Len(table)
             /\ \A i \in 1..Len(table) :
                   /\ Forced[i].served = table[i].served
                   /\ i = Len(table) \/ Excused(table[i]) => Excused(Forced[i])
  <2> DEFINE n == Len(table)
             out == [table[n] EXCEPT !.leaving = TRUE]
  <2>1. n \in 1..Len(table)
    BY <1>1, <1>4, EmptySeq DEF IsMounted
  <2>2. out \in Mount /\ Excused(out) /\ out.served = table[n].served
    BY <1>1, <2>1 DEF Mount, Excused
  <2>3. Forced = [table EXCEPT ![n] = out]
    BY DEF Forced
  <2> HIDE DEF out
  <2>4. Forced \in Seq(Mount) /\ Len(Forced) = Len(table)
        /\ \A i \in 1..Len(table) : Forced[i] = IF i = n THEN out ELSE table[i]
    BY <2>1, <2>2, <2>3, ExceptSeq
  <2> QED
    BY <2>2, <2>4
<1> QED
  BY <1>2, <1>3, <1>4

LEMMA MountInvInit == Init => MountInv
<1> SUFFICES ASSUME Init PROVE MountInv
  OBVIOUS
<1> DEFINE left == [served |-> FALSE, leaving |-> FALSE, lost |-> "died"]
<1>1. PICK n \in 0..Leftovers : table \in [1..n -> {left}]
  BY DEF Init
<1>2. left \in Mount
  BY DEF Mount
<1> HIDE DEF left
<1>3. /\ table \in Seq(Mount) /\ DOMAIN table = 1..Len(table)
      /\ \A i \in 1..Len(table) : table[i] = left
  <2>1. n \in Nat /\ table \in [1..n -> Mount] /\ \A i \in 1..n : table[i] = left
    BY BoundsAssumption, <1>1, <1>2
  <2> QED
    BY <2>1, IsASeq, LenProperties
<1>4. faults \in 0..MaxFaults
  BY BoundsAssumption DEF Init
<1> QED
  <2>1. \A i \in 1..Len(table) : table[i].served = FALSE /\ table[i].lost = "died"
    BY <1>3 DEF left
  <2>2. TypeOK
    BY <1>3, <1>4 DEF Init, TypeOK
  <2>3. TableInv /\ OrphansAreExcused
    BY <1>3, <2>1 DEF Init, TableInv, OrphansAreExcused
  <2> QED
    BY <2>2, <2>3 DEF MountInv

LEMMA MountInvStep == MountInv /\ [Next]_vars => MountInv'
<1> SUFFICES ASSUME MountInv, [Next]_vars PROVE MountInv'
  OBVIOUS
<1> DEFINE Rest == /\ serving \in BOOLEAN
                   /\ pc \in {"idle", "check", "force", "settle", "mkdir", "mount", "up",
                              "unmounting", "dropping"}
                   /\ task \in {"prepare", "cleanup"} /\ faults \in 0..MaxFaults
                   /\ pc \in {"mkdir", "mount"} => task = "prepare"
           Fine == pc \in {"check", "force", "settle", "dropping"}
                   \/ \A i \in 1..Len(table) : Excused(table[i])
<1>1. /\ table \in Seq(Mount) /\ Rest /\ TableInv /\ Fine
      /\ Len(table) \in Nat /\ DOMAIN table = 1..Len(table)
      /\ \A i \in 1..Len(table) : table[i] \in Mount
  BY DEF MountInv, TypeOK, OrphansAreExcused, Excused
<1>2. ASSUME table' \in Seq(Mount), Rest', TableInv', Fine' PROVE MountInv'
  BY <1>2 DEF MountInv, TypeOK, OrphansAreExcused, Excused
<1>3. MaxFaults \in Nat /\ (Works \/ Fault => faults' \in 0..MaxFaults)
  BY <1>1, BoundsAssumption DEF Works, Fault
<1>4. IsMounted <=> Len(table) > 0
  BY <1>1, EmptySeq DEF IsMounted
<1> HIDE DEF MountInv
<1>5. ASSUME Bind \/ BindFails PROVE MountInv'
  BY <1>1, <1>2, <1>3, <1>5 DEF Bind, BindFails, TableInv
<1>6. ASSUME Check \/ Settle PROVE MountInv'
  BY <1>1, <1>2, <1>3, <1>4, <1>6 DEF Check, Settle, Freed, Out, IsMounted, TableInv
<1>7. ASSUME CheckFails \/ ForceFindsNothing \/ SettleTimesOut PROVE MountInv'
  BY <1>1, <1>2, <1>3, <1>7, Tables
  DEF CheckFails, ForceFindsNothing, SettleTimesOut, NotFreed, Abort, TableInv
<1>8. ASSUME ForceOut PROVE MountInv'
  BY <1>1, <1>2, <1>3, <1>8, Tables DEF ForceOut, TableInv
<1>9. ASSUME KernelDrops PROVE MountInv'
  <2>1. PICK i \in 1..Len(table) : table' = RemoveAt(table, i)
    BY <1>1, <1>9 DEF KernelDrops
  <2>2. /\ table' \in Seq(Mount) /\ Len(table') = Len(table) - 1
        /\ \A j \in 1..Len(table') : \E k \in 1..Len(table) : table'[j] = table[k]
    <3>1. table \in Seq(Mount)
      BY <1>1
    <3> QED
      BY <2>1, <3>1, Removed
  <2>3. pc \notin {"mkdir", "mount"}
    BY <1>1, <2>1 DEF TableInv
  <2> QED
    BY <1>1, <1>2, <1>9, <2>2, <2>3 DEF KernelDrops, TableInv, Excused
<1>10. ASSUME Mkdir \/ MkdirFails PROVE MountInv'
  BY <1>1, <1>2, <1>3, <1>4, <1>10 DEF Mkdir, MkdirFails, Abort, TableInv
<1>11. ASSUME RunMount \/ RunMountFails PROVE MountInv'
  <2>1. table = << >>
    BY <1>1, <1>11 DEF RunMount, RunMountFails, TableInv
  <2>2. ASSUME NEW b \in BOOLEAN
        PROVE  /\ NewMount(b) \in Seq(Mount) /\ Len(NewMount(b)) = 1
               /\ NewMount(b)[1].served = b /\ (b => Excused(NewMount(b)[1]))
    <3> DEFINE m == [served |-> b, leaving |-> FALSE, lost |-> "no"]
    <3>1. m \in Mount /\ m.served = b /\ (b => Excused(m))
      BY DEF Mount, Excused
    <3>2. NewMount(b) = Append(table, m)
      BY DEF NewMount
    <3> HIDE DEF m
    <3>3. NewMount(b) \in Seq(Mount) /\ Len(NewMount(b)) = 1 /\ NewMount(b)[1] = m
      BY <1>1, <2>1, <3>1, <3>2
    <3> QED
      BY <3>1, <3>3
  <2>3. CASE RunMount
    <3>1. /\ table' \in Seq(Mount) /\ Len(table') = 1
          /\ table'[1].served = TRUE /\ Excused(table'[1])
      BY <2>2, <2>3 DEF RunMount
    <3>2. TableInv' /\ Fine'
      <4>1. \A i \in 1..Len(table') : Excused(table'[i])
        BY <3>1
      <4>2. pc' = "up" /\ serving'
        BY <2>3 DEF RunMount, CanMount
      <4> QED
        BY <3>1, <4>1, <4>2 DEF TableInv
    <3>3. Rest'
      BY <1>1, <1>3, <2>3 DEF RunMount
    <3> QED
      BY <1>2, <3>1, <3>2, <3>3
  <2>4. CASE RunMountFails
    <3>1. table' \in Seq(Mount) /\ \A i \in 1..Len(table') : table'[i].served = FALSE
      <4>1. CASE table' = table
        BY <1>1, <2>1, <4>1
      <4>2. CASE table' = NewMount(FALSE)
        <5>1. table' \in Seq(Mount) /\ Len(table') = 1 /\ table'[1].served = FALSE
          BY <2>2, <4>2
        <5> QED
          BY <5>1
      <4>3. table' = table \/ table' = NewMount(FALSE)
        BY <2>4, Zenon DEF RunMountFails
      <4> QED
        BY <4>1, <4>2, <4>3
    <3>2. TableInv' /\ Fine'
      BY <2>4, <3>1 DEF RunMountFails, CleanUp, TableInv
    <3>3. Rest'
      BY <1>1, <1>3, <2>4 DEF RunMountFails, CleanUp, Abort
    <3> QED
      BY <1>2, <3>1, <3>2, <3>3
  <2> QED
    BY <1>11, <2>3, <2>4
<1>12. ASSUME Unmount PROVE MountInv'
  BY <1>1, <1>2, <1>3, <1>12 DEF Unmount, TableInv, Excused
<1>13. ASSUME Umount PROVE MountInv'
  <2>1. table' \in Seq(Mount) /\ Len(table') = 0
    BY <1>1, <1>4, <1>13, WithoutTop DEF Umount, TableInv, IsMounted
  <2>2. TableInv' /\ Fine'
    BY <1>13, <2>1 DEF Umount, TableInv
  <2>3. Rest'
    BY <1>1, <1>3, <1>13 DEF Umount, Abort
  <2> QED
    BY <1>2, <2>1, <2>2, <2>3
<1>14. ASSUME UmountFails \/ Drop PROVE MountInv'
  BY <1>1, <1>2, <1>3, <1>14, Tables DEF UmountFails, Drop, Abort, TableInv
<1>15. ASSUME DropForces PROVE MountInv'
  <2>1. Len(table) <= 1 /\ pc = "dropping" /\ Works
    BY <1>1, <1>15 DEF DropForces, TableInv
  <2>2. CASE IsMounted
    <3>1. /\ table' \in Seq(Mount) /\ Len(table') = Len(table)
          /\ \A i \in 1..Len(table) : /\ table'[i].served = table[i].served
                                      /\ i = Len(table) => Excused(table'[i])
      BY <1>1, <1>15, <2>2, Tables DEF DropForces
    <3>2. \A i \in 1..Len(table) : i = Len(table)
      <4>1. Len(table) \in Nat
        BY <1>1
      <4> HIDE DEF Fine, Rest
      <4> QED
        BY <2>1, <4>1
    <3>3. TableInv' /\ Fine'
      BY <1>1, <1>15, <2>1, <3>1, <3>2 DEF DropForces, TableInv
    <3>4. Rest'
      BY <1>1, <1>3, <1>15, <2>1 DEF DropForces
    <3> QED
      BY <1>2, <3>1, <3>3, <3>4
  <2>3. CASE ~ IsMounted
    BY <1>1, <1>2, <1>3, <1>4, <1>15, <2>1, <2>3 DEF DropForces, TableInv
  <2> QED
    BY <2>2, <2>3
<1>16. ASSUME DropFails PROVE MountInv'
  BY <1>1, <1>2, <1>3, <1>16, Tables DEF DropFails, TableInv
<1>17. ASSUME Die PROVE MountInv'
  <2> DEFINE f(m) == [m EXCEPT !.served = FALSE, !.lost = IF @ = "no" THEN "died" ELSE @]
  <2>1. \A m \in Mount : f(m) \in Mount /\ Excused(f(m)) /\ ~ f(m).served
    BY DEF Mount, Excused
  <2>2. table' = [i \in 1..Len(table) |-> f(table[i])]
    BY <1>1, <1>17 DEF Die
  <2> HIDE DEF f
  <2>3. table' \in [1..Len(table) -> Mount]
    BY <1>1, <2>1, <2>2
  <2>4. /\ table' \in Seq(Mount) /\ Len(table') = Len(table)
        /\ \A i \in 1..Len(table') : Excused(table'[i]) /\ ~ table'[i].served
    BY <1>1, <2>1, <2>2, <2>3, IsASeq, LenProperties
  <2> QED
    BY <1>1, <1>2, <1>3, <1>17, <2>4 DEF Die, TableInv
<1>18. ASSUME ServerStops PROVE MountInv'
  <2>1. /\ table' \in Seq(Mount) /\ Len(table') = Len(table)
        /\ \A i \in 1..Len(table) : /\ ~ table'[i].served
                                    /\ Excused(table[i]) => Excused(table'[i])
    BY <1>1, <1>18, Tables DEF ServerStops
  <2> QED
    BY <1>1, <1>2, <1>3, <1>18, <2>1, EmptySeq DEF ServerStops, TableInv
<1>19. ASSUME ByHand PROVE MountInv'
  <2>1. /\ table' \in Seq(Mount) /\ Len(table') = Len(table)
        /\ \A i \in 1..Len(table) : /\ table'[i].served = table[i].served
                                    /\ Excused(table[i]) => Excused(table'[i])
    BY <1>1, <1>19, Tables DEF ByHand
  <2>2. pc \notin {"mkdir", "mount"}
    BY <1>1, <1>19 DEF ByHand, IsMounted, TableInv
  <2>3. TableInv' /\ Fine'
    BY <1>1, <1>19, <2>1, <2>2 DEF ByHand, TableInv
  <2>4. Rest'
    BY <1>1, <1>3, <1>19 DEF ByHand
  <2> QED
    BY <1>2, <2>1, <2>3, <2>4
<1>20. CASE UNCHANGED vars
  BY <1>1, <1>2, <1>20 DEF vars, TableInv, Excused
<1> QED
  BY <1>5, <1>6, <1>7, <1>8, <1>9, <1>10, <1>11, <1>12, <1>13, <1>14, <1>15, <1>16, <1>17,
     <1>18, <1>19, <1>20 DEF Next

LEMMA MountInvAlways == Spec => []MountInv
  BY MountInvInit, MountInvStep, PTL DEF Spec

\* However many mounts were left behind and whatever fails, in whatever order:
\* a mount that nobody serves and nobody is about to remove is there because its
\* process died, its server ended by itself, or umount -f was refused.
THEOREM NoOrphanWithoutCause == Spec => []OrphansAreExcused
<1>1. MountInv => OrphansAreExcused
  BY DEF MountInv
<1> QED
  BY <1>1, MountInvAlways, PTL

\* Between its check of the mountpoint and its own mount, a start has no mount
\* before it at all, let alone one that would hang it.
THEOREM StartsOnAFreeMountpoint == Spec => []TouchesNoDeadMount
<1>1. MountInv => TouchesNoDeadMount
  BY EmptySeq DEF MountInv, TypeOK, TableInv, TouchesNoDeadMount
<1> QED
  BY <1>1, MountInvAlways, PTL
=============================================================================
