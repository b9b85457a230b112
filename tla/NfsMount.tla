------------------------------ MODULE NfsMount ------------------------------
(***************************************************************************)
(* The life of an NFS mount (nfs_session.rs): a process serves NFS on a    *)
(* loopback port, has the kernel mount that at a mountpoint, and unmounts  *)
(* it or drops the handle; it may die at any point and start again.  The   *)
(* kernel stacks mounts on one mountpoint; commands act on the top one.    *)
(*                                                                         *)
(* A mount without a server hangs whoever touches it.                      *)
(***************************************************************************)
EXTENDS Naturals, Sequences, SequencesExt

CONSTANTS Leftovers,  \* bound: mounts that earlier processes left behind
          MaxFaults   \* bound: things that go wrong

ASSUME BoundsAssumption == Leftovers \in Nat /\ MaxFaults \in Nat

VARIABLES table,    \* mounts at the mountpoint, the top one last
          serving,  \* this process answers NFS requests
          pc,       \* where it is
          task,     \* what force_unmount_if_mounted is called for
          faults    \* what has gone wrong so far

vars == <<table, serving, pc, task, faults>>

\* A mount is served by this process or not at all; `leaving` once forced
\* out; `lost` says why nobody serves it although nobody is about to remove
\* it: "no" while there is no such reason.
Mount == [served : BOOLEAN, leaving : BOOLEAN, lost : {"no", "died", "stopped", "refused"}]

Init ==
    /\ table \in UNION {[1..n -> {[served |-> FALSE, leaving |-> FALSE, lost |-> "died"]}] :
                            n \in 0..Leftovers}
    /\ serving = FALSE
    /\ pc = "idle" /\ task = "prepare"
    /\ faults = 0

\* Something goes wrong.
Fault == faults < MaxFaults /\ faults' = faults + 1

Works == UNCHANGED faults

IsMounted == table # << >>

\* The mounts when this process stops answering, for a reason or none.
Unserved(why) ==
    [i \in DOMAIN table |->
        IF table[i].served THEN [table[i] EXCEPT !.served = FALSE, !.lost = why] ELSE table[i]]

\* The mounts after umount -f was refused: they stay, and are given up.
GivenUp ==
    [i \in DOMAIN table |->
        IF table[i].served \/ table[i].leaving \/ table[i].lost # "no" THEN table[i]
        ELSE [table[i] EXCEPT !.lost = "refused"]]

\* server.abort()
Abort == serving' = FALSE

-----------------------------------------------------------------------------
\* start

\* Mutant: the mount comes first and the server with the handle.
BindLater == pc = "idle" /\ pc' = "check" /\ UNCHANGED <<table, serving, task, faults>>

\* A server on a port of its own is up before anything is mounted.
Bind ==
    /\ pc = "idle" /\ pc' = "check"
    /\ serving' = TRUE /\ task' = "prepare"
    /\ Works /\ UNCHANGED table

BindFails == pc = "idle" /\ Fault /\ UNCHANGED <<table, serving, pc, task>>

\* Mutant: what is mounted is forced out without waiting for it to be gone.
OutAtOnce == TRUE

\* The kernel's table has no mount here any more.
Out == ~ IsMounted

\* force_unmount_if_mounted returns, well or not, to prepare_mountpoint or to
\* the clean-up of a mount that failed.
Freed ==
    /\ pc' = IF task = "prepare" THEN "mkdir" ELSE "idle"
    /\ UNCHANGED <<table, serving>>

NotFreed ==
    /\ pc' = "idle"
    /\ Abort
    /\ table' = GivenUp

Check ==
    /\ pc = "check"
    /\ IF IsMounted THEN pc' = "force" /\ UNCHANGED <<table, serving>> ELSE Freed
    /\ Works /\ UNCHANGED task

\* The mount table cannot be read, or umount cannot be run or is refused.
CheckFails ==
    /\ pc \in {"check", "force", "settle"} /\ Fault
    /\ NotFreed
    /\ UNCHANGED task

Forced == [table EXCEPT ![Len(table)].leaving = TRUE]

ForceOut ==
    /\ pc = "force" /\ IsMounted
    /\ table' = Forced /\ pc' = "settle"
    /\ Works /\ UNCHANGED <<serving, task>>

\* Somebody was faster: umount finds nothing.
ForceFindsNothing ==
    /\ pc = "force" /\ ~ IsMounted
    /\ NotFreed
    /\ Works /\ UNCHANGED task

Settle ==
    /\ pc = "settle" /\ Out
    /\ Freed
    /\ Works /\ UNCHANGED task

\* The deadline passes: the kernel is slow, or there was more than one mount.
SettleTimesOut ==
    /\ pc = "settle" /\ IsMounted
    /\ IF Last(table).leaving THEN Fault ELSE Works
    /\ NotFreed
    /\ UNCHANGED task

\* The kernel lets go of a mount that was forced out.
KernelDrops ==
    /\ \E i \in DOMAIN table : table[i].leaving /\ table' = RemoveAt(table, i)
    /\ UNCHANGED <<serving, pc, task, faults>>

\* create_dir_all looks at the path, and hangs on a mount nobody serves.
Mkdir ==
    /\ pc = "mkdir" /\ pc' = "mount"
    /\ IsMounted => Last(table).served
    /\ Works /\ UNCHANGED <<table, serving, task>>

MkdirFails ==
    /\ pc = "mkdir" /\ pc' = "idle" /\ Fault
    /\ Abort /\ UNCHANGED <<table, task>>

NewMount(served) == Append(table, [served |-> served, leaving |-> FALSE, lost |-> "no"])

\* The kernel refuses a mountpoint it has not let go of.
CanMount == serving /\ \A i \in DOMAIN table : ~ table[i].leaving

\* The mount command asks the server, and says nothing.
RunMount ==
    /\ pc = "mount" /\ CanMount
    /\ table' = NewMount(TRUE) /\ pc' = "up"
    /\ Works /\ UNCHANGED <<serving, task>>

\* Mutant: a mount command that complained has not mounted anything.
CleanUpNothing == pc' = "idle" /\ UNCHANGED task

\* start cleans up after a mount command that failed.
CleanUp == pc' = "check" /\ task' = "cleanup"

\* It fails, or complains of an option and mounts all the same; either way
\* the server is aborted.
RunMountFails ==
    /\ pc = "mount"
    /\ IF CanMount THEN Fault ELSE Works
    /\ table' \in {table} \cup (IF CanMount THEN {NewMount(FALSE)} ELSE {})
    /\ Abort
    /\ CleanUp

-----------------------------------------------------------------------------
\* unmount and drop

Unmount ==
    /\ pc = "up" /\ pc' = "unmounting"
    /\ Works /\ UNCHANGED <<table, serving, task>>

\* Mutant: the server goes before umount has run.
UmountUnserved ==
    /\ pc = "unmounting" /\ serving
    /\ Abort /\ table' = Unserved("no")
    /\ UNCHANGED <<pc, task, faults>>

\* umount waits for RPCs of the mount, so it ends only while that is served;
\* the server is aborted afterwards.
Umount ==
    /\ pc = "unmounting" /\ IsMounted /\ Last(table).served
    /\ table' = Front(table) /\ pc' = "idle"
    /\ Abort
    /\ Works /\ UNCHANGED task

\* umount is refused, say because files are open, or finds nothing to unmount,
\* or cannot reach the server: the drop of the handle forces the mount out.
UmountFails ==
    /\ pc = "unmounting"
    /\ IF IsMounted /\ Last(table).served THEN Fault ELSE ~ IsMounted /\ Works
    /\ Abort /\ table' = Unserved("no")
    /\ pc' = "dropping"
    /\ UNCHANGED task

Drop ==
    /\ pc = "up" /\ pc' = "dropping"
    /\ Abort /\ table' = Unserved("no")
    /\ Works /\ UNCHANGED task

\* Drop's umount -f, which is not waited for, or is refused.
DropForces ==
    /\ pc = "dropping" /\ pc' = "idle"
    /\ table' = IF IsMounted THEN Forced ELSE table
    /\ Works /\ UNCHANGED <<serving, task>>

DropFails ==
    /\ pc = "dropping" /\ pc' = "idle" /\ Fault
    /\ table' = GivenUp
    /\ UNCHANGED <<serving, task>>

-----------------------------------------------------------------------------

\* The process dies.
Die ==
    /\ pc # "idle" /\ Fault
    /\ pc' = "idle"
    /\ serving' = FALSE
    /\ table' = [i \in DOMAIN table |->
                    [table[i] EXCEPT !.served = FALSE, !.lost = IF @ = "no" THEN "died" ELSE @]]
    /\ UNCHANGED task

\* The server task ends with an error.
ServerStops ==
    /\ serving /\ Fault
    /\ serving' = FALSE
    /\ table' = Unserved("stopped")
    /\ UNCHANGED <<pc, task>>

\* Somebody unmounts by hand.
ByHand ==
    /\ IsMounted /\ Fault
    /\ table' = Forced
    /\ UNCHANGED <<serving, pc, task>>

Next ==
    \/ Bind \/ BindFails \/ Check \/ CheckFails \/ ForceOut \/ ForceFindsNothing
    \/ Settle \/ SettleTimesOut \/ KernelDrops \/ Mkdir \/ MkdirFails
    \/ RunMount \/ RunMountFails
    \/ Unmount \/ Umount \/ UmountFails \/ Drop \/ DropForces \/ DropFails
    \/ Die \/ ServerStops \/ ByHand

Spec == Init /\ [][Next]_vars

\* Whoever wants the mount tries again; commands come back unless they hang;
\* the kernel lets go in the end.
Fairness ==
    /\ WF_vars(Bind)
    /\ WF_vars(Check \/ ForceOut \/ ForceFindsNothing \/ Settle \/ SettleTimesOut)
    /\ WF_vars(Mkdir \/ RunMount \/ RunMountFails)
    /\ WF_vars(Umount \/ UmountFails) /\ WF_vars(DropForces)
    /\ WF_vars(KernelDrops)

FairSpec == Spec /\ Fairness

-----------------------------------------------------------------------------

TypeOK ==
    /\ table \in Seq(Mount) /\ serving \in BOOLEAN
    /\ pc \in {"idle", "check", "force", "settle", "mkdir", "mount", "up",
               "unmounting", "dropping"}
    /\ task \in {"prepare", "cleanup"} /\ faults \in 0..MaxFaults
    /\ pc \in {"mkdir", "mount"} => task = "prepare"

\* A mount that nobody serves and nobody is about to remove is there only
\* when its process died, its server ended by itself, or umount was refused:
\* a start that fails in any other way, an unmount and a drop leave nothing
\* behind that hangs ("a failed start can still leave one behind - and one
\* nobody serves hangs every access to it", nfs_session.rs:85).
OrphansAreExcused ==
    \A i \in DOMAIN table :
        \/ table[i].served \/ table[i].leaving \/ table[i].lost # "no"
        \/ pc \in {"check", "force", "settle", "dropping"}

\* A start does not touch a mountpoint on which an unserved mount is left,
\* however many earlier processes left there and however slow the kernel is
\* in letting go (nfs_session.rs:204).
TouchesNoDeadMount ==
    pc \in {"mkdir", "mount"} => \A i \in DOMAIN table : table[i].served

\* Whatever was left behind, and whatever fails on the way, who goes on trying
\* to start gets a mount.
Recovers == pc = "idle" ~> pc = "up"

\* An unmount ends, since the server outlives it (nfs_session.rs:151); unless
\* the server ended by itself: then it hangs.
ServerStopped == \E i \in DOMAIN table : table[i].lost = "stopped"

UnmountEnds ==
    (pc = "unmounting" /\ ~ ServerStopped) ~> (pc # "unmounting" \/ ServerStopped)
=============================================================================
